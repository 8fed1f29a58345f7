------------------------------ MODULE Requests ------------------------------
(***************************************************************************)
(* The requests of the IDA worker, as tables: how each method of IdaWorker *)
(* sends its request and waits for the answer (worker.rs), what the arm of *)
(* the main-thread loop that serves it checks first (loop_impl.rs), and    *)
(* whether the handler behind the arm changes the database (handlers/).    *)
(* Arguments, results and log lines are left out.                          *)
(***************************************************************************)
EXTENDS Tables

-----------------------------------------------------------------------------
(* How a method talks to the loop.  "try" fails when the queue is full,    *)
(* "retry" waits for room for at most five seconds, "insist" for ever.     *)
(* "wait" has no deadline; "bounded" gives up at its deadline; "sideEffect"*)
(* gives up only if it can still withdraw the request.  "none" expects no  *)
(* answer.                                                                 *)

Waits(k) == [kind |-> k, send |-> "try", recv |-> "wait", observed |-> FALSE]

Bounded(k) == [Waits(k) EXCEPT !.recv = "bounded"]

SideEffect(k) == [Waits(k) EXCEPT !.recv = "sideEffect"]

(* A variant whose caller holds a cancellation token.                      *)
Observed(k) == [Waits(k) EXCEPT !.observed = TRUE]

ControlMethods ==
  [open_observed_with_generation |-> Observed("Open"),
   close_if_generation |-> [Waits("CloseIfGeneration") EXCEPT !.send = "retry"],
   close               |-> [Waits("Close") EXCEPT !.send = "retry"],
   close_for_shutdown  |-> [Waits("Close") EXCEPT !.send = "insist"]]

DebugMethods ==
  [load_debug_info |-> Waits("LoadDebugInfo"),
   debug_launch    |-> SideEffect("DebugLaunch"),
   debug_attach    |-> SideEffect("DebugAttach"),
   debug_modules   |-> Bounded("DebugModules"),
   debug_stop      |-> SideEffect("DebugStop")]

AnalysisMethods ==
  [analysis_status_for_generation |-> Waits("AnalysisStatus"),
   dsc_load_image_for_generation  |-> SideEffect("DscLoadImage"),
   dsc_load_region |-> SideEffect("DscLoadRegion"),
   shutdown        |-> [kind |-> "Shutdown", send |-> "insist", recv |-> "none",
                        observed |-> FALSE]]

DisasmMethods ==
  [list_functions   |-> Bounded("ListFunctions"),
   resolve_function |-> Waits("ResolveFunction"),
   disasm_by_name   |-> Waits("DisasmByName"),
   disasm           |-> Waits("Disasm"),
   render_range     |-> Waits("RenderRange"),
   decompile        |-> Waits("Decompile"),
   list_lvars       |-> Bounded("ListLvars"),
   rename_lvar      |-> SideEffect("RenameLvar"),
   set_lvar_type    |-> SideEffect("SetLvarType")]

TypeMethods ==
  [list_pseudocode_comments |-> Bounded("ListPseudocodeComments"),
   set_pseudocode_comment   |-> SideEffect("SetPseudocodeComment"),
   segments     |-> Waits("Segments"),
   strings      |-> Bounded("Strings"),
   local_types  |-> Bounded("LocalTypes"),
   declare_type |-> Waits("DeclareType"),
   apply_types  |-> Waits("ApplyTypes"),
   infer_types  |-> Waits("InferTypes")]

StackMethods ==
  [addr_info     |-> Waits("AddrInfo"),
   function_at   |-> Waits("FunctionAt"),
   disasm_function_at |-> Waits("DisasmFunctionAt"),
   declare_stack |-> Waits("DeclareStack"),
   delete_stack  |-> Waits("DeleteStack"),
   stack_frame   |-> Waits("StackFrame"),
   structs       |-> Bounded("Structs"),
   struct_info   |-> Waits("StructInfo"),
   read_struct   |-> Waits("ReadStruct")]

XrefMethods ==
  [xrefs_to       |-> Bounded("XRefsTo"),
   xrefs_from     |-> Bounded("XRefsFrom"),
   xrefs_to_field |-> Waits("XRefsToField"),
   imports        |-> Waits("Imports"),
   exports        |-> Waits("Exports"),
   entrypoints    |-> Waits("Entrypoints"),
   lumina_lookup  |-> Bounded("LuminaLookup"),
   lumina_apply   |-> Waits("LuminaApply"),
   get_bytes      |-> Waits("GetBytes")]

PatchMethods ==
  [list_patches |-> Waits("ListPatches"),
   set_comments |-> Waits("SetComments"),
   rename       |-> Waits("Rename"),
   patch_bytes  |-> Waits("PatchBytes"),
   patch_asm    |-> Waits("PatchAsm"),
   basic_blocks |-> Waits("BasicBlocks"),
   callees      |-> Waits("Callees"),
   callers      |-> Waits("Callers"),
   idb_meta     |-> Waits("IdbMeta"),
   lookup_funcs |-> Waits("LookupFunctions")]

SearchMethods ==
  [list_globals    |-> Bounded("ListGlobals"),
   analyze_strings |-> Bounded("AnalyzeStrings"),
   find_string     |-> Bounded("FindString"),
   xrefs_to_string |-> Bounded("XrefsToString"),
   analyze_funcs   |-> SideEffect("AnalyzeFuncs"),
   analyze_funcs_observed |-> Observed("AnalyzeFuncs"),
   find_bytes      |-> Bounded("FindBytes")]

InsnMethods ==
  [search_text |-> Bounded("SearchText"),
   search_imm  |-> Bounded("SearchImm"),
   find_insns  |-> Bounded("FindInsns"),
   find_insn_operands |-> Bounded("FindInsnOperands"),
   read_int      |-> Waits("ReadInt"),
   save_database |-> Waits("SaveDatabase"),
   get_string    |-> Waits("GetString"),
   get_global_value |-> Waits("GetGlobalValue"),
   find_paths    |-> Waits("FindPaths"),
   callgraph     |-> Waits("CallGraph")]

ScriptMethods ==
  [xref_matrix  |-> Waits("XrefMatrix"),
   export_funcs |-> Waits("ExportFuncs"),
   run_script   |-> SideEffect("RunScript"),
   run_script_observed |-> Observed("RunScript"),
   pseudocode_at |-> Waits("PseudocodeAt")]

(* IdaWorker: every method that sends a request.                           *)
IdaWorker ==
  Merged({ControlMethods, DebugMethods, AnalysisMethods, DisasmMethods, TypeMethods,
          StackMethods, XrefMethods, PatchMethods, SearchMethods, InsnMethods, ScriptMethods})

-----------------------------------------------------------------------------
(* What an arm of the loop does before it calls its handler: claim the     *)
(* side-effect admission, check the cancellation token, check the database *)
(* generation; and whether it calls the handler under the crash guard.     *)

Guarded == [admits |-> FALSE, token |-> FALSE, bound |-> FALSE, guarded |-> TRUE]

Bare == [Guarded EXCEPT !.guarded = FALSE]

Admitted == [Guarded EXCEPT !.admits = TRUE]

DebugArms ==
  [LoadDebugInfo |-> Guarded, DebugLaunch |-> Admitted,
   DebugAttach |-> Admitted, DebugModules |-> Guarded, DebugStop |-> Admitted]

AnalysisArms ==
  [AnalysisStatus |-> [Guarded EXCEPT !.bound = TRUE],
   DscLoadImage   |-> [Admitted EXCEPT !.bound = TRUE],
   DscLoadRegion  |-> Admitted]

DisasmArms ==
  [ListFunctions |-> Bare, ResolveFunction |-> Guarded, DisasmByName |-> Guarded,
   Disasm |-> Guarded, RenderRange |-> Guarded, Decompile |-> Guarded,
   ListLvars |-> Guarded]

LocalArms ==
  [RenameLvar |-> Admitted, SetLvarType |-> Admitted,
   ListPseudocodeComments |-> Guarded, SetPseudocodeComment |-> Admitted,
   Segments |-> Guarded, Strings |-> Guarded, LocalTypes |-> Guarded]

TypeArms ==
  [DeclareType |-> Guarded, ApplyTypes |-> Guarded, InferTypes |-> Guarded,
   AddrInfo |-> Bare, FunctionAt |-> Bare, DisasmFunctionAt |-> Bare]

StackArms ==
  [DeclareStack |-> Guarded, DeleteStack |-> Guarded, StackFrame |-> Guarded,
   Structs |-> Guarded, StructInfo |-> Guarded, ReadStruct |-> Guarded]

XrefArms ==
  [XRefsTo |-> Guarded, XRefsFrom |-> Guarded, XRefsToField |-> Guarded,
   Imports |-> Guarded, Exports |-> Guarded, Entrypoints |-> Guarded]

PatchArms ==
  [LuminaLookup |-> Guarded, LuminaApply |-> Guarded, GetBytes |-> Guarded,
   SetComments |-> Guarded]

RenameArms ==
  [Rename |-> Guarded, PatchBytes |-> Guarded, ListPatches |-> Guarded,
   PatchAsm |-> Guarded, BasicBlocks |-> Guarded]

StringArms ==
  [Callees |-> Guarded, Callers |-> Guarded, IdbMeta |-> Guarded,
   LookupFunctions |-> Guarded, ListGlobals |-> Guarded,
   AnalyzeStrings |-> Guarded, FindString |-> Guarded, XrefsToString |-> Guarded]

SearchArms ==
  [AnalyzeFuncs |-> [Admitted EXCEPT !.token = TRUE],
   FindBytes |-> Guarded, SearchText |-> Guarded, SearchImm |-> Guarded,
   FindInsns |-> Guarded, FindInsnOperands |-> Guarded, SaveDatabase |-> Guarded]

GlobalArms ==
  [ReadInt |-> Guarded, GetString |-> Guarded, GetGlobalValue |-> Guarded,
   FindPaths |-> Guarded, CallGraph |-> Guarded, XrefMatrix |-> Guarded,
   ExportFuncs |-> Guarded, PseudocodeAt |-> Guarded]

ScriptArms ==
  [RunScript |-> [Admitted EXCEPT !.token = TRUE]]

(* The arms that serve requests on an open database.                       *)
Arms ==
  Merged({DebugArms, AnalysisArms, DisasmArms, LocalArms, TypeArms, StackArms, XrefArms,
          PatchArms, RenameArms, StringArms, SearchArms, GlobalArms, ScriptArms})

-----------------------------------------------------------------------------
(* What the handlers do to the database: "read" leaves it alone, "write"   *)
(* changes it, "save" writes it to disk, "analyze" changes it and saves,   *)
(* "script" runs arbitrary code on it, "debugStart" and "debugStop" change *)
(* the debugger session.  A handler not listed only reads.                 *)

AnnotationEffects ==
  [SetPseudocodeComment |-> "write", SetComments |-> "write", Rename |-> "write"]

TypeEffects ==
  [DeclareType |-> "write", ApplyTypes |-> "write", DeclareStack |-> "write",
   DeleteStack |-> "write"]

LocalEffects == [RenameLvar |-> "write", SetLvarType |-> "write"]

PatchEffects == [PatchBytes |-> "write", PatchAsm |-> "write"]

LuminaEffects == [LuminaApply |-> "write"]

DscuEffects == [DscLoadImage |-> "write", DscLoadRegion |-> "write"]

DatabaseEffects == [LoadDebugInfo |-> "write", SaveDatabase |-> "save"]

AnalyzeEffects == [AnalyzeFuncs |-> "analyze"]

ScriptEffects == [RunScript |-> "script"]

DebuggerEffects ==
  [DebugLaunch |-> "debugStart", DebugAttach |-> "debugStart", DebugStop |-> "debugStop"]

Effects ==
  Merged({AnnotationEffects, TypeEffects, LocalEffects, PatchEffects, LuminaEffects,
          DscuEffects, DatabaseEffects, AnalyzeEffects, ScriptEffects, DebuggerEffects})

-----------------------------------------------------------------------------
(* A request as the loop sees it: its method and its arm joined, without   *)
(* the names, so that requests served alike are one case.                  *)

ControlKinds == {"Open", "Close", "CloseIfGeneration", "Shutdown"}

EffectOf(k) ==
  IF k \in ControlKinds THEN k
  ELSE IF k \in DOMAIN Effects THEN Effects[k] ELSE "read"

(* Open is the only control request with a token check of its own.         *)
ArmOf(k) ==
  IF k \in ControlKinds THEN [Bare EXCEPT !.token = (k = "Open")] ELSE Arms[k]

Shape(m) ==
  LET w == IdaWorker[m] IN
    [send |-> w.send, recv |-> w.recv, observed |-> w.observed,
     arm |-> ArmOf(w.kind), effect |-> EffectOf(w.kind)]

Shapes == {Shape(m) : m \in DOMAIN IdaWorker}

(* The handlers that change something a caller can see afterwards.         *)
Mutates(s) == s.effect \in {"write", "analyze", "script", "debugStart", "debugStop"}
=============================================================================
