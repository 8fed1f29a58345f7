---------------------------- MODULE ToolCallsProofs ----------------------------
(***************************************************************************)
(* Proofs about ToolCalls, for any number of concurrent calls, items and   *)
(* leases and any choice of include bases.  The tables of Tools enter by   *)
(* one fact (OfferedRoutes), which follows every method through the pooled *)
(* backend, the child's handler and the local backend; IInv is the         *)
(* inductive invariant, and FromFilter relates the calls to the filter.    *)
(***************************************************************************)
EXTENDS ToolCalls, TLAPS

-----------------------------------------------------------------------------
(* Calls.                                                                  *)

Plain(s) == ~s.debug /\ s.effect \notin {"Open", "Close"}

\* What every step of a batch is: no request of the debugger, no open, no close.
Batch(steps) == \A i \in 1 .. Len(steps) : Plain(steps[i])

StepLists == {r.steps : r \in UNION {Offered[f] : f \in Filters}} \cup {Idle.route.steps}

Routes == [many : BOOLEAN, kept : BOOLEAN, steps : StepLists]

Records ==
  [phase : Phases, route : Routes, left : 0 .. MaxItems, step : Nat, lease : 0 .. MaxLives,
   fresh : BOOLEAN, at : 0 .. 2, loss : Losses,
   reply : {"none", "ok", "error", "disabled"}]

\* A handler at work: it has an item and a step left, and only the steps of a
\* batch are repeated.
AtWork(r) ==
  /\ r.left \in 1 .. MaxItems /\ r.step \in 1 .. Len(r.route.steps)
  /\ r.route.many => Batch(r.route.steps)

\* A call, at any time.
Sound(r) ==
  /\ r \in Records
  /\ r.phase # "done" => AtWork(r) /\ r.loss # "fatal"
  /\ r.phase = "done" => r.step = 0
  /\ r.phase = "done" /\ r.loss = "fatal" => r.reply = "error"
  /\ r.phase \in {"queued", "child"} => r.lease \in 1 .. MaxLives

Bookkeeping ==
  /\ filter \in Filters
  /\ lease \in 0 .. MaxLives
  /\ fate \in [1 .. MaxLives -> {"unused", "leased", "released", "dead"}]
  /\ pinned \in BOOLEAN

CallsSound == call \in [Clients -> Records] /\ \A c \in Clients : Sound(call[c])

\* The call lock: no two calls in the same child.
OneInChild ==
  \A c, d \in Clients :
    call[c].phase = "child" /\ call[d].phase = "child" /\ call[c].lease = call[d].lease => c = d

IInv == Bookkeeping /\ CallsSound /\ OneInChild /\ RunsOnItsLease

-----------------------------------------------------------------------------
(* The tables.                                                             *)

\* The methods of the backend that handlers call and that only read.
Reading ==
  {"debug_modules", "disasm_by_name", "disasm", "decompile", "analysis_status", "list_functions",
   "resolve_function", "render_range", "list_lvars", "list_pseudocode_comments", "segments",
   "strings", "local_types", "disasm_function_at", "infer_types", "addr_info", "function_at",
   "stack_frame", "structs", "struct_info", "read_struct", "xrefs_to", "xrefs_from",
   "xrefs_to_field", "imports", "exports", "entrypoints", "lumina_lookup", "get_bytes",
   "list_patches", "basic_blocks", "callees", "callers", "idb_meta", "lookup_funcs",
   "list_globals", "analyze_strings", "find_string", "xrefs_to_string", "find_bytes",
   "search_text", "search_imm", "find_insns", "find_insn_operands", "export_funcs", "read_int",
   "get_string", "get_global_value", "find_paths", "callgraph", "xref_matrix", "pseudocode_at"}

\* The others.
Changing ==
  {"open_observed_with_generation", "close", "load_debug_info", "debug_launch", "debug_attach",
   "debug_stop", "dsc_load_image", "dsc_load_region", "rename_lvar", "set_lvar_type",
   "set_pseudocode_comment", "declare_type", "apply_types", "declare_stack", "delete_stack",
   "patch_bytes", "lumina_apply", "set_comments", "rename", "patch_asm",
   "analyze_funcs_observed", "analyze_funcs_unbounded_observed", "save_database",
   "run_script_observed"}

Methods == Reading \cup Changing

\* The methods that handlers repeat for every item.
BatchMethods ==
  {"disasm", "decompile", "pseudocode_at", "xrefs_to", "xrefs_from", "get_bytes",
   "basic_blocks", "callees", "callers", "find_bytes", "search_text", "search_imm",
   "read_int", "get_string", "get_global_value", "callgraph", "read_struct"}

\* The tool that the pooled backend calls for a method, where it has not the
\* name of the method.
Renamed ==
  [open_observed_with_generation |-> "open_idb", close |-> "close_idb",
   dsc_load_image |-> "dsc_add_dylib", dsc_load_region |-> "dsc_add_region",
   patch_bytes |-> "patch", save_database |-> "save_idb", run_script_observed |-> "run_script",
   analyze_funcs_observed |-> "analyze_funcs",
   analyze_funcs_unbounded_observed |-> "analyze_funcs",
   search_text |-> "search", search_imm |-> "search"]

ToolOf(m) == IF m \in DOMAIN Renamed THEN Renamed[m] ELSE m

VariantOf(m) ==
  CASE m = "search_text" -> "text"
    [] m = "search_imm" -> "imm"
    [] m = "analyze_funcs_unbounded_observed" -> "unbounded"
    [] m = "export_funcs" -> "all"
    [] OTHER -> "default"

TextTools == {"disasm_by_name", "disasm", "decompile", "disasm_function_at"}

FormOf(m) ==
  CASE m \in TextTools -> "text"
    [] m \in {"find_bytes", "search_text", "search_imm"} -> "matches"
    [] m = "dsc_load_image" -> "image"
    [] m = "dsc_load_region" -> "region"
    [] OTHER -> "json"

\* What the child does for it: the same, and for the caches it then asks for the
\* analysis status.
PlanOf(m) ==
  IF m \in {"dsc_load_image", "dsc_load_region"} THEN <<m, "analysis_status">> ELSE <<m>>

\* The tools that the pooled backend calls for no method.
NotForwarded ==
  {"debug_status", "debug_open_module", "tool_catalog", "tool_help", "search_structs",
   "list_databases", "task_status", "recent_operations"}

\* Methods and tools for which one of the above is special.
Special ==
  TextTools \cup NotForwarded \cup DOMAIN Renamed \cup {Renamed[m] : m \in DOMAIN Renamed}
    \cup {"find_bytes", "export_funcs"}

\* The handler of a tool does for a method what the pooled backend expects.
Serving(t, h) ==
  \A m \in Methods : ToolOf(m) = t =>
    /\ VariantOf(m) \in DOMAIN h.plans /\ h.plans[VariantOf(m)] = PlanOf(m)
    /\ h.form = FormOf(m)

\* A plan has at most two methods.
Listed(p, M) == p = <<>> \/ (\E x \in M : p = <<x>>) \/ (\E x, y \in M : p = <<x, y>>)

\* A handler repeats at most one method, and only one of those above.
WellMade(h, M) ==
  /\ h.many \in BOOLEAN
  /\ \A v \in DOMAIN h.plans :
       Listed(h.plans[v], M) /\ (h.many => \E m \in BatchMethods : h.plans[v] = <<m>>)

\* The methods a tool may call: only what is denied to a read-only server, or
\* kept on purpose, changes something.
MethodsFor(t) ==
  IF t \in READ_ONLY_DENY_LIST \cup Preserved THEN Methods ELSE Reading

\* A handler in its place.
Fitting(t, h) == WellMade(h, MethodsFor(t)) /\ Serving(t, h)

\* The names that are special, one by one.
LEMMA SpecialNames ==
  /\ DOMAIN Renamed = {"open_observed_with_generation", "close", "dsc_load_image",
       "dsc_load_region", "patch_bytes", "save_database", "run_script_observed",
       "analyze_funcs_observed", "analyze_funcs_unbounded_observed", "search_text", "search_imm"}
  /\ Special = TextTools \cup NotForwarded \cup DOMAIN Renamed \cup
       {"open_idb", "close_idb", "dsc_add_dylib", "dsc_add_region", "patch", "save_idb",
        "run_script", "analyze_funcs", "search", "find_bytes", "export_funcs"}
<1>1. DOMAIN Renamed = {"open_observed_with_generation", "close", "dsc_load_image",
       "dsc_load_region", "patch_bytes", "save_database", "run_script_observed",
       "analyze_funcs_observed", "analyze_funcs_unbounded_observed", "search_text", "search_imm"}
  BY DEF Renamed
<1>2. {Renamed[m] : m \in DOMAIN Renamed} = {"open_idb", "close_idb", "dsc_add_dylib",
        "dsc_add_region", "patch", "save_idb", "run_script", "analyze_funcs", "search"}
  BY DEF Renamed
<1> QED BY <1>1, <1>2 DEF Special

\* A method that is not special is forwarded under its name; no other is
\* forwarded to a tool that is not special.
LEMMA Ordinary ==
  /\ \A m : m \notin Special => /\ ToolOf(m) = m /\ VariantOf(m) = "default"
                                /\ FormOf(m) = "json" /\ PlanOf(m) = <<m>>
  /\ \A m \in TextTools \cup {"find_bytes"} :
       ToolOf(m) = m /\ VariantOf(m) = "default" /\ PlanOf(m) = <<m>>
  /\ \A m, t : ToolOf(m) = t /\ t \notin Special => m = t
  /\ \A m, t : ToolOf(m) = t /\ t \in TextTools \cup {"find_bytes", "export_funcs"} => m = t
  /\ \A m, t : ToolOf(m) = t /\ t \in NotForwarded => m \in NotForwarded
<1>1. \A m \in DOMAIN Renamed : Renamed[m] \in {"open_idb", "close_idb", "dsc_add_dylib",
        "dsc_add_region", "patch", "save_idb", "run_script", "analyze_funcs", "search"}
  BY DEF Renamed
<1>2. \A m : m \notin Special => /\ ToolOf(m) = m /\ VariantOf(m) = "default"
                                 /\ FormOf(m) = "json" /\ PlanOf(m) = <<m>>
  BY SpecialNames DEF ToolOf, VariantOf, FormOf, PlanOf
<1>3. \A m \in TextTools \cup {"find_bytes"} :
        ToolOf(m) = m /\ VariantOf(m) = "default" /\ PlanOf(m) = <<m>>
  BY SpecialNames DEF ToolOf, VariantOf, PlanOf, TextTools
<1>4. \A m, t : ToolOf(m) = t /\ t \notin Special => m = t
  BY <1>1, SpecialNames DEF ToolOf
<1>5. \A m, t : ToolOf(m) = t /\ t \in TextTools \cup {"find_bytes", "export_funcs"} => m = t
  BY <1>1 DEF ToolOf, TextTools
<1>6. \A m, t : ToolOf(m) = t /\ t \in NotForwarded => m \in NotForwarded
  BY <1>1 DEF ToolOf, NotForwarded
<1> QED BY <1>2, <1>3, <1>4, <1>5, <1>6

\* The shapes of handlers.
LEMMA HandlerShapes ==
  /\ \A t \in NotForwarded : Fitting(t, Own)
  /\ \A t : t \notin Special /\ t \in MethodsFor(t) => Fitting(t, Single(t))
  /\ \A t : t \notin Special /\ t \in BatchMethods => Fitting(t, Many(t))
  /\ \A t \in TextTools : t \in MethodsFor(t) => Fitting(t, AsText(Single(t)))
  /\ \A t \in TextTools \cap BatchMethods : Fitting(t, AsText(Many(t)))
  /\ Fitting("find_bytes", [Many("find_bytes") EXCEPT !.form = "matches"])
<1>1. /\ Own.many = FALSE /\ Own.plans = [default |-> <<>>]
      /\ \A m : Single(m).many = FALSE /\ Single(m).plans = [default |-> <<m>>]
                /\ Single(m).form = "json"
  BY DEF Own, Single, Serves
<1>2. \A m : Many(m).many = TRUE /\ Many(m).plans = [default |-> <<m>>] /\ Many(m).form = "json"
  BY DEF Many, Single, Serves
<1>3. \A m : /\ AsText(Single(m)).many = FALSE /\ AsText(Single(m)).plans = [default |-> <<m>>]
             /\ AsText(Single(m)).form = "text"
             /\ AsText(Many(m)).many = TRUE /\ AsText(Many(m)).plans = [default |-> <<m>>]
             /\ AsText(Many(m)).form = "text"
             /\ [Many(m) EXCEPT !.form = "matches"].many = TRUE
             /\ [Many(m) EXCEPT !.form = "matches"].plans = [default |-> <<m>>]
             /\ [Many(m) EXCEPT !.form = "matches"].form = "matches"
  BY DEF AsText, Many, Single, Serves
<1>4. ASSUME NEW h, NEW p, NEW M, Listed(p, M), h.plans = [default |-> p],
             h.many = FALSE \/ (h.many = TRUE /\ \E m \in BatchMethods : p = <<m>>)
      PROVE  WellMade(h, M)
  <2>1. DOMAIN h.plans = {"default"} /\ h.plans["default"] = p
    BY <1>4
  <2>2. h.many \in BOOLEAN
    BY <1>4
  <2> QED BY <1>4, <2>1, <2>2, Zenon DEF WellMade
<1>5. \A M : Listed(<<>>, M) /\ \A m \in M : Listed(<<m>>, M)
  BY DEF Listed
<1>6. \A t : BatchMethods \subseteq MethodsFor(t)
  BY DEF BatchMethods, MethodsFor, Methods, Reading
<1>7. ASSUME NEW t, NEW h, t \notin Special \/ t \in TextTools \cup {"find_bytes"},
             h.plans = [default |-> <<t>>], h.form = FormOf(t)
      PROVE  Serving(t, h)
  <2>1. h.plans["default"] = <<t>> /\ "default" \in DOMAIN h.plans
    BY <1>7
  <2>2. VariantOf(t) = "default" /\ PlanOf(t) = <<t>> /\ \A m : ToolOf(m) = t => m = t
    BY <1>7, Ordinary
  <2> QED BY <1>7, <2>1, <2>2 DEF Serving
<1>8. \A t \in NotForwarded : \A h : Serving(t, h)
  <2>1. NotForwarded \cap Methods = {}
    BY DEF NotForwarded, Methods, Reading, Changing
  <2> QED BY <2>1, Ordinary DEF Serving
<1>9. FormOf("find_bytes") = "matches" /\ \A t \in TextTools : FormOf(t) = "text"
  BY DEF FormOf, TextTools
<1>10. \A t : t \notin Special => FormOf(t) = "json"
  BY Ordinary
<1>11. \A t \in NotForwarded : Fitting(t, Own)
  BY <1>1, <1>4, <1>5, <1>8 DEF Fitting
<1>12. \A t : t \notin Special /\ t \in MethodsFor(t) => Fitting(t, Single(t))
  BY <1>1, <1>4, <1>5, <1>7, <1>10 DEF Fitting
<1>13. \A t : t \notin Special /\ t \in BatchMethods => Fitting(t, Many(t))
  BY <1>2, <1>4, <1>5, <1>6, <1>7, <1>10 DEF Fitting
<1>14. ASSUME NEW t, NEW h, t \in TextTools \cup {"find_bytes"},
              h.plans = [default |-> <<t>>], h.form = FormOf(t), h.many \in BOOLEAN,
              t \in MethodsFor(t), h.many => t \in BatchMethods
       PROVE  Fitting(t, h)
  <2>1. WellMade(h, MethodsFor(t))
    BY <1>4, <1>5, <1>14
  <2>2. Serving(t, h)
    BY <1>7, <1>14
  <2> QED BY <2>1, <2>2 DEF Fitting
<1>15. \A t \in TextTools : t \in MethodsFor(t) => Fitting(t, AsText(Single(t)))
  <2> SUFFICES ASSUME NEW t \in TextTools, t \in MethodsFor(t) PROVE Fitting(t, AsText(Single(t)))
    OBVIOUS
  <2> DEFINE h == AsText(Single(t))
  <2>1. h.plans = [default |-> <<t>>] /\ h.many = FALSE /\ h.form = FormOf(t)
    BY <1>3, <1>9
  <2> HIDE DEF h
  <2>2. Fitting(t, h)
    BY <1>14, <2>1
  <2> QED BY <2>2 DEF h
<1>16. \A t \in TextTools \cap BatchMethods : Fitting(t, AsText(Many(t)))
  <2> SUFFICES ASSUME NEW t \in TextTools \cap BatchMethods PROVE Fitting(t, AsText(Many(t)))
    OBVIOUS
  <2> DEFINE h == AsText(Many(t))
  <2>1. h.plans = [default |-> <<t>>] /\ h.many = TRUE /\ h.form = FormOf(t)
    BY <1>3, <1>9
  <2> HIDE DEF h
  <2>2. Fitting(t, h)
    BY <1>6, <1>14, <2>1
  <2> QED BY <2>2 DEF h
<1>17. Fitting("find_bytes", [Many("find_bytes") EXCEPT !.form = "matches"])
  <2> DEFINE h == [Many("find_bytes") EXCEPT !.form = "matches"]
  <2>1. h.plans = [default |-> <<"find_bytes">>] /\ h.many = TRUE /\ h.form = FormOf("find_bytes")
    BY <1>3, <1>9
  <2>2. "find_bytes" \in BatchMethods
    BY DEF BatchMethods
  <2> HIDE DEF h
  <2>3. Fitting("find_bytes", h)
    BY <1>6, <1>14, <2>1, <2>2
  <2> QED BY <2>3 DEF h
<1> QED BY <1>11, <1>12, <1>13, <1>15, <1>16, <1>17

\* Every tool is in one of the tables the handlers are put together from.
LEMMA HandlerEntry ==
  ASSUME NEW t \in DOMAIN Handlers
  PROVE  \E T \in {OpenTools, DebugTools, ModuleTools, LifecycleTools, CatalogTools,
                   FunctionTools, ListingTools, PseudocodeTools,
                   StringTools, XrefTools, ByteTools, CallTools,
                   SearchTools, TargetTools, ValueTools, GraphTools,
                   TypeTools, StackTools, StructTools, InsnTools,
                   AnalyzeTools, EditTools, CacheTools, RuntimeTools,
                   ScriptTools} :
           t \in DOMAIN T /\ Handlers[t] = T[t]
<1> DEFINE S == {OpenTools, DebugTools, ModuleTools, LifecycleTools, CatalogTools,
                 FunctionTools, ListingTools, PseudocodeTools, StringTools, XrefTools,
                 ByteTools, CallTools, SearchTools, TargetTools, ValueTools, GraphTools,
                 TypeTools, StackTools, StructTools, InsnTools, AnalyzeTools, EditTools,
                 CacheTools, RuntimeTools, ScriptTools}
<1>1. Handlers = Merged(S)
  BY DEF Handlers
<1> HIDE DEF S
<1>2. \E T \in S : t \in DOMAIN T /\ Handlers[t] = T[t]
  BY <1>1, MergedEntry
<1> QED BY <1>2, Zenon DEF S

\* The tools whose handler only calls the method of the same name.
Namesakes ==
  (Reading \ (TextTools \cup {"find_bytes", "search_text", "search_imm", "export_funcs"}))
    \cup {"load_debug_info", "debug_launch", "debug_attach", "debug_stop", "rename_lvar",
          "set_lvar_type", "set_pseudocode_comment", "declare_type", "apply_types",
          "declare_stack", "delete_stack", "lumina_apply", "set_comments", "rename", "patch_asm"}

\* They fit.
LEMMA NamesakesFit ==
  /\ \A t \in Namesakes : Fitting(t, Single(t))
  /\ \A t \in Namesakes \cap BatchMethods : Fitting(t, Many(t))
<1>1. Namesakes \cap Special = {}
  BY SpecialNames DEF Namesakes, Reading, TextTools, NotForwarded
<1>2. \A t \in Namesakes : t \in MethodsFor(t)
  <2>1. \A t \in Namesakes \cap Reading : t \in MethodsFor(t)
    BY DEF MethodsFor, Methods
  <2>2. Namesakes \ Reading \subseteq Changing \cap (READ_ONLY_DENY_LIST \cup Preserved)
    BY DEF Namesakes, Reading, Changing, READ_ONLY_DENY_LIST, Preserved
  <2> QED BY <2>1, <2>2 DEF MethodsFor, Methods
<1> QED BY <1>1, <1>2, HandlerShapes

\* The tools a method is forwarded to under another name.
LEMMA RenamedTools ==
  /\ \A m \in Methods : ToolOf(m) = "open_idb" => m = "open_observed_with_generation"
  /\ \A m \in Methods : ToolOf(m) = "close_idb" => m = "close"
  /\ \A m \in Methods : ToolOf(m) = "dsc_add_dylib" => m = "dsc_load_image"
  /\ \A m \in Methods : ToolOf(m) = "dsc_add_region" => m = "dsc_load_region"
  /\ \A m \in Methods : ToolOf(m) = "patch" => m = "patch_bytes"
  /\ \A m \in Methods : ToolOf(m) = "save_idb" => m = "save_database"
  /\ \A m \in Methods : ToolOf(m) = "run_script" => m = "run_script_observed"
  /\ \A m \in Methods : ToolOf(m) = "analyze_funcs" =>
       m \in {"analyze_funcs_observed", "analyze_funcs_unbounded_observed"}
  /\ \A m \in Methods : ToolOf(m) = "search" => m \in {"search_text", "search_imm"}
<1>1. Methods \cap {"open_idb", "close_idb", "dsc_add_dylib", "dsc_add_region", "patch",
                    "save_idb", "run_script", "analyze_funcs", "search"} = {}
  BY DEF Methods, Reading, Changing
<1>2. \A m \in Methods \ DOMAIN Renamed : ToolOf(m) = m
  BY DEF ToolOf
<1>3. \A m \in DOMAIN Renamed :
        /\ Renamed[m] = "open_idb" => m = "open_observed_with_generation"
        /\ Renamed[m] = "close_idb" => m = "close"
        /\ Renamed[m] = "dsc_add_dylib" => m = "dsc_load_image"
        /\ Renamed[m] = "dsc_add_region" => m = "dsc_load_region"
        /\ Renamed[m] = "patch" => m = "patch_bytes"
        /\ Renamed[m] = "save_idb" => m = "save_database"
        /\ Renamed[m] = "run_script" => m = "run_script_observed"
        /\ Renamed[m] = "analyze_funcs" =>
             m \in {"analyze_funcs_observed", "analyze_funcs_unbounded_observed"}
        /\ Renamed[m] = "search" => m \in {"search_text", "search_imm"}
  BY DEF Renamed
<1>4. \A m \in DOMAIN Renamed : ToolOf(m) = Renamed[m]
  BY DEF ToolOf
<1> QED BY <1>1, <1>2, <1>3, <1>4

\* The handlers of these tools fit.
LEMMA RenamedFit ==
  /\ Fitting("open_idb", Single("open_observed_with_generation"))
  /\ Fitting("close_idb", Single("close"))
  /\ Fitting("patch", Single("patch_bytes"))
  /\ Fitting("save_idb", Single("save_database"))
  /\ Fitting("run_script", Single("run_script_observed"))
<1> DEFINE Only(t, m) == \A n \in Methods : ToolOf(n) = t => n = m
<1>1. ASSUME NEW t \in READ_ONLY_DENY_LIST \cup Preserved, NEW m \in Changing, Only(t, m),
             VariantOf(m) = "default", PlanOf(m) = <<m>>, FormOf(m) = "json"
      PROVE  Fitting(t, Single(m))
  <2> DEFINE h == Single(m)
  <2>1. /\ h.many = FALSE /\ h.plans = [default |-> <<m>>] /\ h.form = "json"
        /\ DOMAIN h.plans = {"default"} /\ h.plans["default"] = <<m>>
    BY DEF Single, Serves
  <2>2. Listed(<<m>>, MethodsFor(t))
    BY DEF Listed, MethodsFor, Methods
  <2> HIDE DEF h
  <2>3. WellMade(h, MethodsFor(t))
    BY <2>1, <2>2 DEF WellMade
  <2>4. Serving(t, h)
    BY <1>1, <2>1 DEF Serving
  <2> QED BY <2>3, <2>4 DEF Fitting, h
<1>2. \A m \in {"open_observed_with_generation", "close", "patch_bytes", "save_database",
                "run_script_observed"} :
        m \in Changing /\ VariantOf(m) = "default" /\ PlanOf(m) = <<m>> /\ FormOf(m) = "json"
  BY DEF Changing, VariantOf, PlanOf, FormOf, TextTools
<1>3. {"open_idb", "close_idb", "patch", "save_idb", "run_script"}
        \subseteq READ_ONLY_DENY_LIST \cup Preserved
  BY DEF READ_ONLY_DENY_LIST, Preserved
<1> QED BY <1>1, <1>2, <1>3, RenamedTools

\* A handler with plans of its own fits if its plans do.
LEMMA PlansFit ==
  ASSUME NEW t, NEW P, \A v \in DOMAIN P : Listed(P[v], MethodsFor(t)),
         \A m \in Methods : ToolOf(m) = t => /\ VariantOf(m) \in DOMAIN P
                                             /\ P[VariantOf(m)] = PlanOf(m) /\ FormOf(m) = "json"
  PROVE  Fitting(t, [Own EXCEPT !.plans = P])
<1> DEFINE h == [Own EXCEPT !.plans = P]
<1>1. h.plans = P /\ h.many = FALSE /\ h.form = "json"
  BY DEF Own, Serves
<1> HIDE DEF h
<1>2. WellMade(h, MethodsFor(t)) /\ Serving(t, h)
  BY <1>1 DEF WellMade, Serving
<1> QED BY <1>2 DEF Fitting, h

\* Every handler fits its tool.
LEMMA HandlersFit == \A t \in DOMAIN Handlers : Fitting(t, Handlers[t])
<1> DEFINE Fine(T) == \A t \in DOMAIN T : Fitting(t, T[t])
<1> USE HandlerShapes, NamesakesFit, RenamedFit
        DEF Namesakes, Reading, TextTools, BatchMethods, NotForwarded
<1>1. Fine(OpenTools)
  BY DEF OpenTools
<1>2. Fine(DebugTools)
  BY DEF DebugTools
<1>3. Fine(ModuleTools)
  <2> DEFINE P == [file |-> <<"debug_modules">>, cached |-> <<"debug_modules", "idb_meta">>]
  <2>1. \A v \in DOMAIN P : Listed(P[v], MethodsFor("debug_open_module"))
    BY DEF Listed, MethodsFor, Methods, Reading
  <2>2. \A m \in Methods : ToolOf(m) # "debug_open_module"
    <3>1. "debug_open_module" \in NotForwarded /\ NotForwarded \cap Methods = {}
      BY DEF NotForwarded, Methods, Reading, Changing
    <3> QED BY <3>1, Ordinary
  <2>3. Fitting("debug_open_module", [Own EXCEPT !.plans = P])
    <3> HIDE DEF P
    <3> QED BY <2>1, <2>2, PlansFit
  <2> QED BY <2>3 DEF ModuleTools
<1>4. Fine(LifecycleTools)
  BY DEF LifecycleTools
<1>5. Fine(CatalogTools)
  BY DEF CatalogTools
<1>6. Fine(FunctionTools)
  BY DEF FunctionTools
<1>7. Fine(ListingTools)
  <2>1. \A t \in TextTools : t \in MethodsFor(t)
    BY DEF MethodsFor, Methods
  <2> QED BY <2>1 DEF ListingTools
<1>8. Fine(PseudocodeTools)
  BY DEF PseudocodeTools
<1>9. Fine(StringTools)
  BY DEF StringTools
<1>10. Fine(XrefTools)
  BY DEF XrefTools
<1>11. Fine(ByteTools)
  BY DEF ByteTools
<1>12. Fine(CallTools)
  BY DEF CallTools
<1>13. Fine(SearchTools)
  BY DEF SearchTools
<1>14. Fine(TargetTools)
  <2> DEFINE P == [text |-> <<"search_text">>, imm |-> <<"search_imm">>]
             h == [plans |-> P, many |-> TRUE, form |-> "matches"]
  <2>1. \A v \in DOMAIN P :
          Listed(P[v], MethodsFor("search")) /\ \E m \in BatchMethods : P[v] = <<m>>
    BY DEF Listed, MethodsFor, Methods, Reading, BatchMethods
  <2>2. h.plans = P /\ h.many = TRUE /\ h.form = "matches"
    OBVIOUS
  <2>3. WellMade(h, MethodsFor("search"))
    <3> HIDE DEF h, P
    <3> QED BY <2>1, <2>2, Zenon DEF WellMade
  <2>4. \A m \in {"search_text", "search_imm"} :
          VariantOf(m) \in DOMAIN P /\ P[VariantOf(m)] = PlanOf(m) /\ FormOf(m) = "matches"
    BY DEF VariantOf, PlanOf, FormOf, TextTools
  <2>5. Serving("search", h)
    <3> HIDE DEF h, P
    <3> QED BY <2>2, <2>4, RenamedTools DEF Serving
  <2>6. DOMAIN TargetTools = {"search", "read_int"} /\ TargetTools["read_int"] = Many("read_int")
    BY DEF TargetTools
  <2>7. TargetTools["search"] = h
    BY DEF TargetTools
  <2>8. "read_int" \in Namesakes \cap BatchMethods
    BY DEF Namesakes, Reading, TextTools, BatchMethods
  <2> HIDE DEF h
  <2> QED BY <2>3, <2>5, <2>6, <2>7, <2>8, NamesakesFit DEF Fitting
<1>15. Fine(ValueTools)
  BY DEF ValueTools
<1>16. Fine(GraphTools)
  <2> DEFINE P == [named |-> <<"lookup_funcs">>, all |-> <<"export_funcs">>]
  <2>1. \A v \in DOMAIN P : Listed(P[v], MethodsFor("export_funcs"))
    BY DEF Listed, MethodsFor, Methods, Reading
  <2>2. /\ VariantOf("export_funcs") \in DOMAIN P /\ FormOf("export_funcs") = "json"
        /\ P[VariantOf("export_funcs")] = PlanOf("export_funcs")
    BY DEF VariantOf, PlanOf, FormOf, TextTools
  <2>3. Fitting("export_funcs", [Own EXCEPT !.plans = P])
    <3> HIDE DEF P
    <3>1. \A m : ToolOf(m) = "export_funcs" => m = "export_funcs"
      BY Ordinary
    <3> QED BY <2>1, <2>2, <3>1, PlansFit
  <2>4. "callgraph" \in Namesakes \cap BatchMethods /\ "xref_matrix" \in Namesakes
    BY DEF Namesakes, Reading, TextTools, BatchMethods
  <2> QED BY <2>3, <2>4, NamesakesFit DEF GraphTools
<1>17. Fine(TypeTools)
  BY DEF TypeTools
<1>18. Fine(StackTools)
  BY DEF StackTools
<1>19. Fine(StructTools)
  <2>1. Fitting("search_structs", Single("structs"))
    <3> DEFINE h == Single("structs")
    <3>1. /\ h.many = FALSE /\ DOMAIN h.plans = {"default"} /\ h.plans["default"] = <<"structs">>
      BY DEF Single, Serves
    <3>2. Listed(<<"structs">>, MethodsFor("search_structs"))
      BY DEF Listed, MethodsFor, Methods, Reading
    <3>3. "search_structs" \in NotForwarded /\ NotForwarded \cap Methods = {}
      BY DEF NotForwarded, Methods, Reading, Changing
    <3> HIDE DEF h
    <3>4. WellMade(h, MethodsFor("search_structs"))
      BY <3>1, <3>2 DEF WellMade
    <3>5. Serving("search_structs", h)
      BY <3>3, Ordinary DEF Serving
    <3> QED BY <3>4, <3>5 DEF Fitting, h
  <2> QED BY <2>1 DEF StructTools
<1>20. Fine(InsnTools)
  BY DEF InsnTools
<1>21. Fine(AnalyzeTools)
  <2> DEFINE P == [default |-> <<"analyze_funcs_observed">>,
                   unbounded |-> <<"analyze_funcs_unbounded_observed">>]
  <2>1. \A v \in DOMAIN P : Listed(P[v], MethodsFor("analyze_funcs"))
    BY DEF Listed, MethodsFor, READ_ONLY_DENY_LIST, Methods, Changing
  <2>2. \A m \in {"analyze_funcs_observed", "analyze_funcs_unbounded_observed"} :
          VariantOf(m) \in DOMAIN P /\ P[VariantOf(m)] = PlanOf(m) /\ FormOf(m) = "json"
    BY DEF VariantOf, PlanOf, FormOf, TextTools
  <2>3. Fitting("analyze_funcs", [Own EXCEPT !.plans = P])
    <3> HIDE DEF P
    <3> QED BY <2>1, <2>2, RenamedTools, PlansFit
  <2> QED BY <2>3 DEF AnalyzeTools
<1>22. Fine(EditTools)
  BY DEF EditTools
<1>23. Fine(CacheTools)
  <2>1. ASSUME NEW t \in {"dsc_add_dylib", "dsc_add_region"}, NEW m, NEW f,
               m \in {"dsc_load_image", "dsc_load_region"}, FormOf(m) = f,
               \A n \in Methods : ToolOf(n) = t => n = m
        PROVE  Fitting(t, [Serves(<<m, "analysis_status">>) EXCEPT !.form = f])
    <3> DEFINE h == [Serves(<<m, "analysis_status">>) EXCEPT !.form = f]
    <3>1. /\ h.many = FALSE /\ DOMAIN h.plans = {"default"} /\ h.form = f
          /\ h.plans["default"] = <<m, "analysis_status">>
      BY DEF Serves
    <3>2. Listed(<<m, "analysis_status">>, MethodsFor(t))
      <4>1. m \in MethodsFor(t) /\ "analysis_status" \in MethodsFor(t)
        BY <2>1 DEF MethodsFor, READ_ONLY_DENY_LIST, Methods, Reading, Changing
      <4> QED BY <4>1 DEF Listed
    <3>3. VariantOf(m) = "default" /\ PlanOf(m) = <<m, "analysis_status">>
      BY <2>1 DEF VariantOf, PlanOf
    <3> HIDE DEF h
    <3>4. WellMade(h, MethodsFor(t))
      <4>1. h.many \in BOOLEAN /\ ~h.many
        BY <3>1
      <4> QED BY <3>1, <3>2, <4>1, SMT DEF WellMade
    <3>5. Serving(t, h)
      BY <2>1, <3>1, <3>3 DEF Serving
    <3> QED BY <3>4, <3>5 DEF Fitting, h
  <2>2. DOMAIN CacheTools = {"dsc_add_dylib", "dsc_add_region"}
    BY DEF CacheTools
  <2>3. FormOf("dsc_load_image") = "image" /\ FormOf("dsc_load_region") = "region"
    BY DEF FormOf, TextTools
  <2>4. Fitting("dsc_add_dylib", [Serves(<<"dsc_load_image", "analysis_status">>) EXCEPT !.form = "image"])
    BY <2>1, <2>3, RenamedTools
  <2>5. Fitting("dsc_add_region", [Serves(<<"dsc_load_region", "analysis_status">>) EXCEPT !.form = "region"])
    BY <2>1, <2>3, RenamedTools
  <2>6. Fitting("dsc_add_dylib", CacheTools["dsc_add_dylib"])
    BY <2>4, Zenon DEF CacheTools
  <2>7. Fitting("dsc_add_region", CacheTools["dsc_add_region"])
    BY <2>5, Zenon DEF CacheTools
  <2> QED BY <2>2, <2>6, <2>7
<1>24. Fine(RuntimeTools)
  BY DEF RuntimeTools
<1>25. Fine(ScriptTools)
  BY DEF ScriptTools
<1> HIDE DEF Fine
<1> QED
  <2>1. \A S : (\A T \in S : Fine(T)) => Fine(Merged(S))
    BY MergedEntry DEF Fine
  <2> QED
    BY <2>1, <1>1, <1>2, <1>3, <1>4, <1>5, <1>6, <1>7, <1>8, <1>9, <1>10, <1>11, <1>12, <1>13, <1>14, <1>15, <1>16, <1>17, <1>18, <1>19, <1>20, <1>21, <1>22, <1>23, <1>24, <1>25, Zenon DEF Handlers, Fine

\* The keys of the tables the handlers are put together from.
LEMMA HandlerNames ==
  /\ DOMAIN OpenTools = {"open_idb"}
  /\ DOMAIN DebugTools = {"load_debug_info", "debug_status", "debug_launch", "debug_attach",
                          "debug_modules", "debug_stop"}
  /\ DOMAIN ModuleTools = {"debug_open_module"}
  /\ DOMAIN LifecycleTools = {"analysis_status", "save_idb", "close_idb"}
  /\ DOMAIN CatalogTools = {"tool_catalog", "tool_help"}
  /\ DOMAIN FunctionTools = {"list_functions", "resolve_function", "addr_info",
                             "function_at", "disasm"}
  /\ DOMAIN ListingTools = {"render_range", "disasm_by_name", "disasm_function_at",
                            "decompile", "list_lvars"}
  /\ DOMAIN PseudocodeTools = {"rename_lvar", "set_lvar_type", "list_pseudocode_comments",
                               "set_pseudocode_comment"}
  /\ DOMAIN StringTools = {"pseudocode_at", "segments", "strings", "find_string"}
  /\ DOMAIN XrefTools = {"xrefs_to_string", "xrefs_to", "xrefs_from", "imports", "exports",
                         "entrypoints"}
  /\ DOMAIN ByteTools = {"get_bytes", "list_patches", "basic_blocks"}
  /\ DOMAIN CallTools = {"callees", "callers", "idb_meta", "lookup_funcs"}
  /\ DOMAIN SearchTools = {"list_globals", "analyze_strings", "find_bytes"}
  /\ DOMAIN TargetTools = {"search", "read_int"}
  /\ DOMAIN ValueTools = {"get_string", "get_global_value", "find_paths"}
  /\ DOMAIN GraphTools = {"callgraph", "xref_matrix", "export_funcs"}
  /\ DOMAIN TypeTools = {"local_types", "xrefs_to_field", "lumina_lookup", "lumina_apply",
                         "set_comments"}
  /\ DOMAIN StackTools = {"patch_asm", "declare_type", "stack_frame", "declare_stack",
                          "delete_stack"}
  /\ DOMAIN StructTools = {"structs", "struct_info", "read_struct", "search_structs"}
  /\ DOMAIN InsnTools = {"find_insns", "find_insn_operands", "apply_types", "infer_types"}
  /\ DOMAIN AnalyzeTools = {"analyze_funcs"}
  /\ DOMAIN EditTools = {"rename", "patch"}
  /\ DOMAIN CacheTools = {"dsc_add_dylib", "dsc_add_region"}
  /\ DOMAIN RuntimeTools = {"list_databases", "task_status", "recent_operations"}
  /\ DOMAIN ScriptTools = {"run_script"}
BY DEF OpenTools, DebugTools, ModuleTools, LifecycleTools, CatalogTools, FunctionTools,
       ListingTools, PseudocodeTools, StringTools, XrefTools, ByteTools, CallTools,
       SearchTools, TargetTools, ValueTools, GraphTools, TypeTools, StackTools, StructTools,
       InsnTools, AnalyzeTools, EditTools, CacheTools, RuntimeTools, ScriptTools

\* They are the names of the tools that have a handler.
LEMMA HandlerDomain ==
  UNION {DOMAIN OpenTools, DOMAIN DebugTools, DOMAIN ModuleTools, DOMAIN LifecycleTools,
         DOMAIN CatalogTools, DOMAIN FunctionTools, DOMAIN ListingTools, DOMAIN
         PseudocodeTools, DOMAIN StringTools, DOMAIN XrefTools, DOMAIN ByteTools,
         DOMAIN CallTools, DOMAIN SearchTools, DOMAIN TargetTools, DOMAIN
         ValueTools, DOMAIN GraphTools, DOMAIN TypeTools, DOMAIN StackTools, DOMAIN
         StructTools, DOMAIN InsnTools, DOMAIN AnalyzeTools, DOMAIN EditTools,
         DOMAIN CacheTools, DOMAIN RuntimeTools, DOMAIN ScriptTools}
    \subseteq DOMAIN Handlers
<1> DEFINE S == {OpenTools, DebugTools, ModuleTools, LifecycleTools, CatalogTools,
                 FunctionTools, ListingTools, PseudocodeTools, StringTools, XrefTools,
                 ByteTools, CallTools, SearchTools, TargetTools, ValueTools, GraphTools,
                 TypeTools, StackTools, StructTools, InsnTools, AnalyzeTools, EditTools,
                 CacheTools, RuntimeTools, ScriptTools}
<1>1. Handlers = Merged(S)
  BY DEF Handlers
<1>2. \A T \in S : DOMAIN T \subseteq DOMAIN Merged(S)
  <2> HIDE DEF S
  <2> QED BY MergedIncludes
<1>3. /\ DOMAIN OpenTools \subseteq DOMAIN Handlers
      /\ DOMAIN DebugTools \subseteq DOMAIN Handlers
      /\ DOMAIN ModuleTools \subseteq DOMAIN Handlers
      /\ DOMAIN LifecycleTools \subseteq DOMAIN Handlers
      /\ DOMAIN CatalogTools \subseteq DOMAIN Handlers
      /\ DOMAIN FunctionTools \subseteq DOMAIN Handlers
      /\ DOMAIN ListingTools \subseteq DOMAIN Handlers
      /\ DOMAIN PseudocodeTools \subseteq DOMAIN Handlers
      /\ DOMAIN StringTools \subseteq DOMAIN Handlers
      /\ DOMAIN XrefTools \subseteq DOMAIN Handlers
      /\ DOMAIN ByteTools \subseteq DOMAIN Handlers
      /\ DOMAIN CallTools \subseteq DOMAIN Handlers
      /\ DOMAIN SearchTools \subseteq DOMAIN Handlers
      /\ DOMAIN TargetTools \subseteq DOMAIN Handlers
      /\ DOMAIN ValueTools \subseteq DOMAIN Handlers
      /\ DOMAIN GraphTools \subseteq DOMAIN Handlers
      /\ DOMAIN TypeTools \subseteq DOMAIN Handlers
      /\ DOMAIN StackTools \subseteq DOMAIN Handlers
      /\ DOMAIN StructTools \subseteq DOMAIN Handlers
      /\ DOMAIN InsnTools \subseteq DOMAIN Handlers
      /\ DOMAIN AnalyzeTools \subseteq DOMAIN Handlers
      /\ DOMAIN EditTools \subseteq DOMAIN Handlers
      /\ DOMAIN CacheTools \subseteq DOMAIN Handlers
      /\ DOMAIN RuntimeTools \subseteq DOMAIN Handlers
      /\ DOMAIN ScriptTools \subseteq DOMAIN Handlers
  BY <1>1, <1>2, Zenon
<1> QED BY <1>3

\* The tools of the registry, of the lean profile and those the pooled backend
\* calls all have a handler.
LEMMA ToolsHandled ==
  /\ \A b \in {"all", "lean"} \cup DOMAIN Categories : Included(b) \subseteq DOMAIN Handlers
  /\ \A m \in Methods : ToolOf(m) \in DOMAIN Handlers
<1> DEFINE Fine(T) == \A k \in DOMAIN T : T[k] \subseteq DOMAIN Handlers
<1>1. \A f, g : Fine(f) /\ Fine(g) => Fine(f @@ g)
  BY MergeEntry
<1> USE HandlerNames, HandlerDomain
<1>2. CoreTools \cup DiscoveryTools \cup {"list_databases"} \subseteq DOMAIN Handlers
  BY DEF CoreTools, DiscoveryTools
<1>3. FunctionCategory \cup MetadataCategory \subseteq DOMAIN Handlers
  BY DEF FunctionCategory, MetadataCategory
<1>4. TypesCategory \cup EditingCategory \subseteq DOMAIN Handlers
  BY DEF TypesCategory, EditingCategory
<1>5. DebugCategory \cup {"run_script"} \subseteq DOMAIN Handlers
  BY DEF DebugCategory
<1>6. LeanProfile \subseteq DOMAIN Handlers
  BY DEF LeanProfile
<1>7. Fine(CodeCategories) /\ Fine(FlowCategories) /\ Fine(DataCategories)
  BY DEF CodeCategories, FlowCategories, DataCategories
<1>8. \A m \in Methods : ToolOf(m) \in DOMAIN Handlers
  <2>1. {"open_idb", "close_idb", "dsc_add_dylib", "dsc_add_region", "patch", "save_idb",
         "run_script", "analyze_funcs", "search"} \subseteq DOMAIN Handlers
    OBVIOUS
  <2>2. Reading \ DOMAIN Renamed \subseteq DOMAIN Handlers
    BY SpecialNames DEF Reading
  <2>3. Changing \ DOMAIN Renamed \subseteq DOMAIN Handlers
    BY SpecialNames DEF Changing
  <2>4. \A m \in DOMAIN Renamed : Renamed[m] \in {"open_idb", "close_idb", "dsc_add_dylib",
          "dsc_add_region", "patch", "save_idb", "run_script", "analyze_funcs", "search"}
    BY DEF Renamed
  <2> HIDE HandlerNames, HandlerDomain
  <2> QED BY <2>1, <2>2, <2>3, <2>4 DEF ToolOf, Methods
<1>9. Fine(Categories)
  <2> DEFINE A == [core |-> CoreTools \cup DiscoveryTools \cup {"list_databases"},
                   functions |-> FunctionCategory, metadata |-> MetadataCategory,
                   types |-> TypesCategory, editing |-> EditingCategory,
                   debug |-> DebugCategory, scripting |-> {"run_script"}]
  <2>1. Fine(A)
    BY <1>2, <1>3, <1>4, <1>5
  <2> HIDE DEF Fine
  <2> QED BY <1>1, <1>7, <2>1, Zenon DEF Categories
<1>10. Registry \subseteq DOMAIN Handlers
  BY <1>9 DEF Registry
<1> QED BY <1>6, <1>8, <1>9, <1>10 DEF Included

\* An entry of a union of two tables has what the entries of both have.
LEMMA BothSides ==
  \A f, g, x : x \in DOMAIN f \/ x \in DOMAIN g => x \in DOMAIN (f @@ g)
BY MergeDomain

\* The pooled backend forwards every method as described.
LEMMA PooledForwards ==
  \A m \in Methods :
    m \in DOMAIN Pooled /\ Pooled[m] = Asks(ToolOf(m), VariantOf(m), FormOf(m))
<1> DEFINE Right(m, a) == a = Asks(ToolOf(m), VariantOf(m), FormOf(m))
           Fine(T) == \A m \in DOMAIN T : Right(m, T[m])
<1>1. \A m : m \notin Special => Right(m, Json(m))
  BY Ordinary DEF Json
<1>2. \A m \in TextTools : Right(m, Text(m))
  BY Ordinary DEF Text, FormOf, TextTools
<1>3. Right("find_bytes", Asks("find_bytes", "default", "matches"))
  BY Ordinary DEF FormOf, TextTools
<1>4. /\ \A m \in {"open_observed_with_generation", "close", "patch_bytes", "save_database",
                   "run_script_observed", "analyze_funcs_observed"} : Right(m, Json(Renamed[m]))
      /\ Right("analyze_funcs_unbounded_observed", Asks("analyze_funcs", "unbounded", "json"))
      /\ Right("dsc_load_image", Asks("dsc_add_dylib", "default", "image"))
      /\ Right("dsc_load_region", Asks("dsc_add_region", "default", "region"))
      /\ Right("search_text", Asks("search", "text", "matches"))
      /\ Right("search_imm", Asks("search", "imm", "matches"))
      /\ Right("export_funcs", Asks("export_funcs", "all", "json"))
  <2>1. \A m \in DOMAIN Renamed : ToolOf(m) = Renamed[m]
    BY DEF ToolOf
  <2>2. /\ Renamed["analyze_funcs_unbounded_observed"] = "analyze_funcs"
        /\ Renamed["dsc_load_image"] = "dsc_add_dylib"
        /\ Renamed["dsc_load_region"] = "dsc_add_region"
        /\ Renamed["search_text"] = "search" /\ Renamed["search_imm"] = "search"
        /\ ToolOf("export_funcs") = "export_funcs"
    BY DEF Renamed, ToolOf
  <2> QED BY <2>1, <2>2, SpecialNames DEF VariantOf, FormOf, TextTools, Json
<1>5. /\ Renamed["open_observed_with_generation"] = "open_idb" /\ Renamed["close"] = "close_idb"
      /\ Renamed["patch_bytes"] = "patch" /\ Renamed["save_database"] = "save_idb"
      /\ Renamed["run_script_observed"] = "run_script"
      /\ Renamed["analyze_funcs_observed"] = "analyze_funcs"
  BY DEF Renamed
<1>6. ASSUME NEW S, S \cap Special = {} PROVE Fine(SameTool(S))
  BY <1>1, <1>6 DEF SameTool
<1>7. \A f, g : Fine(f) /\ Fine(g) => Fine(f @@ g)
  BY MergeEntry
<1> HIDE DEF Right
<1>8. Fine(PooledOpen)
  BY <1>4, <1>5 DEF PooledOpen
<1>9. Fine(PooledDebug)
  <2> DEFINE S == {"load_debug_info", "debug_launch", "debug_attach", "debug_modules", "debug_stop"}
  <2>1. S \cap Special = {}
    BY SpecialNames DEF TextTools, NotForwarded
  <2>2. PooledDebug = SameTool(S)
    BY Zenon DEF PooledDebug
  <2> HIDE DEF S
  <2> QED BY <1>6, <2>1, <2>2
<1>10. Fine(PooledAnalysis)
  <2> DEFINE A == [dsc_load_image |-> Asks("dsc_add_dylib", "default", "image"),
                   dsc_load_region |-> Asks("dsc_add_region", "default", "region"),
                   disasm_by_name |-> Text("disasm_by_name"), disasm |-> Text("disasm"),
                   decompile |-> Text("decompile")]
             S == {"analysis_status", "list_functions", "resolve_function", "render_range"}
  <2>1. Fine(A)
    BY <1>2, <1>3, <1>4, <1>5 DEF TextTools
  <2>2. Fine(SameTool(S))
    <3>1. S \cap Special = {}
      BY SpecialNames DEF TextTools, NotForwarded
    <3> HIDE DEF S
    <3> QED BY <1>6, <3>1
  <2>3. PooledAnalysis = A @@ SameTool(S)
    BY Zenon DEF PooledAnalysis
  <2> HIDE DEF A, S
  <2> QED BY <1>7, <2>1, <2>2, <2>3
<1>11. Fine(PooledLocals)
  <2> DEFINE S == {"list_lvars", "rename_lvar", "set_lvar_type", "list_pseudocode_comments",
                   "set_pseudocode_comment", "segments", "strings", "local_types"}
  <2>1. S \cap Special = {}
    BY SpecialNames DEF TextTools, NotForwarded
  <2>2. PooledLocals = SameTool(S)
    BY Zenon DEF PooledLocals
  <2> HIDE DEF S
  <2> QED BY <1>6, <2>1, <2>2
<1>12. Fine(PooledTypes)
  <2> DEFINE A == [disasm_function_at |-> Text("disasm_function_at")]
             S == {"declare_type", "apply_types", "infer_types", "addr_info", "function_at",
                   "declare_stack"}
  <2>1. Fine(A)
    BY <1>2, <1>3, <1>4, <1>5 DEF TextTools
  <2>2. Fine(SameTool(S))
    <3>1. S \cap Special = {}
      BY SpecialNames DEF TextTools, NotForwarded
    <3> HIDE DEF S
    <3> QED BY <1>6, <3>1
  <2>3. PooledTypes = A @@ SameTool(S)
    BY Zenon DEF PooledTypes
  <2> HIDE DEF A, S
  <2> QED BY <1>7, <2>1, <2>2, <2>3
<1>13. Fine(PooledStructs)
  <2> DEFINE S == {"delete_stack", "stack_frame", "structs", "struct_info", "read_struct",
                   "xrefs_to", "xrefs_from", "xrefs_to_field", "imports", "exports"}
  <2>1. S \cap Special = {}
    BY SpecialNames DEF TextTools, NotForwarded
  <2>2. PooledStructs = SameTool(S)
    BY Zenon DEF PooledStructs
  <2> HIDE DEF S
  <2> QED BY <1>6, <2>1, <2>2
<1>14. Fine(PooledPatches)
  <2> DEFINE A == [patch_bytes |-> Json("patch")]
             S == {"entrypoints", "lumina_lookup", "lumina_apply", "get_bytes", "list_patches",
                   "set_comments", "rename", "patch_asm"}
  <2>1. Fine(A)
    BY <1>2, <1>3, <1>4, <1>5 DEF TextTools
  <2>2. Fine(SameTool(S))
    <3>1. S \cap Special = {}
      BY SpecialNames DEF TextTools, NotForwarded
    <3> HIDE DEF S
    <3> QED BY <1>6, <3>1
  <2>3. PooledPatches = A @@ SameTool(S)
    BY Zenon DEF PooledPatches
  <2> HIDE DEF A, S
  <2> QED BY <1>7, <2>1, <2>2, <2>3
<1>15. Fine(PooledStrings)
  <2> DEFINE S == {"basic_blocks", "callees", "callers", "idb_meta", "lookup_funcs", "list_globals",
                   "analyze_strings", "find_string", "xrefs_to_string"}
  <2>1. S \cap Special = {}
    BY SpecialNames DEF TextTools, NotForwarded
  <2>2. PooledStrings = SameTool(S)
    BY Zenon DEF PooledStrings
  <2> HIDE DEF S
  <2> QED BY <1>6, <2>1, <2>2
<1>16. Fine(PooledSearch)
  <2> DEFINE A == [analyze_funcs_observed |-> Json("analyze_funcs"),
                   analyze_funcs_unbounded_observed |-> Asks("analyze_funcs", "unbounded", "json"),
                   find_bytes |-> Asks("find_bytes", "default", "matches"),
                   search_text |-> Asks("search", "text", "matches"),
                   search_imm |-> Asks("search", "imm", "matches")]
             S == {"find_insns", "find_insn_operands"}
  <2>1. Fine(A)
    BY <1>2, <1>3, <1>4, <1>5 DEF TextTools
  <2>2. Fine(SameTool(S))
    <3>1. S \cap Special = {}
      BY SpecialNames DEF TextTools, NotForwarded
    <3> HIDE DEF S
    <3> QED BY <1>6, <3>1
  <2>3. PooledSearch = A @@ SameTool(S)
    BY Zenon DEF PooledSearch
  <2> HIDE DEF A, S
  <2> QED BY <1>7, <2>1, <2>2, <2>3
<1>17. Fine(PooledScripts)
  <2> DEFINE A == [save_database |-> Json("save_idb"), export_funcs |-> Asks("export_funcs", "all", "json"),
                   run_script_observed |-> Json("run_script")]
             S == {"read_int", "get_string", "get_global_value", "find_paths", "callgraph",
                   "xref_matrix", "pseudocode_at"}
  <2>1. Fine(A)
    BY <1>2, <1>3, <1>4, <1>5 DEF TextTools
  <2>2. Fine(SameTool(S))
    <3>1. S \cap Special = {}
      BY SpecialNames DEF TextTools, NotForwarded
    <3> HIDE DEF S
    <3> QED BY <1>6, <3>1
  <2>3. PooledScripts = A @@ SameTool(S)
    BY Zenon DEF PooledScripts
  <2> HIDE DEF A, S
  <2> QED BY <1>7, <2>1, <2>2, <2>3
<1>18. Fine(Pooled)
  <2>1. \A S : (\A f \in S : Fine(f)) => Fine(Merged(S))
    BY MergedEntry
  <2> HIDE DEF Fine
  <2> QED BY <2>1, <1>8, <1>9, <1>10, <1>11, <1>12, <1>13, <1>14, <1>15, <1>16, <1>17, Zenon DEF Pooled
<1>19. Methods \subseteq DOMAIN Pooled
  <2>1. {"open_observed_with_generation", "close"} \subseteq DOMAIN PooledOpen
    BY BothSides DEF PooledOpen, SameTool
  <2>2. {"load_debug_info", "debug_launch", "debug_attach", "debug_modules", "debug_stop"} \subseteq DOMAIN PooledDebug
    BY BothSides DEF PooledDebug, SameTool
  <2>3. {"dsc_load_image", "dsc_load_region", "disasm_by_name", "disasm", "decompile",
        "analysis_status", "list_functions", "resolve_function", "render_range"} \subseteq DOMAIN PooledAnalysis
    BY BothSides DEF PooledAnalysis, SameTool
  <2>4. {"list_lvars", "rename_lvar", "set_lvar_type", "list_pseudocode_comments",
        "set_pseudocode_comment", "segments", "strings", "local_types"} \subseteq DOMAIN PooledLocals
    BY BothSides DEF PooledLocals, SameTool
  <2>5. {"disasm_function_at", "declare_type", "apply_types", "infer_types", "addr_info",
        "function_at", "declare_stack"} \subseteq DOMAIN PooledTypes
    BY BothSides DEF PooledTypes, SameTool
  <2>6. {"delete_stack", "stack_frame", "structs", "struct_info", "read_struct", "xrefs_to",
        "xrefs_from", "xrefs_to_field", "imports", "exports"} \subseteq DOMAIN PooledStructs
    BY BothSides DEF PooledStructs, SameTool
  <2>7. {"patch_bytes", "entrypoints", "lumina_lookup", "lumina_apply", "get_bytes",
        "list_patches", "set_comments", "rename", "patch_asm"} \subseteq DOMAIN PooledPatches
    BY BothSides DEF PooledPatches, SameTool
  <2>8. {"basic_blocks", "callees", "callers", "idb_meta", "lookup_funcs", "list_globals",
        "analyze_strings", "find_string", "xrefs_to_string"} \subseteq DOMAIN PooledStrings
    BY BothSides DEF PooledStrings, SameTool
  <2>9. {"analyze_funcs_observed", "analyze_funcs_unbounded_observed", "find_bytes",
        "search_text", "search_imm", "find_insns", "find_insn_operands"} \subseteq DOMAIN PooledSearch
    BY BothSides DEF PooledSearch, SameTool
  <2>10. {"save_database", "export_funcs", "run_script_observed", "read_int", "get_string",
        "get_global_value", "find_paths", "callgraph", "xref_matrix", "pseudocode_at"} \subseteq DOMAIN PooledScripts
    BY BothSides DEF PooledScripts, SameTool
  <2>11. DOMAIN PooledOpen
          \cup DOMAIN PooledDebug
          \cup DOMAIN PooledAnalysis
          \cup DOMAIN PooledLocals
          \cup DOMAIN PooledTypes
          \cup DOMAIN PooledStructs
          \cup DOMAIN PooledPatches
          \cup DOMAIN PooledStrings
          \cup DOMAIN PooledSearch
          \cup DOMAIN PooledScripts
          \subseteq DOMAIN Pooled
    BY MergedIncludes, Zenon DEF Pooled
  <2>12. Reading \subseteq DOMAIN Pooled
    BY <2>1, <2>2, <2>3, <2>4, <2>5, <2>6, <2>7, <2>8, <2>9, <2>10, <2>11 DEF Reading
  <2>13. Changing \subseteq DOMAIN Pooled
    BY <2>1, <2>2, <2>3, <2>4, <2>5, <2>6, <2>7, <2>8, <2>9, <2>10, <2>11 DEF Changing
  <2> QED BY <2>12, <2>13 DEF Methods
<1> QED BY <1>18, <1>19 DEF Right

\* The method of IdaWorker that serves a method that reads.
WorkerMethod(m) == IF m = "analysis_status" THEN "analysis_status_for_generation" ELSE m

\* The local backend serves it with that one.
LEMMA LocalServes == \A m \in Reading : m \in DOMAIN Local /\ Local[m] = WorkerMethod(m)
<1> DEFINE Fine(T) == \A m \in DOMAIN T \cap Reading : T[m] = WorkerMethod(m)
<1>1. \A S : "analysis_status" \notin S => Fine(SameName(S))
  BY DEF SameName, WorkerMethod
<1>2. \A f, g : Fine(f) /\ Fine(g) => Fine(f @@ g)
  BY MergeEntry
<1>3. /\ Fine([analysis_status |-> "analysis_status_for_generation",
               dsc_load_image |-> "dsc_load_image_for_generation"])
      /\ Fine([analyze_funcs_unbounded_observed |-> "analyze_funcs_observed"])
  BY DEF Reading, WorkerMethod
<1>4. Fine(LocalControl)
  <2> DEFINE S == {"render_range", "open_observed_with_generation", "close"}
  <2>1. "analysis_status" \notin S
    OBVIOUS
  <2>2. LocalControl = SameName(S)
    BY Zenon DEF LocalControl
  <2> HIDE DEF S
  <2> QED BY <1>1, <2>1, <2>2
<1>5. Fine(LocalDebug)
  <2> DEFINE S == {"load_debug_info", "debug_launch", "debug_attach", "debug_modules", "debug_stop"}
  <2>1. "analysis_status" \notin S
    OBVIOUS
  <2>2. LocalDebug = SameName(S)
    BY Zenon DEF LocalDebug
  <2> HIDE DEF S
  <2> QED BY <1>1, <2>1, <2>2
<1>6. Fine(LocalAnalysis)
  <2> DEFINE S == {"dsc_load_region", "list_functions", "resolve_function", "disasm_by_name",
                 "disasm", "decompile", "list_lvars"}
             A == [analysis_status |-> "analysis_status_for_generation",
                 dsc_load_image |-> "dsc_load_image_for_generation"]
  <2>1. "analysis_status" \notin S
    OBVIOUS
  <2>2. LocalAnalysis = A @@ SameName(S)
    BY Zenon DEF LocalAnalysis
  <2>3. Fine(A)
    BY <1>3
  <2> HIDE DEF S, A
  <2> QED BY <1>1, <1>2, <2>1, <2>2, <2>3
<1>7. Fine(LocalTypes)
  <2> DEFINE S == {"rename_lvar", "set_lvar_type", "list_pseudocode_comments",
                 "set_pseudocode_comment", "segments", "strings", "local_types", "declare_type"}
  <2>1. "analysis_status" \notin S
    OBVIOUS
  <2>2. LocalTypes = SameName(S)
    BY Zenon DEF LocalTypes
  <2> HIDE DEF S
  <2> QED BY <1>1, <2>1, <2>2
<1>8. Fine(LocalStack)
  <2> DEFINE S == {"apply_types", "infer_types", "addr_info", "function_at", "disasm_function_at",
                 "declare_stack", "delete_stack"}
  <2>1. "analysis_status" \notin S
    OBVIOUS
  <2>2. LocalStack = SameName(S)
    BY Zenon DEF LocalStack
  <2> HIDE DEF S
  <2> QED BY <1>1, <2>1, <2>2
<1>9. Fine(LocalStructs)
  <2> DEFINE S == {"stack_frame", "structs", "struct_info", "read_struct", "xrefs_to", "xrefs_from",
                 "xrefs_to_field", "imports", "exports", "entrypoints", "lumina_lookup",
                 "lumina_apply"}
  <2>1. "analysis_status" \notin S
    OBVIOUS
  <2>2. LocalStructs = SameName(S)
    BY Zenon DEF LocalStructs
  <2> HIDE DEF S
  <2> QED BY <1>1, <2>1, <2>2
<1>10. Fine(LocalPatches)
  <2> DEFINE S == {"get_bytes", "list_patches", "set_comments", "rename", "patch_bytes", "patch_asm",
                 "basic_blocks", "callees", "callers", "idb_meta", "lookup_funcs", "list_globals",
                 "analyze_strings"}
  <2>1. "analysis_status" \notin S
    OBVIOUS
  <2>2. LocalPatches = SameName(S)
    BY Zenon DEF LocalPatches
  <2> HIDE DEF S
  <2> QED BY <1>1, <2>1, <2>2
<1>11. Fine(LocalSearch)
  <2> DEFINE S == {"find_string", "xrefs_to_string", "analyze_funcs_observed", "find_bytes",
                 "search_text", "search_imm"}
             A == [analyze_funcs_unbounded_observed |-> "analyze_funcs_observed"]
  <2>1. "analysis_status" \notin S
    OBVIOUS
  <2>2. LocalSearch = A @@ SameName(S)
    BY Zenon DEF LocalSearch
  <2>3. Fine(A)
    BY <1>3
  <2> HIDE DEF S, A
  <2> QED BY <1>1, <1>2, <2>1, <2>2, <2>3
<1>12. Fine(LocalScripts)
  <2> DEFINE S == {"find_insns", "find_insn_operands", "read_int", "save_database", "get_string",
                 "get_global_value", "find_paths", "callgraph", "xref_matrix", "export_funcs",
                 "run_script_observed", "pseudocode_at"}
  <2>1. "analysis_status" \notin S
    OBVIOUS
  <2>2. LocalScripts = SameName(S)
    BY Zenon DEF LocalScripts
  <2> HIDE DEF S
  <2> QED BY <1>1, <2>1, <2>2
<1>13. Fine(Local)
  <2>1. \A S : (\A f \in S : Fine(f)) => Fine(Merged(S))
    BY MergedEntry
  <2> HIDE DEF Fine
  <2> QED BY <2>1, <1>4, <1>5, <1>6, <1>7, <1>8, <1>9, <1>10, <1>11, <1>12, Zenon DEF Local
<1>14. Reading \subseteq DOMAIN Local
  <2>1. {"render_range"} \subseteq DOMAIN LocalControl
    BY BothSides DEF LocalControl, SameName
  <2>2. {"debug_modules"} \subseteq DOMAIN LocalDebug
    BY BothSides DEF LocalDebug, SameName
  <2>3. {"analysis_status", "list_functions", "resolve_function", "disasm_by_name", "disasm",
        "decompile", "list_lvars"} \subseteq DOMAIN LocalAnalysis
    BY BothSides DEF LocalAnalysis, SameName
  <2>4. {"list_pseudocode_comments", "segments", "strings", "local_types"} \subseteq DOMAIN LocalTypes
    BY BothSides DEF LocalTypes, SameName
  <2>5. {"infer_types", "addr_info", "function_at", "disasm_function_at"} \subseteq DOMAIN LocalStack
    BY BothSides DEF LocalStack, SameName
  <2>6. {"stack_frame", "structs", "struct_info", "read_struct", "xrefs_to", "xrefs_from",
        "xrefs_to_field", "imports", "exports", "entrypoints", "lumina_lookup"} \subseteq DOMAIN LocalStructs
    BY BothSides DEF LocalStructs, SameName
  <2>7. {"get_bytes", "list_patches", "basic_blocks", "callees", "callers", "idb_meta",
        "lookup_funcs", "list_globals", "analyze_strings"} \subseteq DOMAIN LocalPatches
    BY BothSides DEF LocalPatches, SameName
  <2>8. {"find_string", "xrefs_to_string", "find_bytes", "search_text", "search_imm"} \subseteq DOMAIN LocalSearch
    BY BothSides DEF LocalSearch, SameName
  <2>9. {"find_insns", "find_insn_operands", "read_int", "get_string", "get_global_value",
        "find_paths", "callgraph", "xref_matrix", "export_funcs", "pseudocode_at"} \subseteq DOMAIN LocalScripts
    BY BothSides DEF LocalScripts, SameName
  <2>10. DOMAIN LocalControl
          \cup DOMAIN LocalDebug
          \cup DOMAIN LocalAnalysis
          \cup DOMAIN LocalTypes
          \cup DOMAIN LocalStack
          \cup DOMAIN LocalStructs
          \cup DOMAIN LocalPatches
          \cup DOMAIN LocalSearch
          \cup DOMAIN LocalScripts
          \subseteq DOMAIN Local
    BY MergedIncludes, Zenon DEF Local
  <2> QED BY <2>1, <2>2, <2>3, <2>4, <2>5, <2>6, <2>7, <2>8, <2>9, <2>10 DEF Reading
<1> QED BY <1>13, <1>14

\* The requests that change something or control the loop.
EffectiveKinds ==
  {"SetPseudocodeComment", "SetComments", "Rename", "DeclareType", "ApplyTypes",
   "DeclareStack", "DeleteStack", "RenameLvar", "SetLvarType", "PatchBytes", "PatchAsm",
   "LuminaApply", "DscLoadImage", "DscLoadRegion", "LoadDebugInfo", "SaveDatabase",
   "AnalyzeFuncs", "RunScript", "DebugLaunch", "DebugAttach", "DebugStop", "Open", "Close",
   "CloseIfGeneration", "Shutdown"}

\* Any other only reads.
LEMMA OtherKindsRead == \A k : k \notin EffectiveKinds => EffectOf(k) = "read"
<1> DEFINE Fine(T) == DOMAIN T \subseteq EffectiveKinds
<1> USE DEF EffectiveKinds
<1>1. Fine(AnnotationEffects) /\ Fine(TypeEffects) /\ Fine(LocalEffects) /\ Fine(PatchEffects)
  BY DEF AnnotationEffects, TypeEffects, LocalEffects, PatchEffects
<1>2. Fine(LuminaEffects) /\ Fine(DscuEffects) /\ Fine(DatabaseEffects) /\ Fine(AnalyzeEffects)
  BY DEF LuminaEffects, DscuEffects, DatabaseEffects, AnalyzeEffects
<1>3. Fine(ScriptEffects) /\ Fine(DebuggerEffects)
  BY DEF ScriptEffects, DebuggerEffects
<1> HIDE DEF EffectiveKinds
<1>4. Fine(Effects)
  <2>1. \A S : (\A f \in S : Fine(f)) => Fine(Merged(S))
    BY MergedEntry
  <2> HIDE DEF Fine
  <2> QED BY <1>1, <1>2, <1>3, <2>1, Zenon DEF Effects
<1> QED BY <1>4 DEF EffectOf, ControlKinds, EffectiveKinds

\* A method that reads sends a request that reads.
LEMMA ReadingReads == \A m \in Reading : EffectOf(KindOf(m)) = "read"
<1> DEFINE W == {WorkerMethod(m) : m \in Reading}
           Fine(T) == \A w \in DOMAIN T \cap W : T[w].kind \notin EffectiveKinds
<1>1. \A k : Waits(k).kind = k /\ Bounded(k).kind = k /\ SideEffect(k).kind = k
             /\ Observed(k).kind = k
  BY DEF Waits, Bounded, SideEffect, Observed
<1>2. \A w \in W : w \in Reading \cup {"analysis_status_for_generation"}
  BY DEF WorkerMethod
<1> HIDE DEF W
<1> USE <1>1, <1>2 DEF EffectiveKinds, Reading
<1>3. Fine(ControlMethods)
  BY DEF ControlMethods
<1>4. Fine(DebugMethods)
  BY DEF DebugMethods
<1>5. Fine(AnalysisMethods)
  BY DEF AnalysisMethods
<1>6. Fine(DisasmMethods)
  BY DEF DisasmMethods
<1>7. Fine(TypeMethods)
  BY DEF TypeMethods
<1>8. Fine(StackMethods)
  BY DEF StackMethods
<1>9. Fine(XrefMethods)
  BY DEF XrefMethods
<1>10. Fine(PatchMethods)
  BY DEF PatchMethods
<1>11. Fine(SearchMethods)
  BY DEF SearchMethods
<1>12. Fine(InsnMethods)
  BY DEF InsnMethods
<1>13. Fine(ScriptMethods)
  BY DEF ScriptMethods
<1> HIDE <1>1, <1>2 DEF EffectiveKinds, Reading
<1>14. Fine(IdaWorker)
  <2>1. \A S : (\A f \in S : Fine(f)) => Fine(Merged(S))
    BY MergedEntry
  <2> HIDE DEF Fine
  <2> QED BY <2>1, <1>3, <1>4, <1>5, <1>6, <1>7, <1>8, <1>9, <1>10, <1>11, <1>12, <1>13, Zenon DEF IdaWorker
<1>15. W \subseteq DOMAIN IdaWorker
  <2>1. {"debug_modules"} \subseteq DOMAIN DebugMethods
    BY DEF DebugMethods
  <2>2. {"analysis_status_for_generation"} \subseteq DOMAIN AnalysisMethods
    BY DEF AnalysisMethods
  <2>3. {"list_functions", "resolve_function", "disasm_by_name", "disasm", "render_range",
        "decompile", "list_lvars"} \subseteq DOMAIN DisasmMethods
    BY DEF DisasmMethods
  <2>4. {"list_pseudocode_comments", "segments", "strings", "local_types", "infer_types"} \subseteq DOMAIN TypeMethods
    BY DEF TypeMethods
  <2>5. {"addr_info", "function_at", "disasm_function_at", "stack_frame", "structs",
        "struct_info", "read_struct"} \subseteq DOMAIN StackMethods
    BY DEF StackMethods
  <2>6. {"xrefs_to", "xrefs_from", "xrefs_to_field", "imports", "exports", "entrypoints",
        "lumina_lookup", "get_bytes"} \subseteq DOMAIN XrefMethods
    BY DEF XrefMethods
  <2>7. {"list_patches", "basic_blocks", "callees", "callers", "idb_meta", "lookup_funcs"} \subseteq DOMAIN PatchMethods
    BY DEF PatchMethods
  <2>8. {"list_globals", "analyze_strings", "find_string", "xrefs_to_string", "find_bytes"} \subseteq DOMAIN SearchMethods
    BY DEF SearchMethods
  <2>9. {"search_text", "search_imm", "find_insns", "find_insn_operands", "read_int",
        "get_string", "get_global_value", "find_paths", "callgraph"} \subseteq DOMAIN InsnMethods
    BY DEF InsnMethods
  <2>10. {"xref_matrix", "export_funcs", "pseudocode_at"} \subseteq DOMAIN ScriptMethods
    BY DEF ScriptMethods
  <2>11. DOMAIN DebugMethods
          \cup DOMAIN AnalysisMethods
          \cup DOMAIN DisasmMethods
          \cup DOMAIN TypeMethods
          \cup DOMAIN StackMethods
          \cup DOMAIN XrefMethods
          \cup DOMAIN PatchMethods
          \cup DOMAIN SearchMethods
          \cup DOMAIN InsnMethods
          \cup DOMAIN ScriptMethods
          \subseteq DOMAIN IdaWorker
    BY MergedIncludes, Zenon DEF IdaWorker
  <2>12. (Reading \ {"analysis_status"}) \cup {"analysis_status_for_generation"}
          \subseteq DOMAIN IdaWorker
    BY <2>1, <2>2, <2>3, <2>4, <2>5, <2>6, <2>7, <2>8, <2>9, <2>10, <2>11 DEF Reading
  <2> QED BY <2>12 DEF W, WorkerMethod
<1> QED
  <2> SUFFICES ASSUME NEW m \in Reading PROVE EffectOf(KindOf(m)) = "read"
    OBVIOUS
  <2>1. KindOf(m) = IdaWorker[WorkerMethod(m)].kind /\ WorkerMethod(m) \in W
    BY LocalServes DEF KindOf, W
  <2> QED BY <1>14, <1>15, <2>1, OtherKindsRead

\* What becomes of a method in the child: the handler there calls it again, then
\* at most reads, and answers in the form the parent expects.
LEMMA StepOfMethod ==
  ASSUME NEW m \in Methods
  PROVE  /\ Step(m).agrees /\ Step(m).understood
         /\ Step(m).effect = EffectOf(KindOf(m))
         /\ Step(m).debug =
              (ToolOf(m) \in {"debug_launch", "debug_attach", "debug_modules", "debug_stop"})
<1> DEFINE p == Pooled[m]
           child == Handlers[p.tool].plans[p.variant]
<1>1. p.tool = ToolOf(m) /\ p.variant = VariantOf(m) /\ p.form = FormOf(m)
  <2>1. p = Asks(ToolOf(m), VariantOf(m), FormOf(m))
    BY PooledForwards
  <2>2. \A a, b, c : Asks(a, b, c).tool = a /\ Asks(a, b, c).variant = b /\ Asks(a, b, c).form = c
    BY DEF Asks
  <2> HIDE DEF p
  <2> QED BY <2>1, <2>2
<1>2. child = PlanOf(m) /\ Handlers[p.tool].form = p.form
  <2>1. Serving(ToolOf(m), Handlers[ToolOf(m)])
    BY ToolsHandled, HandlersFit DEF Fitting
  <2> QED BY <1>1, <2>1 DEF Serving
<1>3. child[1] = m /\ \A i \in 2 .. Len(child) : child[i] = "analysis_status"
  <2>1. PlanOf(m) = <<m>> \/ PlanOf(m) = <<m, "analysis_status">>
    BY DEF PlanOf
  <2> HIDE DEF child
  <2> QED BY <1>2, <2>1
<1>4. EffectOf(KindOf("analysis_status")) = "read"
  BY ReadingReads DEF Reading
<1>5. /\ Step(m).agrees =
           (/\ KindOf(child[1]) = KindOf(m)
            /\ \A i \in 2 .. Len(child) : EffectOf(KindOf(child[i])) = "read")
      /\ Step(m).understood = (Handlers[p.tool].form = p.form)
      /\ Step(m).effect = EffectOf(KindOf(child[1]))
      /\ Step(m).debug =
           (p.tool \in {"debug_launch", "debug_attach", "debug_modules", "debug_stop"})
  BY DEF Step
<1> HIDE DEF child, p
<1> QED BY <1>1, <1>2, <1>3, <1>4, <1>5

\* The step of a repeated method is plain.
LEMMA BatchSteps == \A m \in BatchMethods : Plain(Step(m))
<1> SUFFICES ASSUME NEW m \in BatchMethods PROVE Plain(Step(m))
  OBVIOUS
<1>1. m \in Reading /\ m \in Methods
  BY DEF BatchMethods, Reading, Methods
<1>2. Step(m).effect = "read"
  BY <1>1, StepOfMethod, ReadingReads
<1>3. ToolOf(m) \notin {"debug_launch", "debug_attach", "debug_modules", "debug_stop"}
  BY DEF ToolOf, Renamed, BatchMethods
<1>4. ~Step(m).debug
  BY <1>1, <1>3, StepOfMethod
<1> QED BY <1>2, <1>4 DEF Plain

\* A step that agrees, and one that only reads.
Agreeing(steps) == \A i \in 1 .. Len(steps) : steps[i].agrees /\ steps[i].understood

OnlyReads(steps) == \A i \in 1 .. Len(steps) : steps[i].effect = "read"

\* What a tool of the server is offered with: a list of steps that agree, which
\* only a tool that repeats plain steps repeats, and of which a tool that is
\* neither denied nor kept makes only some that read.
LEMMA OfferedRoutes ==
  /\ \A f \in Filters : \A r \in Offered[f] :
       /\ r \in Routes
       /\ Len(r.steps) \in Nat /\ (r.steps # <<>> => Len(r.steps) > 0)
       /\ r.many => Batch(r.steps)
       /\ Agreeing(r.steps)
       /\ f.readOnly /\ ~r.kept => OnlyReads(r.steps)
  /\ Idle.route \in Routes /\ Len(Idle.route.steps) \in Nat /\ Agreeing(Idle.route.steps)
<1>1. ASSUME NEW t \in DOMAIN Handlers, NEW v \in DOMAIN Handlers[t].plans
      PROVE  LET r == Route(t, v) IN
               /\ r.many = Handlers[t].many /\ r.many \in BOOLEAN /\ r.kept \in BOOLEAN
               /\ r \in [many : {r.many}, kept : {r.kept}, steps : {r.steps}]
               /\ Len(r.steps) \in Nat /\ (r.steps # <<>> => Len(r.steps) > 0)
               /\ r.many => Batch(r.steps)
               /\ Agreeing(r.steps)
               /\ t \in READ_ONLY_DENY_LIST \cup Preserved \/ OnlyReads(r.steps)
               /\ r.kept = (t \in Preserved)
  <2> DEFINE plan == Handlers[t].plans[v]
             r == Route(t, v)
             steps == [i \in DOMAIN plan |-> Step(plan[i])]
  <2>1. WellMade(Handlers[t], MethodsFor(t))
    BY HandlersFit DEF Fitting
  <2>2. r = [many |-> Handlers[t].many, kept |-> t \in Preserved, steps |-> steps]
    BY DEF Route
  <2>3. Listed(plan, MethodsFor(t)) /\ (Handlers[t].many => \E m \in BatchMethods : plan = <<m>>)
    BY <2>1 DEF WellMade
  <2>4. Handlers[t].many \in BOOLEAN /\ (t \in Preserved) \in BOOLEAN
    BY <2>1 DEF WellMade
  <2>5. \E n \in Nat : DOMAIN plan = 1 .. n
    <3>1. DOMAIN <<>> = 1 .. 0 /\ (\A x : DOMAIN <<x>> = 1 .. 1) /\ \A x, y : DOMAIN <<x, y>> = 1 .. 2
      OBVIOUS
    <3> HIDE DEF plan
    <3> QED BY <2>3, <3>1 DEF Listed
  <2>6. PICK n \in Nat : DOMAIN plan = 1 .. n
    BY <2>5
  <2> HIDE DEF plan
  <2>7. Len(steps) = n /\ DOMAIN steps = 1 .. n /\ \A i \in 1 .. n : steps[i] = Step(plan[i])
    <3>1. \A i \in 1 .. n : Step(plan[i]) \in {Step(plan[j]) : j \in 1 .. n}
      OBVIOUS
    <3> HIDE DEF Step
    <3>2. steps \in Seq({Step(plan[j]) : j \in 1 .. n})
      BY <2>6, <3>1
    <3> QED BY <2>6, <3>2
  <2>8. steps # <<>> => n > 0
    BY <2>6, <2>7
  <2>9. Handlers[t].many => Batch(steps)
    <3> SUFFICES ASSUME Handlers[t].many PROVE Batch(steps)
      OBVIOUS
    <3>1. PICK m \in BatchMethods : plan = <<m>>
      BY <2>3
    <3>2. n = 1 /\ plan[1] = m
      BY <2>6, <3>1
    <3>3. Plain(steps[1])
      BY <2>7, <3>2, BatchSteps
    <3> HIDE DEF steps
    <3> QED BY <2>7, <3>2, <3>3 DEF Batch
  <2>10. \A i \in 1 .. n : plan[i] \in MethodsFor(t)
    BY <2>3, <2>6 DEF Listed
  <2>11. MethodsFor(t) \subseteq Methods
    BY DEF MethodsFor, Methods
  <2>12. \A i \in 1 .. n : steps[i].agrees /\ steps[i].understood
    <3> HIDE DEF steps
    <3> QED BY <2>7, <2>10, <2>11, StepOfMethod
  <2>13. t \notin READ_ONLY_DENY_LIST \cup Preserved => \A i \in 1 .. n : steps[i].effect = "read"
    <3> HIDE DEF steps
    <3>1. t \notin READ_ONLY_DENY_LIST \cup Preserved => MethodsFor(t) = Reading
      BY DEF MethodsFor
    <3> QED BY <2>7, <2>10, <2>11, <3>1, StepOfMethod, ReadingReads
  <2> HIDE DEF steps, r
  <2>14. Agreeing(steps) /\ (t \in READ_ONLY_DENY_LIST \cup Preserved \/ OnlyReads(steps))
    BY <2>7, <2>12, <2>13 DEF Agreeing, OnlyReads
  <2>15. r.many = Handlers[t].many /\ r.kept = (t \in Preserved) /\ r.steps = steps
         /\ r \in [many : {r.many}, kept : {r.kept}, steps : {r.steps}]
    BY <2>2
  <2> QED BY <2>4, <2>7, <2>8, <2>9, <2>15, <2>14 DEF r
<1>2. ASSUME NEW f \in Filters, NEW r \in Offered[f]
      PROVE  /\ r \in Routes
             /\ Len(r.steps) \in Nat /\ (r.steps # <<>> => Len(r.steps) > 0)
             /\ r.many => Batch(r.steps)
             /\ Agreeing(r.steps)
             /\ f.readOnly /\ ~r.kept => OnlyReads(r.steps)
  <2>1. r \in UNION {{Route(t, v) : v \in DOMAIN Handlers[t].plans} : t \in Enabled(f)}
    BY Zenon DEF Offered
  <2>2. PICK t \in Enabled(f) : r \in {Route(t, v) : v \in DOMAIN Handlers[t].plans}
    BY <2>1
  <2>3. PICK v \in DOMAIN Handlers[t].plans : r = Route(t, v)
    BY <2>2
  <2>4. t \in DOMAIN Handlers
    <3>1. f.base \in {"all", "lean"} \cup DOMAIN Categories
      BY BoundsAssumption DEF Filters
    <3> QED BY <3>1, ToolsHandled DEF Enabled, Allowed
  <2>5. r.steps \in StepLists
    BY DEF StepLists
  <2>6. f.readOnly => t \notin READ_ONLY_DENY_LIST
    BY DEF Enabled, Allowed
  <2> HIDE DEF Route
  <2> QED BY <1>1, <2>3, <2>4, <2>5, <2>6 DEF Routes
<1>3. Idle.route \in Routes /\ Len(Idle.route.steps) \in Nat /\ Agreeing(Idle.route.steps)
  <2>1. Idle.route = Route("tool_help", "default")
    BY DEF Idle
  <2>2. "tool_help" \in DOMAIN Handlers
    BY HandlerNames, HandlerDomain
  <2>3. Handlers["tool_help"] = Own
    <3>1. CatalogTools["tool_help"] = Own
      BY DEF CatalogTools
    <3> QED BY <2>2, <3>1, HandlerEntry, HandlerNames
  <2>4. "default" \in DOMAIN Handlers["tool_help"].plans
    BY <2>3 DEF Own, Serves
  <2>5. Idle.route.steps \in StepLists
    BY DEF StepLists
  <2> HIDE DEF Route
  <2> QED BY <1>1, <2>1, <2>2, <2>4, <2>5 DEF Routes
<1> QED BY <1>2, <1>3

-----------------------------------------------------------------------------
(* Steps of one call.                                                      *)

\* A handler that is done.
LEMMA IdleSound == Sound(Idle) /\ Idle.phase = "done" /\ Idle.loss = "none"
<1>1. Idle \in Records
  BY OfferedRoutes, BoundsAssumption DEF Idle, Records, Phases, Losses
<1> QED BY <1>1 DEF Sound, Idle

\* An answer, if it is an error whenever the worker was lost.
LEMMA AnsweredSound ==
  ASSUME NEW r \in Records, NEW reply \in {"none", "ok", "error", "disabled"},
         r.loss = "fatal" => reply = "error"
  PROVE  Sound(Answered(r, reply)) /\ Answered(r, reply).phase = "done"
<1>1. Idle \in Records /\ Idle.phase = "done" /\ Idle.step = 0
  BY IdleSound DEF Sound
<1>2. Answered(r, reply) = [Idle EXCEPT !.loss = r.loss, !.reply = reply]
  BY DEF Answered
<1>3. Answered(r, reply) \in Records
  BY <1>1, <1>2 DEF Records
<1>4. /\ Answered(r, reply).phase = "done" /\ Answered(r, reply).step = 0
      /\ Answered(r, reply).loss = r.loss /\ Answered(r, reply).reply = reply
  BY <1>1, <1>2 DEF Records
<1> QED BY <1>3, <1>4 DEF Sound

\* The updates of a record that a step of its call makes.
LEMMA Updates ==
  ASSUME NEW r \in Records
  PROVE  /\ \A p \in Phases, n \in Nat : [r EXCEPT !.phase = p, !.step = n] \in Records
         /\ \A p \in Phases, n \in 0 .. MaxItems : [r EXCEPT !.phase = p, !.left = n] \in Records
         /\ \A p \in Phases, n \in 0 .. 2 : [r EXCEPT !.phase = p, !.at = n] \in Records
         /\ \A g \in 0 .. MaxLives, b \in BOOLEAN :
              [r EXCEPT !.lease = g, !.fresh = b] \in Records
         /\ \A p \in Phases, g \in 0 .. MaxLives, b \in BOOLEAN :
              [r EXCEPT !.phase = p, !.lease = g, !.fresh = b] \in Records
         /\ \A n \in 0 .. 2 : [r EXCEPT !.at = n] \in Records
         /\ \A l \in Losses : [r EXCEPT !.loss = l] \in Records
BY DEF Records

\* The record that Deliver stores.
After(r, e) == [Delivered([r EXCEPT !.at = 0], e) EXCEPT !.lease = 0, !.fresh = FALSE]

\* A handler that gets a result goes on soundly, provided the loss of the
\* worker is delivered as an error, and to a batch as a fatal one.
LEMMA DeliveredSound ==
  ASSUME NEW r \in Records, NEW e, AtWork(r), r.phase # "done",
         r.loss = "fatal" => e # "none" /\ (r.route.many => is_fatal(e))
  PROVE  Sound(After(r, e)) /\ After(r, e).phase \in {"next", "done"}
<1> DEFINE q == [r EXCEPT !.at = 0]
           D == Delivered(q, e)
<1>1. q \in Records /\ AtWork(q) /\ q.phase # "done" /\ q.loss = r.loss /\ q.route = r.route
      /\ q.step = r.step /\ q.left = r.left
  BY DEF Records, AtWork
<1>2. Sound(D) /\ D.phase \in {"next", "done"}
  <2> HIDE DEF q
  <2> USE DEF Delivered
  <2>1. CASE e = "none" /\ q.step < Len(q.route.steps)
    <3>1. D = [q EXCEPT !.phase = "next", !.step = q.step + 1]
      BY <2>1
    <3>2. D \in Records /\ D.phase = "next"
      <4>1. q.step + 1 \in Nat /\ "next" \in Phases
        BY <1>1 DEF Records, Phases
      <4> HIDE DEF D
      <4>2. D \in Records
        BY <1>1, <3>1, <4>1, Updates, Zenon
      <4> QED BY <1>1, <3>1, <4>2 DEF Records
    <3>3. D.route = q.route /\ D.step = q.step + 1 /\ D.left = q.left /\ D.loss = q.loss
      BY <1>1, <3>1 DEF Records
    <3>4. AtWork(D)
      BY <1>1, <2>1, <3>3 DEF AtWork
    <3> QED BY <1>1, <2>1, <3>2, <3>3, <3>4 DEF Sound
  <2>2. CASE ~(e = "none" /\ q.step < Len(q.route.steps)) /\ ~q.route.many
    BY <1>1, <2>2, AnsweredSound
  <2>3. CASE /\ ~(e = "none" /\ q.step < Len(q.route.steps)) /\ q.route.many
             /\ is_fatal(e) \/ q.left = 1
    BY <1>1, <2>3, AnsweredSound
  <2>4. CASE /\ ~(e = "none" /\ q.step < Len(q.route.steps)) /\ q.route.many
             /\ ~(is_fatal(e) \/ q.left = 1)
    <3>1. D = [q EXCEPT !.phase = "next", !.left = q.left - 1]
      BY <2>4
    <3>2. q.left - 1 \in 1 .. MaxItems
      BY <1>1, <2>4, BoundsAssumption DEF AtWork
    <3>3. D \in Records /\ D.phase = "next"
      <4>1. q.left - 1 \in 0 .. MaxItems /\ "next" \in Phases
        BY <3>2, BoundsAssumption DEF Phases
      <4> HIDE DEF D
      <4>2. D \in Records
        BY <1>1, <3>1, <4>1, Updates, Zenon
      <4> QED BY <1>1, <3>1, <4>2 DEF Records
    <3>4. D.route = q.route /\ D.step = q.step /\ D.left = q.left - 1 /\ D.loss = q.loss
      BY <1>1, <3>1 DEF Records
    <3>5. AtWork(D)
      BY <1>1, <3>2, <3>4 DEF AtWork
    <3> QED BY <1>1, <2>4, <3>3, <3>4, <3>5 DEF Sound
  <2> QED BY <2>1, <2>2, <2>3, <2>4
<1> HIDE DEF D, q
<1>3. After(r, e) = [D EXCEPT !.lease = 0, !.fresh = FALSE]
  BY DEF After, D, q
<1>4. D \in Records
  BY <1>2 DEF Sound
<1>5. After(r, e) \in Records
  <2>1. 0 \in 0 .. MaxLives /\ FALSE \in BOOLEAN
    BY BoundsAssumption
  <2> QED BY <1>3, <1>4, <2>1, Updates, Zenon
<1>6. /\ After(r, e).phase = D.phase /\ After(r, e).route = D.route /\ After(r, e).left = D.left
      /\ After(r, e).step = D.step /\ After(r, e).loss = D.loss /\ After(r, e).reply = D.reply
  BY <1>3, <1>4 DEF Records
<1> QED BY <1>2, <1>5, <1>6 DEF Sound, AtWork

-----------------------------------------------------------------------------
(* Steps of the system.                                                    *)

\* Nothing has been called yet.
LEMMA InitSound == Init => IInv
<1> SUFFICES ASSUME Init PROVE IInv
  OBVIOUS
<1>1. Bookkeeping
  <2>1. 0 \in 0 .. MaxLives
    BY BoundsAssumption
  <2>2. fate \in [1 .. MaxLives -> {"unused", "leased", "released", "dead"}]
    BY DEF Init
  <2>3. filter \in Filters /\ lease = 0 /\ pinned = FALSE
    BY DEF Init
  <2> QED BY <2>1, <2>2, <2>3 DEF Bookkeeping
<1>2. CallsSound /\ \A c \in Clients : call[c].phase = "done"
  BY IdleSound DEF Init, CallsSound, Sound
<1> QED BY <1>1, <1>2 DEF IInv, OneInChild, RunsOnItsLease

\* A call ends up outside the child, having decided at most the fate of the
\* lease it had there.
LEMMA Leaves ==
  ASSUME IInv, NEW c \in Clients, NEW r, Sound(r), r.phase # "child",
         call' = [call EXCEPT ![c] = r], Bookkeeping',
         \A g \in 1 .. MaxLives :
           fate'[g] \in {fate[g], "leased"} \/ (call[c].phase = "child" /\ g = call[c].lease)
  PROVE  IInv'
<1>1. CallsSound' /\ call'[c] = r /\ \A d \in Clients \ {c} : call'[d] = call[d]
  BY DEF IInv, CallsSound, Sound
<1>2. OneInChild'
  BY <1>1 DEF IInv, OneInChild
<1>3. RunsOnItsLease'
  <2> SUFFICES ASSUME NEW d \in Clients, call'[d].phase = "child"
               PROVE  fate'[call'[d].lease] = "leased"
    BY DEF RunsOnItsLease
  <2>1. d # c /\ call'[d] = call[d]
    BY <1>1
  <2>2. fate[call[d].lease] = "leased" /\ call[d].lease \in 1 .. MaxLives
    BY <2>1 DEF IInv, RunsOnItsLease, CallsSound, Sound
  <2>3. ~(call[c].phase = "child" /\ call[d].lease = call[c].lease)
    BY <2>1 DEF IInv, OneInChild
  <2> QED BY <2>1, <2>2, <2>3
<1> QED BY <1>1, <1>2, <1>3 DEF IInv

\* A call is in the child, alone.
LEMMA Enters ==
  ASSUME IInv, NEW c \in Clients, NEW r, Sound(r), fate[r.lease] = "leased",
         call' = [call EXCEPT ![c] = r], Bookkeeping', fate' = fate,
         \A d \in Clients \ {c} : ~(call[d].phase = "child" /\ call[d].lease = r.lease)
  PROVE  IInv'
<1>1. CallsSound' /\ call'[c] = r /\ \A d \in Clients \ {c} : call'[d] = call[d]
  BY DEF IInv, CallsSound, Sound
<1>2. OneInChild'
  BY <1>1 DEF IInv, OneInChild
<1>3. RunsOnItsLease'
  BY <1>1 DEF IInv, RunsOnItsLease
<1> QED BY <1>1, <1>2, <1>3 DEF IInv

\* What a handler at work may assume.
LEMMA Working ==
  ASSUME IInv, NEW c \in Clients, call[c].phase # "done"
  PROVE  call[c] \in Records /\ AtWork(call[c]) /\ call[c].loss # "fatal"
BY DEF IInv, CallsSound, Sound

\* Delivering a result, with the loss l noted, while the lease of a call in the
\* child may be decided.
LEMMA Delivers ==
  ASSUME IInv, NEW c \in Clients, call[c].phase # "done", NEW l \in Losses, NEW e,
         l = "fatal" => e # "none" /\ (call[c].route.many => is_fatal(e)),
         \/ Deliver(c, [call[c] EXCEPT !.loss = l], e)
         \/ Deliver(c, call[c], e),
         Bookkeeping',
         \A g \in 1 .. MaxLives :
           fate'[g] \in {fate[g], "leased"} \/ (call[c].phase = "child" /\ g = call[c].lease)
  PROVE  IInv'
<1>1. call[c] \in Records /\ AtWork(call[c]) /\ call[c].loss # "fatal"
  BY Working
<1>2. CASE Deliver(c, call[c], e)
  <2>1. call' = [call EXCEPT ![c] = After(call[c], e)]
    BY <1>2 DEF Deliver, After
  <2>2. Sound(After(call[c], e)) /\ After(call[c], e).phase \in {"next", "done"}
    BY <1>1, DeliveredSound
  <2> QED BY <2>1, <2>2, Leaves
<1>3. CASE Deliver(c, [call[c] EXCEPT !.loss = l], e)
  <2> DEFINE r == [call[c] EXCEPT !.loss = l]
  <2>1. call' = [call EXCEPT ![c] = After(r, e)]
    BY <1>3 DEF Deliver, After
  <2>2. r \in Records
    BY <1>1, Updates
  <2>3. AtWork(r) /\ r.phase # "done" /\ r.loss = l /\ r.route = call[c].route
    BY <1>1 DEF Records, AtWork
  <2> HIDE DEF r
  <2>4. Sound(After(r, e)) /\ After(r, e).phase \in {"next", "done"}
    BY <2>2, <2>3, DeliveredSound
  <2> QED BY <2>1, <2>4, Leaves
<1> QED BY <1>2, <1>3

\* A call begins.
LEMMA CallKeeps == ASSUME IInv, NEW c \in Clients, Call(c) PROVE IInv'
<1>1. Bookkeeping' /\ UNCHANGED fate
  BY DEF IInv, Bookkeeping, Call
<1>2. Idle \in Records /\ Idle.phase = "done" /\ Idle.loss = "none" /\ Idle.step = 0
  BY IdleSound DEF Sound
<1>3. ASSUME NEW reply \in {"none", "ok", "error", "disabled"},
             call' = [call EXCEPT ![c] = [Idle EXCEPT !.reply = reply]]
      PROVE  IInv'
  <2>1. [Idle EXCEPT !.reply = reply] \in Records
    BY <1>2 DEF Records
  <2>2. /\ [Idle EXCEPT !.reply = reply].phase = "done" /\ [Idle EXCEPT !.reply = reply].step = 0
        /\ [Idle EXCEPT !.reply = reply].loss = "none"
    BY <1>2 DEF Records
  <2>3. Sound([Idle EXCEPT !.reply = reply])
    BY <2>1, <2>2 DEF Sound
  <2> QED BY <1>1, <1>3, <2>2, <2>3, Leaves
<1>4. ASSUME NEW r \in Offered[filter], NEW n \in 1 .. MaxItems, r.many \/ n = 1, r.steps # <<>>,
             call' = [call EXCEPT ![c] =
               [Idle EXCEPT !.phase = "next", !.route = r, !.left = n, !.step = 1,
                            !.route.many = (n > 1)]]
      PROVE  IInv'
  <2> DEFINE q == [r EXCEPT !.many = (n > 1)]
             w == [Idle EXCEPT !.phase = "next", !.route = r, !.left = n, !.step = 1,
                               !.route.many = (n > 1)]
  <2>1. /\ r \in Routes /\ Len(r.steps) \in Nat /\ Len(r.steps) > 0
        /\ r.many => Batch(r.steps)
    BY <1>4, OfferedRoutes DEF IInv, Bookkeeping
  <2>2. q \in Routes /\ q.many = (n > 1) /\ q.steps = r.steps
    <3>1. (n > 1) \in BOOLEAN
      OBVIOUS
    <3> QED BY <2>1, <3>1 DEF Routes
  <2>3. n > 1 => r.many
    BY <1>4
  <2>4. w = [Idle EXCEPT !.phase = "next", !.route = q, !.left = n, !.step = 1]
    BY <1>2 DEF Records
  <2> HIDE DEF q, w
  <2>5. n \in 0 .. MaxItems /\ 1 \in Nat /\ "next" \in Phases
    BY BoundsAssumption DEF Phases
  <2>6. w \in Records
    BY <1>2, <2>2, <2>4, <2>5 DEF Records
  <2>7. w.phase = "next" /\ w.route = q /\ w.left = n /\ w.step = 1 /\ w.loss = "none"
    BY <1>2, <2>4 DEF Records
  <2>8. AtWork(w)
    <3>1. w.route.many => r.many
      BY <2>2, <2>3, <2>7, Zenon
    <3>2. w.route.many => Batch(w.route.steps)
      BY <2>1, <2>2, <2>7, <3>1, Zenon
    <3>3. w.route.steps = r.steps
      BY <2>2, <2>7
    <3>4. w.left \in 1 .. MaxItems /\ w.step \in 1 .. Len(w.route.steps)
      BY <2>1, <2>7, <3>3
    <3> QED BY <3>2, <3>4 DEF AtWork
  <2>9. Sound(w)
    BY <2>6, <2>7, <2>8 DEF Sound
  <2> QED BY <1>1, <1>4, <2>7, <2>9, Leaves DEF w
<1>5. CASE call' = [call EXCEPT ![c] = [Idle EXCEPT !.reply = "disabled"]]
  BY <1>3, <1>5
<1>6. CASE \E r \in Offered[filter], n \in 1 .. MaxItems :
             /\ r.many \/ n = 1
             /\ call' = [call EXCEPT ![c] =
                  IF r.steps = <<>> THEN [Idle EXCEPT !.reply = "ok"]
                  ELSE [Idle EXCEPT !.phase = "next", !.route = r, !.left = n, !.step = 1,
                          !.route.many = (n > 1)]]
  <2>1. PICK r \in Offered[filter], n \in 1 .. MaxItems :
             /\ r.many \/ n = 1
             /\ call' = [call EXCEPT ![c] =
                  IF r.steps = <<>> THEN [Idle EXCEPT !.reply = "ok"]
                  ELSE [Idle EXCEPT !.phase = "next", !.route = r, !.left = n, !.step = 1,
                          !.route.many = (n > 1)]]
    BY <1>6
  <2>2. CASE r.steps = <<>>
    <3>1. call' = [call EXCEPT ![c] = [Idle EXCEPT !.reply = "ok"]]
      BY <2>1, <2>2, Zenon
    <3> QED BY <1>3, <3>1
  <2>3. CASE r.steps # <<>>
    <3>1. call' = [call EXCEPT ![c] =
               [Idle EXCEPT !.phase = "next", !.route = r, !.left = n, !.step = 1,
                            !.route.many = (n > 1)]]
      BY <2>1, <2>3, Zenon
    <3> QED BY <1>4, <2>1, <2>3, <3>1, Zenon
  <2> QED BY <2>2, <2>3
<1> QED BY <1>5, <1>6 DEF Call

\* A call gets the lease its next item runs on.
LEMMA ResolveKeeps == ASSUME IInv, NEW c \in Clients, Resolve(c) PROVE IInv'
<1> DEFINE s == Current(c)
           queued(g, fresh) == [call[c] EXCEPT !.phase = "queued", !.lease = g, !.fresh = fresh]
<1>1. call[c] \in Records /\ AtWork(call[c]) /\ call[c].loss # "fatal" /\ call[c].phase = "next"
  BY Working DEF Resolve
<1>2. ASSUME NEW g \in 1 .. MaxLives, NEW fresh \in BOOLEAN,
             call' = [call EXCEPT ![c].phase = "queued", ![c].lease = g, ![c].fresh = fresh],
             Bookkeeping', fate' \in {fate, [fate EXCEPT ![g] = "leased"]}
      PROVE  IInv'
  <2> DEFINE r == queued(g, fresh)
  <2>1. call' = [call EXCEPT ![c] = r]
    <3>1. call \in [Clients -> Records]
      BY DEF IInv, CallsSound
    <3> QED BY <1>2, <3>1
  <2>2. r \in Records
    <3>1. "queued" \in Phases /\ g \in 0 .. MaxLives
      BY DEF Phases
    <3> QED BY <1>1, <3>1, Updates, Zenon
  <2>3. /\ r.phase = "queued" /\ r.lease = g /\ r.loss = call[c].loss
        /\ r.left = call[c].left /\ r.step = call[c].step /\ r.route = call[c].route
    BY <1>1 DEF Records
  <2> HIDE DEF r
  <2>4. Sound(r)
    BY <1>1, <2>2, <2>3 DEF Sound, AtWork
  <2>5. \A h \in 1 .. MaxLives : fate'[h] \in {fate[h], "leased"}
    BY <1>2 DEF IInv, Bookkeeping
  <2> QED BY <1>2, <2>1, <2>3, <2>4, <2>5, Leaves
<1>3. CASE s.effect = "Open" /\ lease = 0 /\ UNCHANGED pinned
           /\ \E g \in 1 .. MaxLives :
                /\ lease' = g
                /\ fate' = [fate EXCEPT ![g] = "leased"]
                /\ call' = [call EXCEPT ![c].phase = "queued", ![c].lease = g, ![c].fresh = TRUE]
  <2>1. PICK g \in 1 .. MaxLives :
                /\ lease' = g
                /\ fate' = [fate EXCEPT ![g] = "leased"]
                /\ call' = [call EXCEPT ![c].phase = "queued", ![c].lease = g, ![c].fresh = TRUE]
    BY <1>3
  <2>2. Bookkeeping'
    <3>1. filter' = filter
      BY DEF Resolve
    <3>2. fate' \in [1 .. MaxLives -> {"unused", "leased", "released", "dead"}]
      BY <2>1 DEF IInv, Bookkeeping
    <3>3. lease' \in 0 .. MaxLives
      BY <2>1
    <3> QED BY <1>3, <3>1, <3>2, <3>3 DEF IInv, Bookkeeping
  <2> QED BY <1>2, <2>1, <2>2
<1>4. CASE lease # 0 /\ fate' = fate /\ lease' \in {0, lease} /\ pinned' \in {FALSE, pinned}
           /\ call' = [call EXCEPT ![c].phase = "queued", ![c].lease = lease, ![c].fresh = FALSE]
  <2>1. lease \in 1 .. MaxLives
    BY <1>4, BoundsAssumption DEF IInv, Bookkeeping
  <2>2. Bookkeeping'
    <3>1. filter' = filter
      BY DEF Resolve
    <3>2. lease' \in 0 .. MaxLives
      BY <1>4, BoundsAssumption DEF IInv, Bookkeeping
    <3> QED BY <1>4, <3>1, <3>2 DEF IInv, Bookkeeping
  <2> QED BY <1>2, <1>4, <2>1, <2>2
<1>5. ASSUME NEW e, Deliver(c, call[c], e), UNCHANGED <<lease, fate, pinned>>
      PROVE  IInv'
  <2>1. Bookkeeping'
    BY <1>5 DEF IInv, Bookkeeping, Resolve
  <2>2. "none" \in Losses
    BY DEF Losses
  <2> QED BY <1>1, <1>5, <2>1, <2>2, Delivers
<1> QED BY <1>3, <1>4, <1>5 DEF Resolve

\* The lease of the session after a worker or its lease is gone.
LEMMA ClearedType ==
  ASSUME IInv, NEW g, Cleared(g), UNCHANGED filter,
         fate' \in [1 .. MaxLives -> {"unused", "leased", "released", "dead"}]
  PROVE  Bookkeeping'
BY BoundsAssumption DEF IInv, Bookkeeping, Cleared

\* A call gets the call lock.
LEMMA AdmitKeeps == ASSUME IInv, NEW c \in Clients, Admit(c) PROVE IInv'
<1> DEFINE g == call[c].lease
<1>1. /\ call[c] \in Records /\ AtWork(call[c]) /\ call[c].loss # "fatal" /\ call[c].phase = "queued"
      /\ g \in 1 .. MaxLives
  BY Working DEF Admit, IInv, CallsSound, Sound
<1>2. UNCHANGED <<filter, fate>>
  BY DEF Admit
<1>3. CASE /\ fate[g] = "leased"
           /\ call' = [call EXCEPT ![c].phase = "child", ![c].at = 1]
           /\ UNCHANGED <<lease, pinned>>
  <2> DEFINE r == [call[c] EXCEPT !.phase = "child", !.at = 1]
  <2>1. call' = [call EXCEPT ![c] = r]
    <3>1. call \in [Clients -> Records]
      BY DEF IInv, CallsSound
    <3> QED BY <1>3, <3>1
  <2>2. r \in Records
    <3>1. "child" \in Phases /\ 1 \in 0 .. 2
      BY DEF Phases
    <3> QED BY <1>1, <3>1, Updates, Zenon
  <2>3. /\ r.phase = "child" /\ r.lease = g /\ r.loss = call[c].loss
        /\ r.left = call[c].left /\ r.step = call[c].step /\ r.route = call[c].route
    BY <1>1 DEF Records
  <2> HIDE DEF r
  <2>4. Sound(r)
    BY <1>1, <2>2, <2>3 DEF Sound, AtWork
  <2>5. Bookkeeping'
    BY <1>2, <1>3 DEF IInv, Bookkeeping
  <2>6. \A d \in Clients \ {c} : ~(call[d].phase = "child" /\ call[d].lease = r.lease)
    BY <2>3 DEF Admit
  <2>7. fate[r.lease] = "leased"
    BY <1>3, <2>3
  <2> QED BY <1>2, <2>1, <2>4, <2>5, <2>6, <2>7, Enters
<1>4. CASE /\ Cleared(g)
           /\ \/ Deliver(c, [call[c] EXCEPT !.loss = "fatal"], "WorkerCrashed")
              \/ \E e : Deliver(c, call[c], e)
  <2>1. Bookkeeping'
    BY <1>2, <1>4, ClearedType DEF IInv, Bookkeeping
  <2>2. {"none", "fatal"} \subseteq Losses /\ is_fatal("WorkerCrashed")
    BY DEF Losses, is_fatal
  <2>3. CASE Deliver(c, [call[c] EXCEPT !.loss = "fatal"], "WorkerCrashed")
    BY <1>1, <1>2, <2>1, <2>2, <2>3, Delivers
  <2>4. ASSUME NEW e, Deliver(c, call[c], e) PROVE IInv'
    BY <1>1, <1>2, <2>1, <2>2, <2>4, Delivers
  <2> QED BY <1>4, <2>3, <2>4
<1> QED BY <1>3, <1>4 DEF Admit

\* The worker never saw the call.
LEMMA RefuseKeeps == ASSUME IInv, NEW c \in Clients, Refuse(c) PROVE IInv'
<1>1. Bookkeeping' /\ "none" \in Losses /\ call[c].phase # "done"
  BY DEF IInv, Bookkeeping, Refuse, Losses
<1> QED BY <1>1, Delivers DEF Refuse

-----------------------------------------------------------------------------
(* The child's answer.                                                     *)

\* A worker is lost during a call: the session learns of it, by an error that
\* ends a batch.
LEMMA LoseKeeps ==
  ASSUME IInv, NEW c \in Clients, call[c].phase = "child", NEW e, NEW why \in Losses,
         Lose(c, e, why), UNCHANGED filter, e # "none",
         why = "fatal" => is_fatal(e) \/ ~Plain(Current(c))
  PROVE  IInv'
<1> DEFINE g == call[c].lease
           reported == LossReported(Current(c), e, pinned /\ lease = g)
<1>1. AtWork(call[c]) /\ g \in 1 .. MaxLives
  BY Working DEF IInv, CallsSound, Sound
<1>2. fate' = [fate EXCEPT ![g] = "dead"] /\ Cleared(g)
      /\ Deliver(c, [call[c] EXCEPT !.loss = why], reported)
  BY DEF Lose
<1>3. reported # "none" /\ (is_fatal(e) => is_fatal(reported))
  BY DEF LossReported, is_fatal
<1>4. call[c].route.many => Plain(Current(c))
  BY <1>1 DEF AtWork, Batch, Current
<1>5. Bookkeeping'
  <2>1. fate' \in [1 .. MaxLives -> {"unused", "leased", "released", "dead"}]
    BY <1>2 DEF IInv, Bookkeeping
  <2> QED BY <1>2, <2>1, ClearedType
<1>6. \A h \in 1 .. MaxLives : fate'[h] = fate[h] \/ h = g
  BY <1>1, <1>2 DEF IInv, Bookkeeping
<1> HIDE DEF reported
<1> QED BY <1>2, <1>3, <1>4, <1>5, <1>6, Delivers

\* What a method makes of the child's answer.
LEMMA ReceiveKeeps ==
  ASSUME IInv, NEW c \in Clients, call[c].phase = "child", NEW e, NEW why \in Losses,
         Receive(c, e, why), UNCHANGED filter,
         why = "fatal" /\ Retires(Current(c), e) => is_fatal(e) \/ ~Plain(Current(c))
  PROVE  IInv'
<1> DEFINE g == call[c].lease
<1>1. call[c] \in Records /\ call[c].loss # "fatal" /\ g \in 1 .. MaxLives /\ "none" \in Losses
  BY Working DEF IInv, CallsSound, Sound, Losses
<1>2. CASE Retires(Current(c), e)
  <2>1. e # "none"
    BY <1>2 DEF Retires
  <2>2. Lose(c, e, why)
    BY <1>2 DEF Receive
  <2> QED BY <1>2, <2>1, <2>2, LoseKeeps
<1>3. ASSUME NEW d, Deliver(c, call[c], d), lease' \in {0, lease}, pinned' \in BOOLEAN,
             fate' \in {fate, [fate EXCEPT ![g] = "released"]}
      PROVE  IInv'
  <2>1. fate' \in [1 .. MaxLives -> {"unused", "leased", "released", "dead"}]
    BY <1>3 DEF IInv, Bookkeeping
  <2>2. lease' \in 0 .. MaxLives
    BY <1>3, BoundsAssumption DEF IInv, Bookkeeping
  <2>3. Bookkeeping'
    BY <1>3, <2>1, <2>2 DEF IInv, Bookkeeping
  <2>4. \A h \in 1 .. MaxLives : fate'[h] = fate[h] \/ h = g
    BY <1>1, <1>3 DEF IInv, Bookkeeping
  <2> QED BY <1>1, <1>3, <2>3, <2>4, Delivers
<1>4. pinned \in BOOLEAN
  BY DEF IInv, Bookkeeping
<1>5. CASE SettleOpen(c, e)
  BY <1>3, <1>4, <1>5 DEF SettleOpen
<1>6. CASE SettleClose(c, e)
  BY <1>3, <1>4, <1>6 DEF SettleClose
<1>7. CASE Settle(c, e)
  <2>1. pinned' \in BOOLEAN
    BY <1>4, <1>7, Zenon DEF Settle
  <2>2. fate' = fate /\ lease' = lease
    BY <1>7 DEF Settle
  <2>3. \E d : Deliver(c, call[c], d)
    BY <1>7 DEF Settle
  <2> QED BY <1>3, <2>1, <2>2, <2>3
<1> QED BY <1>2, <1>5, <1>6, <1>7 DEF Receive

\* Every way a call in the child ends.
LEMMA ChildKeeps ==
  ASSUME IInv, NEW c \in Clients,
         Succeed(c) \/ Fail(c) \/ FindClosed(c) \/ CrashInSdk(c) \/ Deadline(c) \/ Die(c)
  PROVE  IInv'
<1> USE DEF Losses
<1>1. call[c].phase = "child" /\ UNCHANGED filter
  BY DEF Succeed, Fail, FindClosed, CrashInSdk, Deadline, Die
<1>2. CASE Succeed(c)
  <2>1. CASE Current(c).follow /\ call[c].at = 1
    <3> DEFINE r == [call[c] EXCEPT !.at = 2]
    <3>1. call' = [call EXCEPT ![c] = r] /\ UNCHANGED <<filter, lease, fate, pinned>>
      <4>1. call \in [Clients -> Records]
        BY DEF IInv, CallsSound
      <4> QED BY <1>2, <2>1, <4>1 DEF Succeed
    <3>2. call[c] \in Records /\ 2 \in 0 .. 2
      BY Working, <1>1
    <3>3. r \in Records
      BY <3>2, Updates, Zenon
    <3>4. /\ r.phase = "child" /\ r.lease = call[c].lease /\ r.loss = call[c].loss
          /\ r.left = call[c].left /\ r.step = call[c].step /\ r.route = call[c].route
      BY <1>1, <3>2 DEF Records
    <3> HIDE DEF r
    <3>5. Sound(r)
      BY <1>1, <3>3, <3>4 DEF IInv, CallsSound, Sound, AtWork
    <3>6. \A d \in Clients \ {c} : ~(call[d].phase = "child" /\ call[d].lease = r.lease)
      BY <1>1, <3>4 DEF IInv, OneInChild
    <3>7. fate[r.lease] = "leased"
      BY <1>1, <3>4 DEF IInv, RunsOnItsLease
    <3>8. Bookkeeping'
      BY <3>1 DEF IInv, Bookkeeping
    <3> QED BY <3>1, <3>5, <3>6, <3>7, <3>8, Enters
  <2>2. CASE ~(Current(c).follow /\ call[c].at = 1)
    <3>1. \E e : Receive(c, e, "none")
      BY <1>2, <2>2 DEF Succeed
    <3> QED BY <1>1, <3>1, ReceiveKeeps
  <2> QED BY <2>1, <2>2
<1>3. CASE Fail(c)
  <2>1. PICK e \in Wordings(Current(c)) \cup {"RemoteCall"} :
          IF call[c].at = 2 THEN Receive(c, "none", "none")
          ELSE Receive(c, e, IF e = "WorkerClosed" THEN "misread" ELSE "fatal")
    BY <1>3 DEF Fail
  <2>2. CASE call[c].at = 2
    BY <1>1, <2>1, <2>2, ReceiveKeeps
  <2>3. CASE call[c].at # 2 /\ e = "WorkerClosed"
    <3>1. Receive(c, e, "misread")
      BY <2>1, <2>3
    <3> QED BY <1>1, <3>1, ReceiveKeeps
  <2>4. CASE call[c].at # 2 /\ e # "WorkerClosed"
    <3>1. Receive(c, e, "fatal")
      BY <2>1, <2>4
    <3>2. Retires(Current(c), e) => ~Plain(Current(c))
      BY <2>4 DEF Retires, Plain, Wordings
    <3> QED BY <1>1, <3>1, <3>2, ReceiveKeeps
  <2> QED BY <2>2, <2>3, <2>4
<1>4. CASE FindClosed(c)
  BY <1>1, <1>4, ReceiveKeeps DEF FindClosed
<1>5. CASE CrashInSdk(c)
  <2>1. is_fatal("SdkCrashed")
    BY DEF is_fatal
  <2> QED BY <1>1, <1>5, <2>1, ReceiveKeeps DEF CrashInSdk
<1>6. CASE Deadline(c) \/ Die(c)
  <2>1. is_fatal("WorkerRetired") /\ is_fatal("WorkerCrashed")
    BY DEF is_fatal
  <2> QED BY <1>1, <1>6, <2>1, LoseKeeps DEF Deadline, Die
<1> QED BY <1>2, <1>3, <1>4, <1>5, <1>6

\* Every step keeps the invariant.
LEMMA Invariance == Spec => []IInv
<1>1. IInv /\ [Next]_vars => IInv'
  <2> SUFFICES ASSUME IInv, [Next]_vars PROVE IInv'
    OBVIOUS
  <2>1. CASE UNCHANGED vars
    BY <2>1 DEF vars, IInv, Bookkeeping, CallsSound, OneInChild, RunsOnItsLease
  <2>2. ASSUME NEW c \in Clients, Call(c) \/ Proceed(c) PROVE IInv'
    BY <2>2, CallKeeps, ResolveKeeps, AdmitKeeps, RefuseKeeps, ChildKeeps DEF Proceed
  <2> QED BY <2>1, <2>2 DEF Next
<1> QED BY <1>1, InitSound, PTL DEF Spec

-----------------------------------------------------------------------------
(* Theorems.                                                               *)

\* Every variable of the tool calls has its type in every reachable state.
THEOREM TypeCorrect == Spec => []TypeOK
<1>1. IInv => TypeOK
  <2> SUFFICES ASSUME IInv, NEW c \in Clients
               PROVE  /\ call[c].phase \in Phases /\ call[c].left \in 0 .. MaxItems
                      /\ call[c].lease \in 0 .. MaxLives /\ call[c].at \in 0 .. 2
                      /\ call[c].step \in 0 .. Len(call[c].route.steps)
                      /\ call[c].loss \in Losses
                      /\ call[c].reply \in {"none", "ok", "error", "disabled"}
    BY DEF IInv, Bookkeeping, TypeOK
  <2>1. Sound(call[c])
    BY DEF IInv, CallsSound
  <2>2. Len(call[c].route.steps) \in Nat
    <3>1. call[c].route.steps \in StepLists
      BY <2>1 DEF Sound, Records, Routes
    <3> QED BY <3>1, OfferedRoutes DEF StepLists
  <2>3. call[c].step \in 0 .. Len(call[c].route.steps)
    BY <2>1, <2>2 DEF Sound, AtWork
  <2> QED BY <2>1, <2>3 DEF Sound, Records
<1> QED BY <1>1, Invariance, PTL

\* A call only runs in a child on the lease it was resolved to, while that
\* lease is one (call_tool_admitted): the call lock keeps every other call
\* from giving the lease up meanwhile.
THEOREM CallsRunOnTheirLease == Spec => []RunsOnItsLease
<1>1. IInv => RunsOnItsLease
  BY DEF IInv
<1> QED BY <1>1, Invariance, PTL

\* A call during which the worker crashed, died or was killed, and that learns it
\* as a fatal error, is answered with an error, however many items it has
\* (is_fatal): the only such losses a batch could swallow are of opens, closes
\* and debugger requests, and no batch makes those.  WorkerClosed is not fatal.
THEOREM LostWorkersSurface == Spec => []FatalSurfaces
<1>1. IInv => FatalSurfaces
  BY DEF IInv, CallsSound, Sound, FatalSurfaces
<1> QED BY <1>1, Invariance, PTL

\* Whatever a handler asks of its pooled backend, the child asks its IDA thread
\* for the same request, then at most for reads, and answers in the form the
\* parent expects (RoutesAgree): every step of every route a server can offer
\* agrees, whatever filter it was started with.
THEOREM RoutesAreFaithful == Spec => []RoutesAgree
<1>1. IInv => RoutesAgree
  <2> SUFFICES ASSUME IInv, NEW c \in Clients, call[c].phase = "child"
               PROVE  Current(c).agrees /\ Current(c).understood
    BY DEF RoutesAgree
  <2>1. call[c] \in Records /\ AtWork(call[c])
    BY Working
  <2>2. call[c].route.steps \in StepLists
    BY <2>1 DEF Records, Routes
  <2>3. Agreeing(call[c].route.steps)
    BY <2>2, OfferedRoutes DEF StepLists
  <2> QED BY <2>1, <2>3 DEF Agreeing, AtWork, Current
<1> QED BY <1>1, Invariance, PTL

\* A call at work runs the steps of a tool the server offers under its filter.
FromFilter ==
  \A c \in Clients : call[c].phase # "done" =>
    \E r \in Offered[filter] : call[c].route.kept = r.kept /\ call[c].route.steps = r.steps

\* A step of a call either ends it or leaves it on its route.
StaysOnRoute(c) ==
  \E r : /\ call' = [call EXCEPT ![c] = r]
         /\ r.phase = "done" \/ (r.route = call[c].route /\ call[c].phase # "done")

\* A result that is delivered ends the call or leaves it on its route.
LEMMA DeliverStays ==
  ASSUME IInv, NEW c \in Clients, NEW r \in Records, r.route = call[c].route,
         AtWork(r), call[c].phase # "done", NEW e, Deliver(c, r, e)
  PROVE  StaysOnRoute(c)
<1> DEFINE q == [r EXCEPT !.at = 0]
           D == Delivered(q, e)
<1>1. q \in Records /\ q.route = r.route /\ q.left \in 1 .. MaxItems
  BY DEF Records, AtWork
<1>2. D \in Records /\ (D.phase = "done" \/ D.route = q.route)
  <2> HIDE DEF q
  <2>1. \A reply \in {"ok", "error"} :
          Answered(q, reply) \in Records /\ Answered(q, reply).phase = "done"
    BY <1>1, IdleSound DEF Sound, Answered, Records
  <2>2. CASE e = "none" /\ q.step < Len(q.route.steps)
    <3>1. D = [q EXCEPT !.phase = "next", !.step = q.step + 1]
      BY <2>2 DEF Delivered
    <3>2. q.step + 1 \in Nat /\ "next" \in Phases
      BY <1>1 DEF Records, Phases
    <3> HIDE DEF D
    <3> QED BY <1>1, <3>1, <3>2 DEF Records
  <2>3. CASE \E reply \in {"ok", "error"} : D = Answered(q, reply)
    BY <2>1, <2>3, Zenon
  <2>4. CASE D = [q EXCEPT !.phase = "next", !.left = q.left - 1]
    <3>1. q.left - 1 \in 0 .. MaxItems /\ "next" \in Phases
      BY <1>1, BoundsAssumption DEF Phases
    <3> HIDE DEF D
    <3>2. D \in Records
      BY <1>1, <2>4, <3>1, Updates, Zenon
    <3> QED BY <1>1, <2>4, <3>2 DEF Records
  <2> QED BY <2>2, <2>3, <2>4 DEF Delivered
<1> HIDE DEF D, q
<1>3. call' = [call EXCEPT ![c] = [D EXCEPT !.lease = 0, !.fresh = FALSE]]
  BY DEF Deliver, D, q
<1>4. /\ [D EXCEPT !.lease = 0, !.fresh = FALSE].phase = D.phase
      /\ [D EXCEPT !.lease = 0, !.fresh = FALSE].route = D.route
  BY <1>2 DEF Records
<1> QED BY <1>1, <1>2, <1>3, <1>4 DEF StaysOnRoute

\* Every step of a call at work stays on its route, and no step changes the
\* filter.
LEMMA ProceedStays ==
  ASSUME IInv, NEW c \in Clients, Proceed(c)
  PROVE  filter' = filter /\ StaysOnRoute(c)
<1> USE DEF Losses
<1>1. filter' = filter /\ call[c].phase # "done"
  BY DEF Proceed, Resolve, Admit, Refuse, Succeed, Fail, FindClosed, CrashInSdk, Deadline, Die
<1>2. call[c] \in Records /\ AtWork(call[c]) /\ call \in [Clients -> Records]
  BY <1>1, Working DEF IInv, CallsSound
<1>3. ASSUME NEW e, Deliver(c, call[c], e) PROVE StaysOnRoute(c)
  BY <1>1, <1>2, <1>3, DeliverStays
<1>4. ASSUME NEW e, NEW l \in Losses, Deliver(c, [call[c] EXCEPT !.loss = l], e)
      PROVE  StaysOnRoute(c)
  <2> DEFINE r == [call[c] EXCEPT !.loss = l]
  <2>1. r \in Records
    BY <1>2, Updates
  <2>2. AtWork(r) /\ r.route = call[c].route
    BY <1>2 DEF Records, AtWork
  <2>3. Deliver(c, r, e)
    BY <1>4
  <2> HIDE DEF r
  <2> QED BY <1>1, <2>1, <2>2, <2>3, DeliverStays
<1>5. ASSUME NEW e, NEW why \in Losses, Lose(c, e, why) PROVE StaysOnRoute(c)
  <2>1. \E d : Deliver(c, [call[c] EXCEPT !.loss = why], d)
    BY <1>5 DEF Lose
  <2> QED BY <1>4, <2>1
<1>6. ASSUME NEW e, NEW why \in Losses, Receive(c, e, why) PROVE StaysOnRoute(c)
  <2>1. CASE Lose(c, e, why)
    BY <1>5, <2>1
  <2>2. CASE SettleOpen(c, e) \/ SettleClose(c, e) \/ Settle(c, e)
    <3>1. \E d : Deliver(c, call[c], d)
      BY <2>2 DEF SettleOpen, SettleClose, Settle
    <3> QED BY <1>3, <3>1
  <2> QED BY <1>6, <2>1, <2>2 DEF Receive
<1>7. ASSUME NEW p, NEW g, NEW b,
             call' = [call EXCEPT ![c].phase = p, ![c].lease = g, ![c].fresh = b]
      PROVE  StaysOnRoute(c)
  <2> DEFINE r == [call[c] EXCEPT !.phase = p, !.lease = g, !.fresh = b]
  <2>1. call' = [call EXCEPT ![c] = r]
    BY <1>2, <1>7
  <2>2. r.route = call[c].route
    BY <1>2 DEF Records
  <2> QED BY <1>1, <2>1, <2>2 DEF StaysOnRoute
<1>8. ASSUME NEW p, NEW n, call' = [call EXCEPT ![c].phase = p, ![c].at = n]
      PROVE  StaysOnRoute(c)
  <2> DEFINE r == [call[c] EXCEPT !.phase = p, !.at = n]
  <2>1. call' = [call EXCEPT ![c] = r]
    BY <1>2, <1>8
  <2>2. r.route = call[c].route
    BY <1>2 DEF Records
  <2> QED BY <1>1, <2>1, <2>2 DEF StaysOnRoute
<1>9. ASSUME NEW n, call' = [call EXCEPT ![c].at = n] PROVE StaysOnRoute(c)
  <2> DEFINE r == [call[c] EXCEPT !.at = n]
  <2>1. call' = [call EXCEPT ![c] = r]
    BY <1>2, <1>9
  <2>2. r.route = call[c].route
    BY <1>2 DEF Records
  <2> QED BY <1>1, <2>1, <2>2 DEF StaysOnRoute
<1>10. CASE Resolve(c)
  <2>1. \/ \E g, b : call' = [call EXCEPT ![c].phase = "queued", ![c].lease = g, ![c].fresh = b]
        \/ \E e : Deliver(c, call[c], e)
    BY <1>10 DEF Resolve
  <2> QED BY <1>1, <1>3, <1>7, <2>1, Zenon
<1>11. CASE Admit(c)
  <2>1. \/ call' = [call EXCEPT ![c].phase = "child", ![c].at = 1]
        \/ Deliver(c, [call[c] EXCEPT !.loss = "fatal"], "WorkerCrashed")
        \/ \E e : Deliver(c, call[c], e)
    BY <1>11 DEF Admit
  <2> QED BY <1>1, <1>3, <1>4, <1>8, <2>1, Zenon
<1>12. CASE Refuse(c)
  BY <1>1, <1>3, <1>12 DEF Refuse
<1>13. CASE Succeed(c)
  <2>1. call' = [call EXCEPT ![c].at = 2] \/ \E e : Receive(c, e, "none")
    BY <1>13 DEF Succeed
  <2> QED BY <1>1, <1>6, <1>9, <2>1, Zenon
<1>14. CASE Fail(c) \/ FindClosed(c) \/ CrashInSdk(c)
  <2>1. \E e : \E why \in Losses : Receive(c, e, why)
    BY <1>14 DEF Fail, FindClosed, CrashInSdk
  <2> QED BY <1>1, <1>6, <2>1, Zenon
<1>15. CASE Deadline(c) \/ Die(c)
  BY <1>1, <1>5, <1>15 DEF Deadline, Die
<1> QED BY <1>1, <1>10, <1>11, <1>12, <1>13, <1>14, <1>15 DEF Proceed

\* A call begins on a route of the filter.
LEMMA CallFromFilter ==
  ASSUME IInv, FromFilter, NEW c \in Clients, Call(c)
  PROVE  FromFilter'
<1>1. filter' = filter /\ call \in [Clients -> Records]
  BY DEF Call, IInv, CallsSound
<1>2. Idle \in Records /\ Idle.phase = "done"
  BY IdleSound DEF Sound
<1>3. ASSUME NEW reply, call' = [call EXCEPT ![c] = [Idle EXCEPT !.reply = reply]]
      PROVE  FromFilter'
  <2>1. [Idle EXCEPT !.reply = reply].phase = "done"
    BY <1>2 DEF Records
  <2> QED BY <1>1, <1>3, <2>1 DEF FromFilter
<1>4. ASSUME NEW r \in Offered[filter], NEW n \in 1 .. MaxItems,
             call' = [call EXCEPT ![c] =
               [Idle EXCEPT !.phase = "next", !.route = r, !.left = n, !.step = 1,
                            !.route.many = (n > 1)]]
      PROVE  FromFilter'
  <2> DEFINE q == [r EXCEPT !.many = (n > 1)]
             w == [Idle EXCEPT !.phase = "next", !.route = r, !.left = n, !.step = 1,
                               !.route.many = (n > 1)]
  <2>1. r \in Routes
    BY OfferedRoutes DEF IInv, Bookkeeping
  <2>2. q.kept = r.kept /\ q.steps = r.steps
    BY <2>1 DEF Routes
  <2>3. w = [Idle EXCEPT !.phase = "next", !.route = q, !.left = n, !.step = 1]
    BY <1>2 DEF Records
  <2> HIDE DEF q, w
  <2>4. w.route = q
    BY <1>2, <2>3 DEF Records
  <2>5. call'[c] = w /\ \A d \in Clients \ {c} : call'[d] = call[d]
    BY <1>1, <1>4 DEF w
  <2> QED BY <1>1, <2>2, <2>4, <2>5 DEF FromFilter
<1>5. CASE call' = [call EXCEPT ![c] = [Idle EXCEPT !.reply = "disabled"]]
  BY <1>3, <1>5
<1>6. ASSUME NEW r \in Offered[filter], NEW n \in 1 .. MaxItems,
             call' = [call EXCEPT ![c] =
                  IF r.steps = <<>> THEN [Idle EXCEPT !.reply = "ok"]
                  ELSE [Idle EXCEPT !.phase = "next", !.route = r, !.left = n, !.step = 1,
                          !.route.many = (n > 1)]]
      PROVE  FromFilter'
  <2>1. CASE r.steps = <<>>
    <3>1. call' = [call EXCEPT ![c] = [Idle EXCEPT !.reply = "ok"]]
      BY <1>6, <2>1, Zenon
    <3> QED BY <1>3, <3>1
  <2>2. CASE r.steps # <<>>
    <3>1. call' = [call EXCEPT ![c] =
               [Idle EXCEPT !.phase = "next", !.route = r, !.left = n, !.step = 1,
                            !.route.many = (n > 1)]]
      BY <1>6, <2>2, Zenon
    <3> QED BY <1>4, <3>1
  <2> QED BY <2>1, <2>2
<1> QED BY <1>5, <1>6 DEF Call

\* --read-only leaves nothing that changes a database except the tools it keeps
\* on purpose (ReadOnlyHolds): a call runs the route of a tool the filter
\* offered, no step leaves that route, and a tool that is neither denied nor
\* kept has only steps that read.
THEOREM ReadOnlyServersRead == Spec => []ReadOnlyHolds
<1>1. Init => FromFilter
  BY IdleSound DEF Init, FromFilter
<1>2. IInv /\ FromFilter /\ [Next]_vars => FromFilter'
  <2> SUFFICES ASSUME IInv, FromFilter, [Next]_vars PROVE FromFilter'
    OBVIOUS
  <2>1. CASE UNCHANGED vars
    BY <2>1 DEF vars, FromFilter
  <2>2. ASSUME NEW c \in Clients, Call(c) PROVE FromFilter'
    BY <2>2, CallFromFilter
  <2>3. ASSUME NEW c \in Clients, Proceed(c) PROVE FromFilter'
    <3>1. filter' = filter /\ StaysOnRoute(c)
      BY <2>3, ProceedStays
    <3>2. PICK r : /\ call' = [call EXCEPT ![c] = r]
                   /\ r.phase = "done" \/ (r.route = call[c].route /\ call[c].phase # "done")
      BY <3>1 DEF StaysOnRoute
    <3>3. call'[c] = r /\ \A d \in Clients \ {c} : call'[d] = call[d]
      BY <3>2 DEF IInv, CallsSound
    <3> QED BY <3>1, <3>2, <3>3 DEF FromFilter
  <2> QED BY <2>1, <2>2, <2>3 DEF Next
<1>3. IInv /\ FromFilter => ReadOnlyHolds
  <2> SUFFICES ASSUME IInv, FromFilter, NEW c \in Clients,
                      filter.readOnly, call[c].phase = "child", ~call[c].route.kept
               PROVE  Current(c).effect = "read"
    BY DEF ReadOnlyHolds
  <2>1. PICK r \in Offered[filter] : call[c].route.kept = r.kept /\ call[c].route.steps = r.steps
    BY DEF FromFilter
  <2>2. OnlyReads(call[c].route.steps)
    BY <2>1, OfferedRoutes DEF IInv, Bookkeeping
  <2>3. AtWork(call[c])
    BY Working
  <2> QED BY <2>2, <2>3 DEF OnlyReads, AtWork, Current
<1> QED BY <1>1, <1>2, <1>3, Invariance, PTL DEF Spec
=============================================================================
