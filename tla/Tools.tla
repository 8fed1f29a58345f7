-------------------------------- MODULE Tools --------------------------------
(***************************************************************************)
(* The MCP tools as tables: which methods of the worker backend each       *)
(* handler calls and what its reply looks like (server/mod.rs), what the   *)
(* backend forwards to in a worker process (worker.rs) and in a pooled     *)
(* server, where the method becomes a tool call to a child (pool.rs), and  *)
(* which tools a configuration offers (tool_registry.rs, tool_filter.rs).  *)
(* Arguments, descriptions and schemas are left out.                       *)
(***************************************************************************)
EXTENDS Sequences, Requests

-----------------------------------------------------------------------------
(* A handler.  plans has the methods it calls, in order, for each variant  *)
(* of its arguments; many: it repeats them for every address or pattern it *)
(* was given; form is the reply to a single one.                           *)

Serves(plan) == [plans |-> [default |-> plan], many |-> FALSE, form |-> "json"]

Single(m) == Serves(<<m>>)

Many(m) == [Single(m) EXCEPT !.many = TRUE]

AsText(h) == [h EXCEPT !.form = "text"]

(* Answered by the server itself.                                          *)
Own == Serves(<<>>)

OpenTools == [open_idb |-> Single("open_observed_with_generation")]

DebugTools ==
  [load_debug_info |-> Single("load_debug_info"), debug_status |-> Own,
   debug_launch |-> Single("debug_launch"), debug_attach |-> Single("debug_attach"),
   debug_modules |-> Single("debug_modules"), debug_stop |-> Single("debug_stop")]

(* On the database that holds the debugger session; the database it then   *)
(* opens is a separate handle.                                             *)
ModuleTools ==
  [debug_open_module |-> [Own EXCEPT !.plans =
     [file |-> <<"debug_modules">>, cached |-> <<"debug_modules", "idb_meta">>]]]

LifecycleTools ==
  [analysis_status |-> Single("analysis_status"), save_idb |-> Single("save_database"),
   close_idb |-> Single("close")]

CatalogTools == [tool_catalog |-> Own, tool_help |-> Own]

FunctionTools ==
  [list_functions |-> Single("list_functions"),
   resolve_function |-> Single("resolve_function"),
   addr_info |-> Single("addr_info"), function_at |-> Single("function_at"),
   disasm |-> AsText(Many("disasm"))]

ListingTools ==
  [render_range |-> Single("render_range"),
   disasm_by_name |-> AsText(Single("disasm_by_name")),
   disasm_function_at |-> AsText(Single("disasm_function_at")),
   decompile |-> AsText(Many("decompile")), list_lvars |-> Single("list_lvars")]

PseudocodeTools ==
  [rename_lvar |-> Single("rename_lvar"), set_lvar_type |-> Single("set_lvar_type"),
   list_pseudocode_comments |-> Single("list_pseudocode_comments"),
   set_pseudocode_comment |-> Single("set_pseudocode_comment")]

StringTools ==
  [pseudocode_at |-> Many("pseudocode_at"), segments |-> Single("segments"),
   strings |-> Single("strings"), find_string |-> Single("find_string")]

XrefTools ==
  [xrefs_to_string |-> Single("xrefs_to_string"), xrefs_to |-> Many("xrefs_to"),
   xrefs_from |-> Many("xrefs_from"), imports |-> Single("imports"),
   exports |-> Single("exports"), entrypoints |-> Single("entrypoints")]

ByteTools ==
  [get_bytes |-> Many("get_bytes"), list_patches |-> Single("list_patches"),
   basic_blocks |-> Many("basic_blocks")]

CallTools ==
  [callees |-> Many("callees"), callers |-> Many("callers"),
   idb_meta |-> Single("idb_meta"), lookup_funcs |-> Single("lookup_funcs")]

(* Both searches answer with one list of matches per pattern.              *)
SearchTools ==
  [list_globals |-> Single("list_globals"), analyze_strings |-> Single("analyze_strings"),
   find_bytes |-> [Many("find_bytes") EXCEPT !.form = "matches"]]

TargetTools ==
  [search |-> [plans |-> [text |-> <<"search_text">>, imm |-> <<"search_imm">>],
               many |-> TRUE, form |-> "matches"],
   read_int |-> Many("read_int")]

ValueTools ==
  [get_string |-> Many("get_string"), get_global_value |-> Many("get_global_value"),
   find_paths |-> Single("find_paths")]

GraphTools ==
  [callgraph |-> Many("callgraph"), xref_matrix |-> Single("xref_matrix"),
   export_funcs |-> [Own EXCEPT !.plans = [named |-> <<"lookup_funcs">>, all |-> <<"export_funcs">>]]]

TypeTools ==
  [local_types |-> Single("local_types"), xrefs_to_field |-> Single("xrefs_to_field"),
   lumina_lookup |-> Single("lumina_lookup"), lumina_apply |-> Single("lumina_apply"),
   set_comments |-> Single("set_comments")]

StackTools ==
  [patch_asm |-> Single("patch_asm"), declare_type |-> Single("declare_type"),
   stack_frame |-> Single("stack_frame"), declare_stack |-> Single("declare_stack"),
   delete_stack |-> Single("delete_stack")]

StructTools ==
  [structs |-> Single("structs"), struct_info |-> Single("struct_info"),
   read_struct |-> Many("read_struct"), search_structs |-> Single("structs")]

InsnTools ==
  [find_insns |-> Single("find_insns"), find_insn_operands |-> Single("find_insn_operands"),
   apply_types |-> Single("apply_types"), infer_types |-> Single("infer_types")]

(* Without a deadline in a worker process told so by its parent, and in    *)
(* the background task of a server.                                        *)
AnalyzeTools ==
  [analyze_funcs |-> [Own EXCEPT !.plans =
     [default |-> <<"analyze_funcs_observed">>,
      unbounded |-> <<"analyze_funcs_unbounded_observed">>]]]

EditTools == [rename |-> Single("rename"), patch |-> Single("patch_bytes")]

(* A second request asks for the analysis status of the loaded image.      *)
CacheTools ==
  [dsc_add_dylib |-> [Serves(<<"dsc_load_image", "analysis_status">>) EXCEPT !.form = "image"],
   dsc_add_region |-> [Serves(<<"dsc_load_region", "analysis_status">>) EXCEPT !.form = "region"]]

RuntimeTools == [list_databases |-> Own, task_status |-> Own, recent_operations |-> Own]

ScriptTools == [run_script |-> Single("run_script_observed")]

(* Every tool but open_dsc, whose background driver is a task of its own.  *)
Handlers ==
  Merged({OpenTools, DebugTools, ModuleTools, LifecycleTools, CatalogTools, FunctionTools,
          ListingTools, PseudocodeTools, StringTools, XrefTools, ByteTools, CallTools,
          SearchTools, TargetTools, ValueTools, GraphTools, TypeTools, StackTools, StructTools,
          InsnTools, AnalyzeTools, EditTools, CacheTools, RuntimeTools, ScriptTools})

-----------------------------------------------------------------------------
(* WorkerBackend::Local: the method of IdaWorker that serves each method   *)
(* of the backend.                                                         *)

SameName(S) == [m \in S |-> m]

LocalControl ==
  SameName({"render_range", "open_observed_with_generation", "close"})

LocalDebug ==
  SameName({"load_debug_info", "debug_launch", "debug_attach", "debug_modules", "debug_stop"})

LocalAnalysis ==
  [analysis_status |-> "analysis_status_for_generation",
   dsc_load_image |-> "dsc_load_image_for_generation"]
  @@ SameName({"dsc_load_region", "list_functions", "resolve_function", "disasm_by_name",
               "disasm", "decompile", "list_lvars"})

LocalTypes ==
  SameName({"rename_lvar", "set_lvar_type", "list_pseudocode_comments",
            "set_pseudocode_comment", "segments", "strings", "local_types", "declare_type"})

LocalStack ==
  SameName({"apply_types", "infer_types", "addr_info", "function_at", "disasm_function_at",
            "declare_stack", "delete_stack"})

LocalStructs ==
  SameName({"stack_frame", "structs", "struct_info", "read_struct", "xrefs_to", "xrefs_from",
            "xrefs_to_field", "imports", "exports", "entrypoints", "lumina_lookup",
            "lumina_apply"})

LocalPatches ==
  SameName({"get_bytes", "list_patches", "set_comments", "rename", "patch_bytes", "patch_asm",
            "basic_blocks", "callees", "callers", "idb_meta", "lookup_funcs", "list_globals",
            "analyze_strings"})

LocalSearch ==
  [analyze_funcs_unbounded_observed |-> "analyze_funcs_observed"]
  @@ SameName({"find_string", "xrefs_to_string", "analyze_funcs_observed", "find_bytes",
               "search_text", "search_imm"})

LocalScripts ==
  SameName({"find_insns", "find_insn_operands", "read_int", "save_database", "get_string",
            "get_global_value", "find_paths", "callgraph", "xref_matrix", "export_funcs",
            "run_script_observed", "pseudocode_at"})

Local ==
  Merged({LocalControl, LocalDebug, LocalAnalysis, LocalTypes, LocalStack, LocalStructs,
          LocalPatches, LocalSearch, LocalScripts})

-----------------------------------------------------------------------------
(* WorkerBackend::Pooled: the tool the parent calls in its child for each  *)
(* method, for a single item, and the form it expects of the reply.        *)

Asks(tool, variant, form) == [tool |-> tool, variant |-> variant, form |-> form]

Json(tool) == Asks(tool, "default", "json")

Text(tool) == Asks(tool, "default", "text")

SameTool(S) == [m \in S |-> Json(m)]

PooledOpen ==
  [open_observed_with_generation |-> Json("open_idb"), close |-> Json("close_idb")]

PooledDebug ==
  SameTool({"load_debug_info", "debug_launch", "debug_attach", "debug_modules", "debug_stop"})

PooledAnalysis ==
  [dsc_load_image |-> Asks("dsc_add_dylib", "default", "image"),
   dsc_load_region |-> Asks("dsc_add_region", "default", "region"),
   disasm_by_name |-> Text("disasm_by_name"), disasm |-> Text("disasm"),
   decompile |-> Text("decompile")]
  @@ SameTool({"analysis_status", "list_functions", "resolve_function", "render_range"})

PooledLocals ==
  SameTool({"list_lvars", "rename_lvar", "set_lvar_type", "list_pseudocode_comments",
            "set_pseudocode_comment", "segments", "strings", "local_types"})

PooledTypes ==
  [disasm_function_at |-> Text("disasm_function_at")]
  @@ SameTool({"declare_type", "apply_types", "infer_types", "addr_info", "function_at",
               "declare_stack"})

PooledStructs ==
  SameTool({"delete_stack", "stack_frame", "structs", "struct_info", "read_struct",
            "xrefs_to", "xrefs_from", "xrefs_to_field", "imports", "exports"})

PooledPatches ==
  [patch_bytes |-> Json("patch")]
  @@ SameTool({"entrypoints", "lumina_lookup", "lumina_apply", "get_bytes", "list_patches",
               "set_comments", "rename", "patch_asm"})

PooledStrings ==
  SameTool({"basic_blocks", "callees", "callers", "idb_meta", "lookup_funcs", "list_globals",
            "analyze_strings", "find_string", "xrefs_to_string"})

\* Mutant of PooledSearch: both kinds of search ask for a text search.
PooledSearchOfText ==
  [analyze_funcs_observed |-> Json("analyze_funcs"),
   analyze_funcs_unbounded_observed |-> Asks("analyze_funcs", "unbounded", "json"),
   find_bytes |-> Asks("find_bytes", "default", "matches"),
   search_text |-> Asks("search", "text", "matches"),
   search_imm |-> Asks("search", "text", "matches")]
  @@ SameTool({"find_insns", "find_insn_operands"})

PooledSearch ==
  [analyze_funcs_observed |-> Json("analyze_funcs"),
   analyze_funcs_unbounded_observed |-> Asks("analyze_funcs", "unbounded", "json"),
   find_bytes |-> Asks("find_bytes", "default", "matches"),
   search_text |-> Asks("search", "text", "matches"),
   search_imm |-> Asks("search", "imm", "matches")]
  @@ SameTool({"find_insns", "find_insn_operands"})

PooledScripts ==
  [save_database |-> Json("save_idb"), export_funcs |-> Asks("export_funcs", "all", "json"),
   run_script_observed |-> Json("run_script")]
  @@ SameTool({"read_int", "get_string", "get_global_value", "find_paths", "callgraph",
               "xref_matrix", "pseudocode_at"})

Pooled ==
  Merged({PooledOpen, PooledDebug, PooledAnalysis, PooledLocals, PooledTypes, PooledStructs,
          PooledPatches, PooledStrings, PooledSearch, PooledScripts})

-----------------------------------------------------------------------------
(* The registry, by category.                                              *)

CoreTools ==
  {"open_idb", "dsc_add_dylib", "dsc_add_region", "load_debug_info", "analysis_status",
   "save_idb", "close_idb"}

DiscoveryTools ==
  {"tool_catalog", "tool_help", "recent_operations", "task_status", "idb_meta"}

FunctionCategory ==
  {"list_functions", "resolve_function", "function_at", "lookup_funcs", "analyze_funcs"}

CodeCategories ==
  [disassembly |-> {"disasm", "render_range", "disasm_by_name", "disasm_function_at"},
   decompile |-> {"decompile", "pseudocode_at", "list_lvars", "list_pseudocode_comments"}]

FlowCategories ==
  [xrefs |-> {"xrefs_to", "xrefs_from", "xrefs_to_string", "xref_matrix", "xrefs_to_field"},
   control_flow |-> {"basic_blocks", "callers", "callees", "callgraph", "find_paths"}]

DataCategories ==
  [memory |-> {"get_bytes", "get_string", "read_int", "get_global_value"},
   search |-> {"find_bytes", "search", "strings", "find_string", "analyze_strings",
               "find_insns", "find_insn_operands"}]

MetadataCategory ==
  {"segments", "addr_info", "imports", "exports", "export_funcs", "entrypoints",
   "lumina_lookup", "list_globals"}

TypesCategory ==
  {"local_types", "declare_type", "apply_types", "set_lvar_type", "infer_types",
   "stack_frame", "declare_stack", "delete_stack", "structs", "struct_info", "read_struct",
   "search_structs"}

EditingCategory ==
  {"lumina_apply", "set_pseudocode_comment", "set_comments", "patch_asm", "patch",
   "list_patches", "rename", "rename_lvar"}

DebugCategory ==
  {"debug_status", "debug_launch", "debug_attach", "debug_modules", "debug_stop",
   "debug_open_module"}

Categories ==
  [core |-> CoreTools \cup DiscoveryTools \cup {"list_databases"},
   functions |-> FunctionCategory, metadata |-> MetadataCategory, types |-> TypesCategory,
   editing |-> EditingCategory, debug |-> DebugCategory, scripting |-> {"run_script"}]
  @@ CodeCategories @@ FlowCategories @@ DataCategories

Registry == UNION {Categories[k] : k \in DOMAIN Categories}

NeedsDebugger == DebugCategory

NeedsWorkspace == {"list_databases", "debug_open_module"}

LeanProfile ==
  {"open_idb", "dsc_add_dylib", "dsc_add_region", "load_debug_info", "analysis_status",
   "analyze_funcs", "save_idb", "close_idb", "task_status", "list_functions",
   "resolve_function", "function_at", "disasm", "decompile", "xrefs_to", "xrefs_from",
   "callers", "callees", "strings", "find_bytes", "search", "segments", "imports",
   "exports", "rename", "set_comments", "run_script"}

\* Mutant of READ_ONLY_DENY_LIST: a tool was added and forgotten here.
DenyListForgetful ==
  {"run_script", "save_idb", "patch", "patch_asm", "rename", "rename_lvar", "set_lvar_type",
   "set_comments", "set_pseudocode_comment", "declare_type", "apply_types",
   "infer_types", "declare_stack", "delete_stack", "dsc_add_dylib", "dsc_add_region",
   "analyze_funcs", "debug_launch", "debug_attach", "debug_stop"}

(* What --read-only removes.                                               *)
READ_ONLY_DENY_LIST ==
  {"run_script", "save_idb", "patch", "patch_asm", "rename", "rename_lvar", "set_lvar_type",
   "set_comments", "set_pseudocode_comment", "lumina_apply", "declare_type", "apply_types",
   "infer_types", "declare_stack", "delete_stack", "dsc_add_dylib", "dsc_add_region",
   "analyze_funcs", "debug_launch", "debug_attach", "debug_stop"}
=============================================================================
