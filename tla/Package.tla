------------------------------- MODULE Package -------------------------------
(***************************************************************************)
(* What is asked of a source's package before it is installed and before   *)
(* it is compiled again at a start (crates/aidoku-runtime/src/package.rs): *)
(* that it is whole, and that this host defines the functions its module   *)
(* imports (PROVIDED, imports/bindings.rs).                                *)
(*                                                                         *)
(* A package is a record: which of its files are there and can be read,    *)
(* and the imports of its module, pairs of a module's and a function's     *)
(* name.                                                                   *)
(***************************************************************************)
CONSTANTS WithJs,    \* built with the feature js
          WebView    \* the functions of js whose name begins with webview_

PROVIDED ==
    [env      |-> {"abort", "print", "send_partial_result", "sleep"},
     std      |-> {"abort", "buffer_len", "current_date", "destroy", "parse_date", "print",
                   "read_buffer", "utc_offset"},
     defaults |-> {"get", "set"},
     net      |-> {"data_len", "get_header", "get_status_code", "get_url", "html", "init", "read_data",
                   "send", "send_all", "set_body", "set_header", "set_rate_limit", "set_timeout",
                   "set_url"},
     html     |-> {"add_class", "append", "attr", "base_uri", "child_nodes", "children", "class_name",
                   "escape", "data", "first", "get", "has_attr", "has_class", "html", "id", "last", "kind",
                   "next", "outer_html", "own_text", "parent", "parse", "parse_fragment", "prepend",
                   "previous", "remove", "remove_attr", "remove_class", "select", "select_first",
                   "set_attr", "set_html", "set_text", "siblings", "size", "tag_name", "text", "unescape",
                   "untrimmed_text"}]

IsProvided(i) == i[1] \in DOMAIN PROVIDED /\ i[2] \in PROVIDED[i[1]]

\* The capability a function belongs to; an image over the network is one of canvas.
CapabilityForImport(i) ==
    CASE i = <<"net", "get_image">>              -> "canvas"
      [] i[1] \in {"net", "html", "defaults"} /\ i # <<"net", "get_image">> -> i[1]
      [] i[1] \in {"std", "env"}                 -> "std"
      [] i[1] = "canvas"                         -> "canvas"
      [] i[1] = "js"                             -> IF i[2] \in WebView THEN "webview" ELSE "js"
      [] OTHER                                   -> "none"

SupportedCapabilities == {"net", "html", "defaults", "std"} \cup IF WithJs THEN {"js"} ELSE {}

RequiredCapabilities(imports) == {CapabilityForImport(i) : i \in imports} \ {"none"}

\* Functions of a capability that is supported which this host does not define.
UnprovidedImports(imports) ==
    {i \in imports : CapabilityForImport(i) \in SupportedCapabilities /\ ~IsProvided(i)}

\* load and prepare: an archive with a manifest that can be read, a module that compiles, and no
\* import that is missing here.
Loads(package) ==
    /\ package.archive /\ package.manifest /\ package.module
    /\ RequiredCapabilities(package.imports) \subseteq SupportedCapabilities
    /\ UnprovidedImports(package.imports) = {}

-----------------------------------------------------------------------------
\* Instantiating a module finds every import: all it names are defined.  A namespace that is not one of
\* Aidoku's is left to fail there.
Links(package) ==
    \A i \in package.imports : i[1] \in {"env", "std", "defaults", "net", "html", "js", "canvas"} => IsProvided(i)
=============================================================================
