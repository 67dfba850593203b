---------------------------- MODULE MCLLMStream ---------------------------
(***************************************************************************)
(* Every way to name tool calls in the setting that understands it; a      *)
(* provider that says everything there is to say; tool calls nobody asked  *)
(* for; and the completion mode.                                           *)
(***************************************************************************)
EXTENDS LLMStream

conf(style, calling, mode, says, sse) ==
  [style |-> style, calling |-> calling, mode |-> mode, says |-> says, sse |-> sse]

Everything == {"reasoning", "content", "finish", "usage"}

MCConfigs ==
  {conf(style, "tool_call", "chat", {}, FALSE) : style \in {"indexed", "everywhere"}}
  \cup {conf(style, "tool_call", "chat", {"reasoning"}, FALSE) :
           style \in {"bare", "headless"}}
  \cup {conf("anchored", "tool_call", "chat", Everything, FALSE),
        conf("legacy", "function_call", "chat", {"reasoning", "content"}, FALSE),
        conf("anchored", "no_call", "chat", {"reasoning"}, TRUE),
        conf("bare", "no_call", "completion", {"finish", "usage"}, TRUE)}
=============================================================================
