-------------------------- MODULE PluginInterfaces --------------------------
(***************************************************************************)
(* What the classes that a plugin implements are asked for (interfaces/).  *)
(*                                                                         *)
(* A request is handled by a program: the steps the handler takes, of      *)
(* which only the plugin's own methods, the context managers and what is   *)
(* sent back are of interest. The public method of an interface is such a  *)
(* program; it calls a hook of the plugin's class. A class is a record     *)
(*   name, of      what it is called and the provider it was written for   *)
(*   bases         the interfaces it is a strict subclass of               *)
(*   hooks         the optional hooks that it overrides itself, and        *)
(*                 "polling" if the schema of a model has that feature     *)
(*   model_type    of a model                                              *)
(*   owner         the worker an instance of a model was made for          *)
(* An abstract hook is always there: without it there is no instance.      *)
(***************************************************************************)
EXTENDS Sequences

CONSTANT None

Step(do, what, code, hook) == [do |-> do, what |-> what, code |-> code, hook |-> hook]

With(what, code) == Step("with", what, code, None)
EndWith == Step("end with", None, None, None)
\* The plugin's code, whose errors the handler passes on or, of one that failed, catches.
Run(code, hook) == Step("run", None, code, hook)
Caught(code, hook) == Step("caught", None, code, hook)
\* The plugin's generator, until it is exhausted.
Stream(code, hook, what) == Step("stream", what, code, hook)
Yield(what) == Step("yield", what, None, None)
Return == Step("return", None, None, None)
Fails == <<Step("raise", None, None, None)>>

\* A hook that raises NotImplementedError unless it is overridden.
Optional(code, hook) == IF hook \in code.hooks THEN <<Run(code, hook)>> ELSE Fails

-----------------------------------------------------------------------------
(***************************************************************************)
(* Tools and agents. invoke() converts the parameters, which may fail like *)
(* the plugin's own code, and returns its generator.                       *)
(***************************************************************************)

Tool_invoke(c) == <<Stream(c, "_invoke", "tool message")>>

Tool_has_runtime_parameters(c) == "_get_runtime_parameters" \in c.hooks

Tool_get_runtime_parameters(c) == <<Run(c, "_get_runtime_parameters")>>

Tool_fetch_parameter_options(c) == Optional(c, "_fetch_parameter_options")

ToolProvider_validate_credentials(c) == Optional(c, "_validate_credentials")

ToolProvider_oauth_revoke_credentials(c) == Optional(c, "_oauth_revoke_credentials")

ToolProvider_oauth(c, hook) == Optional(c, hook)

AgentStrategy_invoke(c) == <<Stream(c, "_invoke", "message")>>

-----------------------------------------------------------------------------
(***************************************************************************)
(* Triggers.                                                               *)
(***************************************************************************)

Trigger_dispatch_event(c) == <<Run(c, "_dispatch_event")>>

Constructor_validate_api_key(c) == Optional(c, "_validate_api_key")

Constructor_oauth(c, hook) == Optional(c, hook)

Constructor_create_subscription(c) == <<Run(c, "_create_subscription")>>

Constructor_delete_subscription(c) == <<Run(c, "_delete_subscription")>>

Constructor_refresh_subscription(c) == <<Run(c, "_refresh_subscription")>>

Constructor_fetch_parameter_options(c) == Optional(c, "_fetch_parameter_options")

Event_on_event(c) == <<Run(c, "_on_event")>>

Event_fetch_parameter_options(c) == Optional(c, "_fetch_parameter_options")

-----------------------------------------------------------------------------
(***************************************************************************)
(* Endpoints and datasources.                                              *)
(***************************************************************************)

Endpoint_invoke(c) == <<Run(c, "_invoke")>>

WebsiteCrawl_website_crawl(c) == <<Stream(c, "_get_website_crawl", "message")>>

OnlineDocument_get_pages(c) == <<Run(c, "_get_pages")>>

OnlineDocument_get_content(c) == <<Stream(c, "_get_content", "message")>>

OnlineDrive_browse_files(c) == <<Run(c, "_browse_files")>>

OnlineDrive_download_file(c) == <<Stream(c, "_download_file", "message")>>

DatasourceProvider_validate_credentials(c) == Optional(c, "_validate_credentials")

DatasourceProvider_oauth(c, hook) == Optional(c, hook)

-----------------------------------------------------------------------------
(***************************************************************************)
(* Models. An instance is timed while it runs, and refuses to be timed     *)
(* twice. The error of a model is another one afterwards.                  *)
(***************************************************************************)

ModelProvider_validate_provider_credentials(c) ==
  <<Run(c, "validate_provider_credentials")>>

AIModel_validate_credentials(m) == <<Run(m, "validate_credentials")>>

timing_context(m, steps) == <<With("timing", m)>> \o steps \o <<EndWith>>

\* A predefined model has no need of the plugin's code; None is told as it is.
AIModel_get_model_schema(m) ==
  IF "get_customizable_model_schema" \in m.hooks
  THEN <<Run(m, "get_customizable_model_schema")>>
  ELSE <<>>

\* A generator function: nothing of it runs before the first chunk is wanted. The
\* schema says which parameters the model has.
LargeLanguageModel_invoke(m) ==
  AIModel_get_model_schema(m) \o timing_context(m, <<Stream(m, "_invoke", "message")>>)

\* By its schema and by its class.
LargeLanguageModel_supports_polling(m) ==
  {"polling", "_start_polling", "_check_polling"} \subseteq m.hooks

\* Both ask whether the model supports it.
LargeLanguageModel_start_polling(m) ==
  AIModel_get_model_schema(m)
  \o IF LargeLanguageModel_supports_polling(m)
     THEN timing_context(m, <<Run(m, "_start_polling")>>) ELSE Fails

LargeLanguageModel_check_polling(m) ==
  AIModel_get_model_schema(m)
  \o IF LargeLanguageModel_supports_polling(m)
     THEN timing_context(m, <<Run(m, "_check_polling")>>) ELSE Fails

LargeLanguageModel_get_num_tokens(m) == <<Run(m, "get_num_tokens")>>

TextEmbeddingModel_invoke(m) == timing_context(m, <<Run(m, "_invoke")>>)

TextEmbeddingModel_invoke_multimodal(m) ==
  timing_context(m, Optional(m, "_invoke_multimodal"))

TextEmbeddingModel_get_num_tokens(m) == <<Run(m, "get_num_tokens")>>

RerankModel_invoke(m) == timing_context(m, <<Run(m, "_invoke")>>)

RerankModel_invoke_multimodal(m) == timing_context(m, Optional(m, "_invoke_multimodal"))

\* The call, and what it returns: bytes, or a generator that is timed anew.
TTSModel_invoke(m, result) ==
  timing_context(m, <<Run(m, "_invoke")>>)
  \o IF result = "generator"
     THEN timing_context(m, <<Stream(m, "_invoke", "message")>>) ELSE <<Yield("message")>>

\* From the schema.
TTSModel_get_tts_model_mime_type(m) == AIModel_get_model_schema(m)
TTSModel_get_tts_model_voices(m) == AIModel_get_model_schema(m)

Speech2TextModel_invoke(m) == timing_context(m, <<Run(m, "_invoke")>>)

ModerationModel_invoke(m) == timing_context(m, <<Run(m, "_invoke")>>)
=============================================================================
