--------------------------- MODULE PluginExecutor ---------------------------
(***************************************************************************)
(* What the workers of a plugin do with its requests: the routes           *)
(* (core/server/router.py, plugin.py), the handlers                        *)
(* (core/plugin_executor.py), the session that the code of a model can ask *)
(* for (core/session_context.py), and the writing of what a handler        *)
(* returns or yields (Plugin._execute_request).                            *)
(*                                                                         *)
(* A request is a record of its type, its action, the provider, the item   *)
(* (a tool, a strategy, a model type, a path ...) and whether it fits the  *)
(* handler's annotation. That the outcome is reported is IOServer's part.  *)
(***************************************************************************)
EXTENDS PluginRegistration

CONSTANTS
  Workers,    \* the threads of the pool
  Sessions,   \* the ids of sessions, at least one for each worker
  Requests,   \* the requests that the daemon sends
  BlobLengths \* the lengths of the blobs that tools yield

-----------------------------------------------------------------------------
(***************************************************************************)
(* The requests (core/entities/plugin/request.py).                         *)
(***************************************************************************)

Request(type, actions, fits) ==
  [type : {type}, action : actions, provider : STRING, item : STRING, fit : fits]

Fits == {"fits", "invalid"}

ToolRequests ==
  Request("tool", {"invoke_tool", "validate_tool_credentials",
                   "get_tool_runtime_parameters"}, Fits)
  \cup Request("agent_strategy", {"invoke_agent_strategy"}, Fits)

\* The messages of a prompt are refused with a TypeError if they are no list.
ModelRequests ==
  Request("model", {"invoke_llm", "start_polling", "get_llm_num_tokens"},
          Fits \cup {"type error"})
  \cup
  Request("model", {"validate_provider_credentials", "validate_model_credentials",
                    "check_polling", "invoke_text_embedding", "invoke_multimodal_embedding",
                    "get_text_embedding_num_tokens", "invoke_rerank",
                    "invoke_multimodal_rerank", "invoke_tts", "get_tts_model_voices",
                    "invoke_speech2text", "invoke_moderation", "get_ai_model_schemas"}, Fits)

EndpointRequests == Request("endpoint", {"invoke_endpoint"}, Fits)

OAuthRequests ==
  Request("oauth", {"get_authorization_url", "get_credentials", "refresh_credentials",
                    "revoke_credentials"}, Fits)

DynamicParameterRequests == Request("dynamic_parameter", {"fetch_parameter_options"}, Fits)

DatasourceRequests ==
  Request("datasource", {"validate_datasource_credentials",
                         "invoke_website_datasource_get_crawl",
                         "invoke_online_document_datasource_get_pages",
                         "invoke_online_document_datasource_get_page_content",
                         "invoke_online_drive_browse_files",
                         "invoke_online_drive_download_file"}, Fits)

TriggerRequests ==
  Request("trigger", {"invoke_trigger_event", "validate_trigger_credentials",
                      "dispatch_trigger_event", "subscribe_trigger",
                      "unsubscribe_trigger", "refresh_trigger"}, Fits)

PluginAccessRequests ==
  ToolRequests \cup ModelRequests \cup EndpointRequests \cup OAuthRequests
  \cup DynamicParameterRequests \cup DatasourceRequests \cup TriggerRequests

ASSUME RequestsAssumption ==
  \A q \in Requests :
    q \in PluginAccessRequests \/ (q.action = "unknown" /\ q.fit \in Fits)
ASSUME NoneAssumption ==
  \A s \in Sessions, q \in Requests : [session |-> s, request |-> q] # None
ASSUME SessionsAssumption == Cardinality(Workers) <= Cardinality(Sessions)
ASSUME BlobLengthsAssumption == BlobLengths \subseteq Nat

-----------------------------------------------------------------------------
(***************************************************************************)
(* The handlers. Each looks its class up, and raises if there is none; a   *)
(* generator function does so when it is iterated.                         *)
(***************************************************************************)

Found(c, method(_)) == IF c = None THEN Fails ELSE method(c)
Answer(c, method(_)) == Found(c, LAMBDA x : method(x) \o <<Return>>)

Generating(steps) == <<With("generator", None)>> \o steps \o <<EndWith>>

use_current_session(steps) == <<With("session", None)>> \o steps \o <<EndWith>>

validate_tool_provider_credentials(q) ==
  Answer(get_tool_provider_cls(q.provider), ToolProvider_validate_credentials)

invoke_tool(q) ==
  Generating(Found(get_tool_provider_cls(q.provider), LAMBDA p :
               Found(get_tool_cls(q.provider, q.item), Tool_invoke)))

invoke_agent_strategy(q) ==
  Generating(Found(get_agent_strategy_cls(q.provider, q.item), AgentStrategy_invoke))

get_tool_runtime_parameters(q) ==
  Found(get_tool_cls(q.provider, q.item), LAMBDA c :
    IF Tool_has_runtime_parameters(c)
    THEN Tool_get_runtime_parameters(c) \o <<Return>> ELSE Fails)

validate_model_provider_credentials(q) ==
  Answer(get_model_provider_instance(q.provider), ModelProvider_validate_provider_credentials)

validate_model_credentials(w, q) ==
  Answer(get_model_instance(q.provider, q.item, w), AIModel_validate_credentials)

\* The model of the request, if it is a model of this kind.
instance_of(base, q, w) ==
  LET m == get_model_instance(q.provider, q.item, w)
  IN  IF m = None \/ base \notin m.bases THEN None ELSE m

\* mutant: the generator is iterated outside of the session
invoke_llmOutside(w, q) ==
  Found(instance_of("LargeLanguageModel", q, w), LAMBDA m :
    use_current_session(<<>>) \o Generating(LargeLanguageModel_invoke(m)))

\* What the call returns is a generator, iterated in a session of its own.
invoke_llm(w, q) ==
  Found(instance_of("LargeLanguageModel", q, w), LAMBDA m :
    use_current_session(<<>>)
    \o Generating(use_current_session(LargeLanguageModel_invoke(m))))

start_llm_polling(w, q) ==
  Answer(instance_of("LargeLanguageModel", q, w), LAMBDA m :
    AIModel_get_model_schema(m)
    \o IF LargeLanguageModel_supports_polling(m)
       THEN LargeLanguageModel_start_polling(m) ELSE Fails)

check_llm_polling(w, q) ==
  Answer(instance_of("LargeLanguageModel", q, w), LAMBDA m :
    AIModel_get_model_schema(m)
    \o IF LargeLanguageModel_supports_polling(m)
       THEN LargeLanguageModel_check_polling(m) ELSE Fails)

get_llm_num_tokens(w, q) ==
  Answer(instance_of("LargeLanguageModel", q, w), LargeLanguageModel_get_num_tokens)

invoke_text_embedding(w, q) ==
  Answer(instance_of("TextEmbeddingModel", q, w), LAMBDA m :
    use_current_session(TextEmbeddingModel_invoke(m)))

invoke_multimodal_embedding(w, q) ==
  Answer(instance_of("TextEmbeddingModel", q, w), LAMBDA m :
    use_current_session(TextEmbeddingModel_invoke_multimodal(m)))

get_text_embedding_num_tokens(w, q) ==
  Answer(instance_of("TextEmbeddingModel", q, w), TextEmbeddingModel_get_num_tokens)

invoke_rerank(w, q) ==
  Answer(instance_of("RerankModel", q, w), LAMBDA m :
    use_current_session(RerankModel_invoke(m)))

invoke_multimodal_rerank(w, q) ==
  Answer(instance_of("RerankModel", q, w), LAMBDA m :
    use_current_session(RerankModel_invoke_multimodal(m)))

\* A generator function: what the model yields is yielded in the session.
invoke_tts(w, q, result) ==
  Generating(Found(instance_of("TTSModel", q, w), LAMBDA m :
    use_current_session(TTSModel_get_tts_model_mime_type(m) \o TTSModel_invoke(m, result))))

get_tts_model_voices(w, q) ==
  Answer(instance_of("TTSModel", q, w), TTSModel_get_tts_model_voices)

\* The kind of model is checked when the audio is in its temporary file.
invoke_speech_to_text(w, q) ==
  IF q.provider \in DOMAIN models /\ get_model_instance(q.provider, q.item, w) = None
  THEN Fails
  ELSE <<With("temp", None)>>
       \o Found(instance_of("Speech2TextModel", q, w), LAMBDA m :
            use_current_session(Speech2TextModel_invoke(m)))
       \o <<EndWith, Return>>

get_ai_model_schemas(w, q) ==
  Answer(instance_of("AIModel", q, w), AIModel_get_model_schema)

invoke_moderation(w, q) ==
  Answer(instance_of("ModerationModel", q, w), LAMBDA m :
    use_current_session(ModerationModel_invoke(m)))

(***************************************************************************)
(* A generator function. No endpoint is a response (404), and an error of  *)
(* the endpoint's (500); the response is closed whatever happens.          *)
(***************************************************************************)
invoke_endpoint(q, result) ==
  LET c == dispatch_endpoint_request(q.item)
      called == IF c = None THEN <<>>
                ELSE IF result = "error" THEN <<Caught(c, "_invoke")>> ELSE Endpoint_invoke(c)
      body == IF c = None \/ result = "error" THEN <<Yield("response")>>
              ELSE IF result = "generator" THEN <<Yield("headers"), Stream(c, "response", "chunk")>>
              ELSE <<Run(c, "response"), Yield("response")>>
  IN  Generating(called \o <<With("response", None)>> \o body \o <<EndWith>>)

\* The provider's own method of that name.
oauth(c, hook) ==
  CASE "TriggerSubscriptionConstructor" \in c.bases -> Constructor_oauth(c, hook)
    [] "ToolProvider" \in c.bases                   -> ToolProvider_oauth(c, hook)
    [] OTHER                                        -> DatasourceProvider_oauth(c, hook)

_get_oauth_provider_instance(q, hook) ==
  Answer(get_supported_oauth_provider(q.provider), LAMBDA c : oauth(c, hook))

get_oauth_authorization_url(q) ==
  _get_oauth_provider_instance(q, "_oauth_get_authorization_url")

get_oauth_credentials(q) == _get_oauth_provider_instance(q, "_oauth_get_credentials")

refresh_oauth_credentials(q) ==
  _get_oauth_provider_instance(q, "_oauth_refresh_credentials")

revoke_oauth_credentials(q) ==
  _get_oauth_provider_instance(q, "_oauth_revoke_credentials")

validate_datasource_credentials(q) ==
  Answer(get_datasource_provider_cls(q.provider), DatasourceProvider_validate_credentials)

\* The first of: the constructor, if the provider is meant, an event, a tool.
_get_dynamic_parameter_action(q) ==
  IF q.item = "provider" THEN get_subscription_constructor(q.provider)
  ELSE IF get_trigger_event_handler(q.provider, q.item) # None
  THEN get_trigger_event_handler(q.provider, q.item)
  ELSE get_tool_cls(q.provider, q.item)

fetch_parameter_options(q) ==
  Answer(_get_dynamic_parameter_action(q), LAMBDA c :
    CASE "TriggerSubscriptionConstructor" \in c.bases -> Constructor_fetch_parameter_options(c)
      [] "Event" \in c.bases                          -> Event_fetch_parameter_options(c)
      [] OTHER                                        -> Tool_fetch_parameter_options(c))

\* An event may be ignored, which is an answer too.
invoke_trigger_event(q) ==
  Answer(get_trigger_event_handler(q.provider, q.item), Event_on_event)

validate_trigger_provider_credentials(q) ==
  Answer(get_subscription_constructor(q.provider), Constructor_validate_api_key)

dispatch_trigger_event(q) ==
  Answer(get_trigger_provider(q.provider), LAMBDA c :
    Trigger_dispatch_event(c) \o <<With("response", None), Run(c, "response"), EndWith>>)

subscribe_trigger(q) ==
  Answer(get_subscription_constructor(q.provider), Constructor_create_subscription)

unsubscribe_trigger(q) ==
  Answer(get_subscription_constructor(q.provider), Constructor_delete_subscription)

refresh_trigger(q) ==
  Answer(get_subscription_constructor(q.provider), Constructor_refresh_subscription)

datasource_crawl_website(q) ==
  Found(get_website_crawl_datasource_cls(q.provider, q.item), LAMBDA c :
    Generating(WebsiteCrawl_website_crawl(c)))

datasource_get_pages(q) ==
  Generating(Found(get_online_document_datasource_cls(q.provider, q.item), LAMBDA c :
    OnlineDocument_get_pages(c) \o <<Yield("message")>>))

datasource_get_page_content(q) ==
  Found(get_online_document_datasource_cls(q.provider, q.item), LAMBDA c :
    Generating(OnlineDocument_get_content(c)))

datasource_online_drive_browse_files(q) ==
  Generating(Found(get_online_drive_datasource_cls(q.provider, q.item), LAMBDA c :
    OnlineDrive_browse_files(c) \o <<Yield("message")>>))

datasource_online_drive_download_file(q) ==
  Found(get_online_drive_datasource_cls(q.provider, q.item), LAMBDA c :
    Generating(OnlineDrive_download_file(c)))

-----------------------------------------------------------------------------
(***************************************************************************)
(* The routes, and what becomes of a request of no route: nothing.         *)
(***************************************************************************)

ToolRoutes(w, q) ==
  CASE q.action = "invoke_tool"                 -> invoke_tool(q)
    [] q.action = "validate_tool_credentials"   -> validate_tool_provider_credentials(q)
    [] q.action = "get_tool_runtime_parameters" -> get_tool_runtime_parameters(q)
    [] q.action = "invoke_agent_strategy"       -> invoke_agent_strategy(q)
    [] OTHER                                    -> <<>>

ModelRoutes(w, q, result) ==
  CASE q.action = "invoke_llm"                    -> invoke_llm(w, q)
    [] q.action = "start_polling"                 -> start_llm_polling(w, q)
    [] q.action = "check_polling"                 -> check_llm_polling(w, q)
    [] q.action = "get_llm_num_tokens"            -> get_llm_num_tokens(w, q)
    [] q.action = "invoke_text_embedding"         -> invoke_text_embedding(w, q)
    [] q.action = "invoke_multimodal_embedding"   -> invoke_multimodal_embedding(w, q)
    [] q.action = "get_text_embedding_num_tokens" -> get_text_embedding_num_tokens(w, q)
    [] q.action = "invoke_rerank"                 -> invoke_rerank(w, q)
    [] q.action = "invoke_multimodal_rerank"      -> invoke_multimodal_rerank(w, q)
    [] q.action = "invoke_tts"                    -> invoke_tts(w, q, result)
    [] q.action = "get_tts_model_voices"          -> get_tts_model_voices(w, q)
    [] q.action = "invoke_speech2text"            -> invoke_speech_to_text(w, q)
    [] q.action = "invoke_moderation"             -> invoke_moderation(w, q)
    [] q.action = "validate_provider_credentials" -> validate_model_provider_credentials(q)
    [] q.action = "validate_model_credentials"    -> validate_model_credentials(w, q)
    [] q.action = "get_ai_model_schemas"          -> get_ai_model_schemas(w, q)
    [] OTHER                                      -> <<>>

DatasourceRoutes(w, q) ==
  CASE q.action = "validate_datasource_credentials" -> validate_datasource_credentials(q)
    [] q.action = "invoke_website_datasource_get_crawl" -> datasource_crawl_website(q)
    [] q.action = "invoke_online_document_datasource_get_pages" -> datasource_get_pages(q)
    [] q.action = "invoke_online_document_datasource_get_page_content" ->
         datasource_get_page_content(q)
    [] q.action = "invoke_online_drive_browse_files" -> datasource_online_drive_browse_files(q)
    [] q.action = "invoke_online_drive_download_file" ->
         datasource_online_drive_download_file(q)
    [] OTHER -> <<>>

OAuthRoutes(q) ==
  CASE q.action = "get_authorization_url" -> get_oauth_authorization_url(q)
    [] q.action = "get_credentials"       -> get_oauth_credentials(q)
    [] q.action = "refresh_credentials"   -> refresh_oauth_credentials(q)
    [] q.action = "revoke_credentials"    -> revoke_oauth_credentials(q)
    [] OTHER                              -> <<>>

EndpointRoute(q, result) ==
  IF q.action = "invoke_endpoint" THEN invoke_endpoint(q, result) ELSE <<>>

DynamicParameterRoute(q) ==
  IF q.action = "fetch_parameter_options" THEN fetch_parameter_options(q) ELSE <<>>

TriggerRoutes(q) ==
  CASE q.action = "invoke_trigger_event"         -> invoke_trigger_event(q)
    [] q.action = "validate_trigger_credentials" -> validate_trigger_provider_credentials(q)
    [] q.action = "dispatch_trigger_event"       -> dispatch_trigger_event(q)
    [] q.action = "subscribe_trigger"            -> subscribe_trigger(q)
    [] q.action = "unsubscribe_trigger"          -> unsubscribe_trigger(q)
    [] q.action = "refresh_trigger"              -> refresh_trigger(q)
    [] OTHER                                     -> <<>>

dispatch(w, q, result) ==
  CASE q.type \in {"tool", "agent_strategy"} -> ToolRoutes(w, q)
    [] q.type = "model"                      -> ModelRoutes(w, q, result)
    [] q.type = "endpoint"                   -> EndpointRoute(q, result)
    [] q.type = "datasource"                 -> DatasourceRoutes(w, q)
    [] q.type = "oauth"                      -> OAuthRoutes(q)
    [] q.type = "dynamic_parameter"          -> DynamicParameterRoute(q)
    [] q.type = "trigger"                    -> TriggerRoutes(q)
    [] OTHER                                 -> <<>>

(***************************************************************************)
(* A request that does not fit is an error, of the caller's. One that is   *)
(* refused with a TypeError is reported here, if there is a writer (a      *)
(* serverless plugin has none, and logs it), and then handed to the        *)
(* handler as it came, which fails at its first attribute.                 *)
(***************************************************************************)
register_route(w, q, result, writer) ==
  LET program == dispatch(w, q, result)
  IN  IF program = <<>> \/ q.fit = "fits" THEN program
      ELSE IF q.fit = "type error" /\ writer THEN <<Yield("error")>> \o Fails ELSE Fails

-----------------------------------------------------------------------------
(***************************************************************************)
(* A worker executes the program of its request.                           *)
(***************************************************************************)
VARIABLES
  work,     \* the session and the request, or None
  rest,     \* what is left of the program
  held,     \* the contexts that are open, the outermost first
  current,  \* _current_session, a variable of each thread's
  blob,     \* the blob that is being written, or None
  out,      \* the messages of what was yielded last, still to be written
  failing   \* an exception is on its way out

workerVars == <<work, rest, held, current, blob, out, failing>>
vars == <<registrationVars, workerVars>>

Init ==
  /\ RegistrationInit
  /\ work = [w \in Workers |-> None]
  /\ rest = [w \in Workers |-> <<>>]
  /\ held = [w \in Workers |-> <<>>]
  /\ current = [w \in Workers |-> None]
  /\ blob = [w \in Workers |-> None]
  /\ out = [w \in Workers |-> <<>>]
  /\ failing = [w \in Workers |-> FALSE]

\* The requests that a run has; the session is a new one.
Take(w) ==
  /\ stage = "serving"
  /\ work[w] = None
  /\ \E q \in Requests, s \in Sessions, result \in {"whole", "generator", "error"},
        writer \in BOOLEAN :
       /\ \A v \in Workers : work[v] # None => work[v].session # s
       /\ work' = [work EXCEPT ![w] = [session |-> s, request |-> q]]
       /\ rest' = [rest EXCEPT ![w] = register_route(w, q, result, writer)]
  /\ UNCHANGED <<registrationVars, held, current, blob, out, failing>>

\* A worker that is at a step of this sort.
At(w, do) ==
  /\ work[w] # None /\ ~failing[w] /\ out[w] = <<>>
  /\ rest[w] # <<>> /\ rest[w][1].do = do

Advance(w) == rest' = [rest EXCEPT ![w] = Tail(@)]
Raise(w) == /\ failing' = [failing EXCEPT ![w] = TRUE]
            /\ rest' = [rest EXCEPT ![w] = <<>>]

\* The models that are being timed.
Timed ==
  UNION {{held[v][i].code : i \in {j \in DOMAIN held[v] : held[v][j].what = "timing"}} :
           v \in Workers}

\* A model that is timed already refuses.
EnterContext(w) ==
  /\ At(w, "with")
  /\ LET step == rest[w][1]
     IN  IF step.what = "timing" /\ step.code \in Timed
         THEN Raise(w) /\ UNCHANGED <<held, current>>
         ELSE /\ held' = [held EXCEPT ![w] = Append(@,
                   [what |-> step.what, code |-> step.code, saved |-> current[w]])]
              /\ current' = IF step.what = "session"
                            THEN [current EXCEPT ![w] = work[w].session] ELSE current
              /\ Advance(w)
              /\ UNCHANGED failing
  /\ UNCHANGED <<registrationVars, work, blob, out>>

\* The innermost context ends, the session with what was current before.
Release(w) ==
  LET top == held[w][Len(held[w])]
  IN  /\ held' = [held EXCEPT ![w] = SubSeq(@, 1, Len(@) - 1)]
      /\ current' = IF top.what = "session"
                    THEN [current EXCEPT ![w] = top.saved] ELSE current

ExitContext(w) ==
  /\ At(w, "end with")
  /\ Release(w)
  /\ Advance(w)
  /\ UNCHANGED <<registrationVars, work, blob, out, failing>>

RunCode(w) ==
  /\ \/ (At(w, "run") \/ At(w, "caught")) /\ Advance(w) /\ UNCHANGED failing
     \/ At(w, "run") /\ Raise(w)
  /\ UNCHANGED <<registrationVars, work, held, current, blob, out>>

Message(type) == [type |-> type, sequence |-> 0, total |-> 0, data |-> <<>>, end |-> FALSE]

\* The pieces of a blob, which have its length, and an empty one that is the end.
BlobChunks(data) ==
  [i \in 1 .. Len(Pieces(data)) + 1 |->
     [type |-> "blob chunk", sequence |-> i - 1, total |-> Len(data),
      data |-> IF i <= Len(Pieces(data)) THEN Pieces(data)[i] ELSE <<>>,
      end |-> i > Len(Pieces(data))]]

Blobs == {[i \in 1 .. n |-> i] : n \in BlobLengths}

\* The plugin's generator yields a message, ends, or raises.
StreamYields(w) ==
  /\ At(w, "stream")
  /\ \/ /\ out' = [out EXCEPT ![w] = <<Message(rest[w][1].what)>>]
        /\ UNCHANGED blob
     \/ \E b \in Blobs :
          /\ rest[w][1].what = "tool message"
          /\ out' = [out EXCEPT ![w] = BlobChunks(b)]
          /\ blob' = [blob EXCEPT ![w] = b]
  /\ UNCHANGED <<registrationVars, work, rest, held, current, failing>>

StreamEnds(w) ==
  /\ At(w, "stream")
  /\ \/ Advance(w) /\ UNCHANGED failing
     \/ Raise(w)
  /\ UNCHANGED <<registrationVars, work, held, current, blob, out>>

\* What the handler yields itself, or returns.
Answers(w) ==
  /\ At(w, "yield") \/ At(w, "return")
  /\ out' = [out EXCEPT ![w] = <<Message(rest[w][1].what)>>]
  /\ Advance(w)
  /\ UNCHANGED <<registrationVars, work, held, current, blob, failing>>

RaiseError(w) ==
  /\ At(w, "raise")
  /\ Raise(w)
  /\ UNCHANGED <<registrationVars, work, held, current, blob, out>>

\* The handler of a speech is closed within its session, which it leaves; the
\* model's generator, which it iterates over, goes with its frame only then.
Abandoned(action, h) ==
  LET n == Len(h)
  IN  IF action = "invoke_tts" /\ n > 1 /\ h[n].what = "timing" /\ h[n - 1].what = "session"
      THEN [h EXCEPT ![n - 1] = h[n], ![n] = h[n - 1]] ELSE h

\* A message is written, or the writer raises and the handler is closed.
WriteMessage(w) ==
  /\ out[w] # <<>>
  /\ \/ /\ out' = [out EXCEPT ![w] = Tail(@)]
        /\ blob' = IF Len(out[w]) = 1 THEN [blob EXCEPT ![w] = None] ELSE blob
        /\ UNCHANGED <<rest, held, failing>>
     \/ /\ out' = [out EXCEPT ![w] = <<>>]
        /\ blob' = [blob EXCEPT ![w] = None]
        /\ held' = [held EXCEPT ![w] = Abandoned(work[w].request.action, @)]
        /\ Raise(w)
  /\ UNCHANGED <<registrationVars, work, current>>

\* The exception leaves the innermost context.
Unwind(w) ==
  /\ failing[w] /\ held[w] # <<>>
  /\ Release(w)
  /\ UNCHANGED <<registrationVars, work, rest, blob, out, failing>>

Finish(w) ==
  /\ work[w] # None
  /\ rest[w] = <<>> /\ out[w] = <<>>
  /\ failing[w] => held[w] = <<>>
  /\ work' = [work EXCEPT ![w] = None]
  /\ failing' = [failing EXCEPT ![w] = FALSE]
  /\ UNCHANGED <<registrationVars, rest, held, current, blob, out>>

Working(w) ==
  \/ Take(w) \/ EnterContext(w) \/ ExitContext(w) \/ RunCode(w) \/ StreamYields(w)
  \/ StreamEnds(w) \/ Answers(w) \/ RaiseError(w) \/ WriteMessage(w) \/ Unwind(w)
  \/ Finish(w)

Next ==
  \/ Starting /\ UNCHANGED workerVars
  \/ \E w \in Workers : Working(w)

Spec == Init /\ [][Next]_vars

-----------------------------------------------------------------------------
(***************************************************************************)
(* The code of the plugin that a worker is about to run.                   *)
(***************************************************************************)
Calling(w) == At(w, "run") \/ At(w, "caught") \/ At(w, "stream")

Invocations == {"invoke_llm", "invoke_text_embedding", "invoke_multimodal_embedding",
                "invoke_rerank", "invoke_multimodal_rerank", "invoke_tts",
                "invoke_speech2text", "invoke_moderation"}

(***************************************************************************)
(* get_current_session() gives the code of a model that is invoked its own *)
(* request's session, in each part of a stream too, and other code none;   *)
(* a worker that is done, whatever way, has put back everything, so that   *)
(* the next request of its thread finds nothing of it.                     *)
(***************************************************************************)
OwnSession ==
  \A w \in Workers :
    /\ work[w] = None => current[w] = None /\ held[w] = <<>>
    /\ Calling(w) =>
         current[w] = IF work[w].request.action \in Invocations
                      THEN work[w].session ELSE None

(***************************************************************************)
(* No model refuses to run because it is being timed: not for another      *)
(* worker's request, and not in the two parts of a speech that is streamed *)
(* (the error "DO NOT start it in multi-threaded environment").            *)
(***************************************************************************)
NoTimingRace ==
  \A w \in Workers :
    At(w, "with") /\ rest[w][1].what = "timing" => rest[w][1].code \notin Timed

\* The interfaces that an action is a call of.
InterfacesOf(q) ==
  CASE q.action \in {"invoke_tool", "get_tool_runtime_parameters"} -> {"Tool"}
    [] q.action = "validate_tool_credentials" -> {"ToolProvider"}
    [] q.action = "invoke_agent_strategy" -> {"AgentStrategy"}
    [] q.action = "validate_provider_credentials" -> {"ModelProvider"}
    [] q.action \in {"validate_model_credentials", "get_ai_model_schemas"} -> {"AIModel"}
    [] q.action \in {"invoke_llm", "start_polling", "check_polling", "get_llm_num_tokens"} ->
         {"LargeLanguageModel"}
    [] q.action \in {"invoke_text_embedding", "invoke_multimodal_embedding",
                     "get_text_embedding_num_tokens"} -> {"TextEmbeddingModel"}
    [] q.action \in {"invoke_rerank", "invoke_multimodal_rerank"} -> {"RerankModel"}
    [] q.action \in {"invoke_tts", "get_tts_model_voices"} -> {"TTSModel"}
    [] q.action = "invoke_speech2text" -> {"Speech2TextModel"}
    [] q.action = "invoke_moderation" -> {"ModerationModel"}
    [] q.action = "invoke_endpoint" -> {"Endpoint"}
    [] q.action \in {"get_authorization_url", "get_credentials", "refresh_credentials",
                     "revoke_credentials"} ->
         {"ToolProvider", "DatasourceProvider", "TriggerSubscriptionConstructor"}
    [] q.action = "fetch_parameter_options" -> {"Tool", "Event", "TriggerSubscriptionConstructor"}
    [] q.action = "validate_datasource_credentials" -> {"DatasourceProvider"}
    [] q.action = "invoke_website_datasource_get_crawl" -> {"WebsiteCrawlDatasource"}
    [] q.action \in {"invoke_online_drive_browse_files",
                     "invoke_online_drive_download_file"} -> {"OnlineDriveDatasource"}
    [] q.action \in {"invoke_online_document_datasource_get_pages",
                     "invoke_online_document_datasource_get_page_content"} ->
         {"OnlineDocumentDatasource"}
    [] q.action = "invoke_trigger_event" -> {"Event"}
    [] q.action = "dispatch_trigger_event" -> {"Trigger"}
    [] q.action \in {"validate_trigger_credentials", "subscribe_trigger",
                     "unsubscribe_trigger", "refresh_trigger"} ->
         {"TriggerSubscriptionConstructor"}

\* An endpoint's request names a path, and the class is one that was declared with it.
WrittenForRequest(c, q) ==
  IF q.type = "endpoint"
  THEN \E p \in Elements(configuration["endpoints"]) : \E i \in DOMAIN p.items :
         p.items[i].name = q.item /\ c \in Elements(plugin.modules[p.items[i].source])
  ELSE c.of = q.provider

(***************************************************************************)
(* The code that a request runs is of the interface its action is about    *)
(* and was written for the provider, or declared with the path, it names:  *)
(* not another provider's of the same name of item, not a base class that  *)
(* the plugin only imports, not a model of another kind.                   *)
(***************************************************************************)
RightCode ==
  \A w \in Workers : Calling(w) =>
    /\ WrittenForRequest(rest[w][1].code, work[w].request)
    /\ rest[w][1].code.bases \cap InterfacesOf(work[w].request) # {}

-----------------------------------------------------------------------------
\* What the daemon was told of a kind, without what has been declared again.
Declared(k) ==
  LET told == {announced[i] : i \in DOMAIN announced}
      all == IF \E a \in told : a.type = k
             THEN (CHOOSE a \in told : a.type = k).data ELSE <<>>
  IN  {all[i] : i \in {j \in DOMAIN all :
                         \A l \in j + 1 .. Len(all) : all[l].name # all[j].name}}

Served(k, p, item) ==
  CASE k = "tools"            -> get_tool_cls(p.name, item)
    [] k = "agent_strategies" -> get_agent_strategy_cls(p.name, item)
    [] k = "triggers"         -> get_trigger_event_handler(p.name, item)
    [] k = "datasources" ->
         CASE p.type = "website_crawl"   -> get_website_crawl_datasource_cls(p.name, item)
           [] p.type = "online_document" -> get_online_document_datasource_cls(p.name, item)
           [] p.type = "online_drive"    -> get_online_drive_datasource_cls(p.name, item)

(***************************************************************************)
(* What the daemon of a remote plugin was told is what the plugin serves:  *)
(* of each provider, its last declaration counting, the items announced    *)
(* and no others, each by a class of the source it was declared with, and  *)
(* a tool that computes its parameters is announced to do so.              *)
(***************************************************************************)
AnnouncedIsServed ==
  stage = "serving" =>
    \A k \in {"tools", "agent_strategies", "datasources", "triggers"} :
      \A p \in Declared(k) : \A item \in {q.item : q \in Requests} :
        LET c == Served(k, p, item)
            named == {i \in DOMAIN p.items : p.items[i].name = item}
        IN  /\ c = None <=> named = {}
            /\ c # None => \E i \in named :
                 /\ c \in Elements(plugin.modules[p.items[i].source])
                 /\ k = "tools" /\ Tool_has_runtime_parameters(c) => p.items[i].runtime

-----------------------------------------------------------------------------
(***************************************************************************)
(* What is cut to pieces can be put together: the pieces of a blob are the *)
(* blob, numbered, each with the length of the whole, and end once, after  *)
(* the last; the announced pieces of an asset are the asset, and the last  *)
(* one, only, is marked.                                                   *)
(***************************************************************************)
EndsOnce(pieces) ==
  pieces # <<>> /\ \A i \in DOMAIN pieces : pieces[i].end <=> i = Len(pieces)

BlobReassembles(pieces, data) ==
  /\ EndsOnce(pieces)
  /\ \A i \in DOMAIN pieces :
       /\ pieces[i].sequence = pieces[1].sequence + i - 1
       /\ pieces[i].total = Len(data)
       /\ pieces[i].end <=> pieces[i].data = <<>>
  /\ pieces[1].sequence = 0 => FlattenSeq([i \in DOMAIN pieces |-> pieces[i].data]) = data

\* Among the announcements s, where those of this file are, and what they have of it.
ChunksOf(s, filename) ==
  {i \in DOMAIN s : s[i].type = "asset_chunk" /\ s[i].data.filename = filename}

DataOf(s, filename) ==
  [i \in DOMAIN s |-> IF i \in ChunksOf(s, filename) THEN s[i].data.data ELSE <<>>]

FileReassembles(s, file) ==
  /\ FlattenSeq(DataOf(s, file.name)) = file.data
  /\ \A i \in ChunksOf(s, file.name) :
       s[i].data.end <=> \A j \in ChunksOf(s, file.name) : j <= i

PiecesReassemble ==
  /\ \A w \in Workers : blob[w] # None => BlobReassembles(out[w], blob[w])
  /\ stage = "serving" => \A file \in Elements(files) : FileReassembles(announced, file)
=============================================================================
