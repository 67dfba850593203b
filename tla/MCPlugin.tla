------------------------------ MODULE MCPlugin ------------------------------
(* Plugins, broken ones and one that has something of everything.           *)
EXTENDS PluginExecutor, TLC

Class(name, of, bases, hooks, model_type) ==
  [name |-> name, of |-> of, bases |-> bases, hooks |-> hooks, model_type |-> model_type,
   owner |-> None]
Plain(name, of, base) == Class(name, of, {base}, {}, None)
Model(name, of, base, hooks, model_type) ==
  Class(name, of, {"AIModel", base}, hooks, model_type)

Item(name, source) == [name |-> name, source |-> source, runtime |-> FALSE]
Provider(name, source, items) ==
  [name |-> name, source |-> source, oauth |-> FALSE, type |-> None, constructor |-> None,
   items |-> items]

OAuthHooks == {"_oauth_get_authorization_url", "_oauth_get_credentials",
               "_oauth_revoke_credentials"}

\* "again" declares the provider of "tools" again, and lacks one of its tools; the
\* tool "search" is another provider's too.
Yaml ==
  "tools" :> Provider("p", "p.py", <<Item("search", "search.py"), Item("gone", "gone.py")>>)
  @@ "again" :> [Provider("p", "p.py", <<Item("search", "search.py"), Item("draw", "draw.py")>>)
                   EXCEPT !.oauth = TRUE]
  @@ "other" :> Provider("q", "q.py", <<Item("search", "q_search.py")>>)
  @@ "models" :> Provider("p", "model_p.py", <<Item("", "llm.py"), Item("", "models.py")>>)
  @@ "endpoints" :> Provider("p", "", <<Item("/hook", "hook.py")>>)
  @@ "agents" :> Provider("p", "", <<Item("react", "react.py")>>)
  @@ "crawl" :> [Provider("p", "p_source.py", <<Item("site", "site.py")>>)
                   EXCEPT !.type = "website_crawl"]
  @@ "pages" :> [Provider("d", "d.py", <<Item("notes", "notes.py")>>)
                   EXCEPT !.type = "online_document", !.oauth = TRUE]
  @@ "drive" :> [Provider("e", "e.py", <<Item("drive", "drive.py")>>)
                   EXCEPT !.type = "online_drive"]
  @@ "trigger" :> [Provider("t", "t.py", <<Item("push", "push.py")>>)
                     EXCEPT !.constructor = [source |-> "subscribe.py", oauth |-> TRUE]]
  @@ "twice" :> Provider("t", "t.py", <<Item("push", "push.py"), Item("push", "push.py")>>)
  @@ "astray" :> [Provider("d", "notes.py", <<>>) EXCEPT !.type = "website_crawl"]
  @@ "lost" :> [Provider("t", "t.py", <<>>)
                  EXCEPT !.constructor = [source |-> "push.py", oauth |-> FALSE]]
  @@ "none" :> None
  @@ "absent" :> Provider("p", "p.py", <<Item("search", "absent.py")>>)
  @@ "empty" :> Provider("p", "draw.py", <<>>)

\* A base class of another package is imported first.
Modules ==
  "p.py" :> <<Class("P", "p", {"ToolProvider"}, OAuthHooks \cup {"_validate_credentials"}, None)>>
  @@ "search.py" :> <<Class("Search", "p", {"Tool"}, {"_fetch_parameter_options"}, None)>>
  @@ "gone.py" :> <<Plain("Gone", "p", "Tool")>>
  @@ "draw.py" :> <<Class("Draw", "p", {"Tool"}, {"_get_runtime_parameters"}, None)>>
  @@ "q.py" :> <<Plain("Q", "q", "ToolProvider")>>
  @@ "q_search.py" :> <<Plain("QSearch", "q", "Tool")>>
  @@ "model_p.py" :> <<Plain("ModelP", "p", "ModelProvider")>>
  @@ "llm.py" :> <<Model("OAICompat", "compatible", "LargeLanguageModel", {}, "llm"),
                   Model("LLM", "p", "LargeLanguageModel",
                         {"polling", "_start_polling", "_check_polling",
                          "get_customizable_model_schema"}, "llm")>>
  @@ "models.py" :> <<Model("Embedding", "p", "TextEmbeddingModel", {}, "text-embedding"),
                      Model("Rerank", "p", "RerankModel", {"_invoke_multimodal"}, "rerank"),
                      Model("TTS", "p", "TTSModel", {}, "tts"),
                      Model("Speech", "p", "Speech2TextModel", {}, "speech2text"),
                      Model("Moderation", "p", "ModerationModel", {}, "moderation")>>
  @@ "hook.py" :> <<Plain("Hook", "p", "Endpoint")>>
  @@ "react.py" :> <<Plain("React", "p", "AgentStrategy")>>
  @@ "p_source.py" :> <<Plain("PSource", "p", "DatasourceProvider")>>
  @@ "site.py" :> <<Plain("Site", "p", "WebsiteCrawlDatasource")>>
  @@ "d.py" :> <<Class("D", "d", {"DatasourceProvider"}, OAuthHooks, None)>>
  @@ "notes.py" :> <<Plain("Notes", "d", "OnlineDocumentDatasource")>>
  @@ "e.py" :> <<Plain("E", "e", "DatasourceProvider")>>
  @@ "drive.py" :> <<Plain("Drive", "e", "OnlineDriveDatasource")>>
  @@ "t.py" :> <<Plain("T", "t", "Trigger")>>
  @@ "subscribe.py" :> <<Class("Subscribe", "t", {"TriggerSubscriptionConstructor"},
                               OAuthHooks \cup {"_validate_api_key"}, None)>>
  @@ "push.py" :> <<Class("Push", "t", {"Event"}, {"_fetch_parameter_options"}, None)>>


Whole ==
  [manifest |-> ("tools" :> <<"tools", "other", "again">> @@ "models" :> <<"models">>
                 @@ "endpoints" :> <<"endpoints">> @@ "agent_strategies" :> <<"agents">>
                 @@ "datasources" :> <<"crawl", "pages", "drive">>
                 @@ "triggers" :> <<"trigger">>),
   yaml |-> Yaml, modules |-> Modules,
   assets |-> <<[name |-> "empty.svg", data |-> <<>>],
                [name |-> "exact.svg", data |-> <<1, 2>>],
                [name |-> "more.svg", data |-> <<1, 2, 3>>]>>,
   missing |-> {}]

Changed(k, declared) == [Whole EXCEPT !.manifest[k] = declared]

\* The whole one, and each of the others stops at something else.
MCPlugins ==
  {Whole,
   Changed("models", <<"none">>), Changed("tools", <<"absent">>), Changed("tools", <<"empty">>),
   Changed("models", <<"tools">>), Changed("endpoints", <<"absent">>),
   Changed("agent_strategies", <<"again">>), Changed("datasources", <<"pages", "astray">>),
   Changed("triggers", <<"trigger", "trigger">>), Changed("triggers", <<"twice">>),
   Changed("triggers", <<"lost">>)}
  \cup {[Whole EXCEPT !.missing = {gone}] : gone \in {"manifest.yaml", "_assets"}}

Ask(type, action, provider, item) ==
  [type |-> type, action |-> action, provider |-> provider, item |-> item, fit |-> "fits"]

\* One of every action, ...
Good ==
  {Ask("tool", a, "p", "draw") : a \in {"invoke_tool", "get_tool_runtime_parameters"}}
  \cup {Ask("tool", "validate_tool_credentials", "p", "draw"),
        Ask("agent_strategy", "invoke_agent_strategy", "p", "react"),
        Ask("endpoint", "invoke_endpoint", "p", "/hook"),
        Ask("datasource", "validate_datasource_credentials", "p", "site"),
        Ask("datasource", "invoke_website_datasource_get_crawl", "p", "site")}
  \cup {Ask("model", a, "p", "llm") :
          a \in {"invoke_llm", "start_polling", "check_polling", "get_llm_num_tokens",
                 "validate_provider_credentials", "validate_model_credentials",
                 "get_ai_model_schemas"}}
  \cup {Ask("model", a, "p", "text-embedding") :
          a \in {"invoke_text_embedding", "invoke_multimodal_embedding",
                 "get_text_embedding_num_tokens"}}
  \cup {Ask("model", a, "p", "rerank") : a \in {"invoke_rerank", "invoke_multimodal_rerank"}}
  \cup {Ask("model", a, "p", "tts") : a \in {"invoke_tts", "get_tts_model_voices"}}
  \cup {Ask("model", "invoke_speech2text", "p", "speech2text"),
        Ask("model", "invoke_moderation", "p", "moderation")}
  \cup {Ask("datasource", a, "d", "notes") :
          a \in {"invoke_online_document_datasource_get_pages",
                 "invoke_online_document_datasource_get_page_content"}}
  \cup {Ask("datasource", a, "e", "drive") :
          a \in {"invoke_online_drive_browse_files", "invoke_online_drive_download_file"}}
  \cup {Ask("oauth", "get_authorization_url", "p", ""), Ask("oauth", "get_credentials", "t", ""),
        Ask("oauth", "refresh_credentials", "d", ""), Ask("oauth", "revoke_credentials", "t", "")}
  \cup {Ask("dynamic_parameter", "fetch_parameter_options", "t", "provider"),
        Ask("dynamic_parameter", "fetch_parameter_options", "t", "push"),
        Ask("dynamic_parameter", "fetch_parameter_options", "p", "search")}
  \cup {Ask("trigger", a, "t", "push") :
          a \in {"invoke_trigger_event", "validate_trigger_credentials",
                 "dispatch_trigger_event", "subscribe_trigger", "unsubscribe_trigger",
                 "refresh_trigger"}}

\* ... and some that the plugin has nothing for, or that do not fit.
Bad ==
  {Ask("tool", "invoke_tool", "q", "draw"), Ask("tool", "invoke_tool", "p", "gone"),
   Ask("tool", "get_tool_runtime_parameters", "p", "search"),
   Ask("model", "invoke_llm", "p", "rerank"), Ask("model", "invoke_llm", "q", "llm"),
   Ask("model", "invoke_tts", "p", "llm"), Ask("model", "start_polling", "p", "tts"),
   Ask("model", "invoke_speech2text", "p", "llm"), Ask("model", "invoke_speech2text", "p", ""),
   Ask("model", "invoke_speech2text", "q", "llm"),
   Ask("model", "invoke_text_embedding", "p", "llm"),
   Ask("model", "unknown", "p", "llm"),
   Ask("endpoint", "unknown", "p", "/hook"), Ask("endpoint", "invoke_endpoint", "p", "/other"),
   Ask("dynamic_parameter", "fetch_parameter_options", "p", "gone"),
   Ask("oauth", "get_credentials", "q", ""), Ask("trigger", "subscribe_trigger", "p", ""),
   [Ask("model", "invoke_llm", "p", "llm") EXCEPT !.fit = "type error"],
   [Ask("tool", "invoke_tool", "p", "search") EXCEPT !.fit = "invalid"]}

MCRequests == Good \cup Bad

WorkerSymmetry == Permutations(Workers) \cup Permutations(Sessions)
=============================================================================
