------------------------- MODULE PluginRegistration -------------------------
(***************************************************************************)
(* The start of a plugin (core/plugin_registration.py, core/trigger_       *)
(* factory.py, core/utils/, plugin.py): its manifest and its providers are *)
(* read, the classes they name are loaded and entered in tables, and a     *)
(* remote plugin announces itself to the daemon. Whatever fails ends the   *)
(* process.                                                                *)
(*                                                                         *)
(* A plugin is a directory, a record of                                    *)
(*   manifest  kind -> the files of its providers, in order                *)
(*   yaml      file -> the provider it describes, or None                  *)
(*   modules   source -> the classes in the module's namespace, in order,  *)
(*             those it imports included                                   *)
(*   assets    the files in _assets, each a name and its data              *)
(*   missing   what of manifest.yaml and _assets is not there, or cannot   *)
(*             be read                                                     *)
(* and a provider, of any kind, a record of                                *)
(*   name, source, oauth                                                   *)
(*   type         of a datasource provider                                 *)
(*   constructor  None, or the source and the oauth schema of a trigger's  *)
(*                subscription constructor                                 *)
(*   items        its tools, model sources, endpoints ..., each a record   *)
(*                of name, source, runtime (it has runtime parameters)     *)
(***************************************************************************)
EXTENDS PluginInterfaces, Naturals, FiniteSets, SequencesExt

CONSTANTS
  Plugins,   \* the directories a run starts from
  ChunkSize  \* bytes in a piece of an asset or of a blob

ASSUME ChunkSizeAssumption == ChunkSize \in Nat \ {0}

Kinds == <<"tools", "models", "endpoints", "agent_strategies", "datasources", "triggers">>

VARIABLES
  plugin,        \* the directory
  stage, kind,   \* what is being done, and for which kind of providers
  todo,          \* what is left of it: files, or providers
  configuration, \* kind -> the providers declared
  tools, models, endpoints, agents, datasources, triggers, \* the tables
  files,         \* the assets
  announced      \* what the daemon has been told

tables == <<tools, models, endpoints, agents, datasources, triggers>>
registrationVars == <<plugin, stage, kind, todo, configuration, tables, files, announced>>

Empty == [n \in {} |-> None]

\* table[name] = value, and the rest of the table as it was.
Put(table, name, value) ==
  [n \in DOMAIN table \cup {name} |-> IF n = name THEN value ELSE table[n]]

Elements(s) == {s[i] : i \in DOMAIN s}

\* All the datasources of a provider are of its type.
DatasourceBase ==
  [website_crawl |-> "WebsiteCrawlDatasource", online_document |-> "OnlineDocumentDatasource",
   online_drive |-> "OnlineDriveDatasource"]

-----------------------------------------------------------------------------
(***************************************************************************)
(* What a plugin's directory is like, whatever is wrong with the plugin.   *)
(***************************************************************************)

Items == [name : STRING, source : STRING, runtime : BOOLEAN]

Providers ==
  [name : STRING, source : STRING, oauth : BOOLEAN,
   type : {None} \cup DOMAIN DatasourceBase,
   constructor : {None} \cup [source : STRING, oauth : BOOLEAN],
   items : Seq(Items)]

Classes ==
  [name : STRING, of : STRING, bases : SUBSET STRING, hooks : SUBSET STRING,
   model_type : {None} \cup STRING, owner : {None}]

(***************************************************************************)
(* A datasource provider has a type. The files in _assets, as every        *)
(* directory's, have different names.                                      *)
(***************************************************************************)
Directory(d) ==
  /\ d.manifest \in [Elements(Kinds) -> Seq(DOMAIN d.yaml)]
  /\ d.yaml \in [DOMAIN d.yaml -> {None} \cup Providers]
  /\ \A f \in Elements(d.manifest["datasources"]) :
       d.yaml[f] # None => d.yaml[f].type # None
  /\ d.modules \in [DOMAIN d.modules -> Seq(Classes)]
  /\ d.assets \in Seq([name : STRING, data : Seq(Nat)])
  /\ \A i, j \in DOMAIN d.assets : d.assets[i].name = d.assets[j].name => i = j
  /\ d.missing \subseteq {"manifest.yaml", "_assets"}

SourcesOf(p) ==
  {p.source} \cup {p.items[i].source : i \in DOMAIN p.items}
  \cup IF p.constructor = None THEN {} ELSE {p.constructor.source}

(***************************************************************************)
(* A provider's sources are written for it: what a module imports of the   *)
(* interfaces, it imports to derive a class of its own from it.            *)
(***************************************************************************)
WrittenFor(name, classes) ==
  \A i \in DOMAIN classes : classes[i].bases # {} =>
    \E j \in DOMAIN classes :
      /\ j >= i /\ classes[j].of = name
      /\ classes[i].bases \subseteq classes[j].bases
      /\ classes[j].model_type = classes[i].model_type

ASSUME PluginsAssumption ==
  \A d \in Plugins :
    /\ Directory(d)
    /\ \A f \in DOMAIN d.yaml : d.yaml[f] # None =>
         \A source \in SourcesOf(d.yaml[f]) \cap DOMAIN d.modules :
           WrittenFor(d.yaml[f].name, d.modules[source])

RegistrationInit ==
  /\ plugin \in Plugins
  /\ stage = "manifest" /\ kind = "tools" /\ todo = <<>>
  /\ configuration = [k \in Elements(Kinds) |-> <<>>]
  /\ tools = Empty /\ models = Empty /\ endpoints = <<>> /\ agents = Empty
  /\ datasources = Empty /\ triggers = Empty
  /\ files = <<>> /\ announced = <<>>

-----------------------------------------------------------------------------
(***************************************************************************)
(* The class loader. A module that cannot be imported has no classes here: *)
(* either way the loader raises.                                           *)
(***************************************************************************)

\* Where in the namespace of the module they are.
get_subclasses_from_module(source, parent) ==
  {i \in DOMAIN plugin.modules[source] : parent \in plugin.modules[source][i].bases}

import_fails(source) == source \notin DOMAIN plugin.modules

\* The one subclass, or None for an error.
load_single_subclass(source, parent) ==
  IF import_fails(source) THEN None
  ELSE LET found == get_subclasses_from_module(source, parent)
       IN  IF \E i \in found : found = {i}
           THEN plugin.modules[source][CHOOSE i \in found : TRUE] ELSE None

load_multi_subclasses(source, parent) == get_subclasses_from_module(source, parent)

\* The classes of a provider's items, item by item.
item_classes(p, parent) ==
  [i \in DOMAIN p.items |-> load_single_subclass(p.items[i].source, parent)]

\* A dictionary filled in this order: a later item replaces one of its name.
by_name(items, values) ==
  [n \in {items[i].name : i \in DOMAIN items} |->
     values[Max({i \in DOMAIN items : items[i].name = n})]]

-----------------------------------------------------------------------------
(***************************************************************************)
(* The manifest and the files that it names.                               *)
(***************************************************************************)

Fail == stage' = "failed" /\ todo' = <<>> /\ UNCHANGED <<configuration, tables>>

NextKind == Kinds[CHOOSE i \in 2 .. Len(Kinds) : Kinds[i - 1] = kind]

LoadManifest ==
  /\ stage = "manifest"
  /\ IF "manifest.yaml" \in plugin.missing
     THEN Fail
     ELSE stage' = "read" /\ todo' = plugin.manifest["tools"] /\ UNCHANGED <<configuration, tables>>
  /\ UNCHANGED <<plugin, kind, files, announced>>

\* The next of the files.
LoadProvider ==
  /\ stage = "read"
  /\ todo # <<>>
  /\ IF plugin.yaml[Head(todo)] = None
     THEN Fail
     ELSE /\ configuration' =
               [configuration EXCEPT ![kind] = Append(@, plugin.yaml[Head(todo)])]
          /\ todo' = Tail(todo)
          /\ UNCHANGED <<stage, tables>>
  /\ UNCHANGED <<plugin, kind, files, announced>>

\* The next kind, or the tables.
LoadedKind ==
  /\ stage = "read"
  /\ todo = <<>>
  /\ IF kind = "triggers"
     THEN stage' = "resolve" /\ kind' = "tools" /\ todo' = configuration["tools"]
     ELSE kind' = NextKind /\ todo' = plugin.manifest[NextKind] /\ UNCHANGED stage
  /\ UNCHANGED <<plugin, configuration, tables, files, announced>>

-----------------------------------------------------------------------------
(***************************************************************************)
(* The tables. A provider of the name of an earlier one replaces it, but   *)
(* for a trigger's, which is refused.                                      *)
(***************************************************************************)

Resolving(k) == stage = "resolve" /\ kind = k /\ todo # <<>>

(***************************************************************************)
(* A tool that has runtime parameters is declared to have them, whatever   *)
(* its file says.                                                          *)
(***************************************************************************)
with_runtime(p, loaded) ==
  [p EXCEPT !.items = [i \in DOMAIN p.items |->
     [p.items[i] EXCEPT !.runtime = @ \/ Tool_has_runtime_parameters(loaded[i])]]]

\* mutant: the tools that an earlier declaration had are still there
ResolveToolsKept ==
  /\ Resolving("tools")
  /\ LET p == Head(todo)
         i == Len(configuration["tools"]) - Len(todo) + 1
         cls == load_single_subclass(p.source, "ToolProvider")
         loaded == item_classes(p, "Tool")
     IN  IF cls = None \/ None \in Elements(loaded)
         THEN Fail
         ELSE /\ configuration' =
                   [configuration EXCEPT !["tools"][i] = with_runtime(p, loaded)]
              /\ tools' = Put(tools, p.name,
                   [config |-> with_runtime(p, loaded), cls |-> cls,
                    items |-> by_name(p.items, loaded)
                              @@ IF p.name \in DOMAIN tools
                                 THEN tools[p.name].items ELSE Empty])
              /\ todo' = Tail(todo)
              /\ UNCHANGED <<stage, models, endpoints, agents, datasources, triggers>>
  /\ UNCHANGED <<plugin, kind, files, announced>>

_resolve_tool_providers ==
  /\ Resolving("tools")
  /\ LET p == Head(todo)
         i == Len(configuration["tools"]) - Len(todo) + 1
         cls == load_single_subclass(p.source, "ToolProvider")
         loaded == item_classes(p, "Tool")
     IN  IF cls = None \/ None \in Elements(loaded)
         THEN Fail
         ELSE /\ configuration' =
                   [configuration EXCEPT !["tools"][i] = with_runtime(p, loaded)]
              /\ tools' = Put(tools, p.name,
                   [config |-> with_runtime(p, loaded), cls |-> cls,
                    items |-> by_name(p.items, loaded)])
              /\ todo' = Tail(todo)
              /\ UNCHANGED <<stage, models, endpoints, agents, datasources, triggers>>
  /\ UNCHANGED <<plugin, kind, files, announced>>

\* The bases of a model that can be served.
ModelBases == {"LargeLanguageModel", "TextEmbeddingModel", "RerankModel", "TTSModel",
               "Speech2TextModel", "ModerationModel"}

\* Where in the namespace of a source the classes of this type of model are.
classes_of_type(source, type) ==
  {i \in load_multi_subclasses(source, "AIModel") :
     LET c == plugin.modules[source][i]
     IN  c.bases \cap ModelBases # {} /\ c.model_type = type}

model_types(p) ==
  {c.model_type : c \in UNION {Elements(plugin.modules[p.items[i].source]) : i \in DOMAIN p.items}}

\* The items with a class of this type.
having_type(p, type) ==
  {i \in DOMAIN p.items : classes_of_type(p.items[i].source, type) # {}}

\* mutant: the first class of a type is kept, so an imported one wins
model_classesFirst(p) ==
  [type \in {t \in model_types(p) : having_type(p, t) # {}} |->
     LET source == p.items[Min(having_type(p, type))].source
     IN  plugin.modules[source][Min(classes_of_type(source, type))]]

(***************************************************************************)
(* Of each type the last class: in the last source that has one, the last  *)
(* of the module's namespace, an imported one as well as the plugin's own. *)
(***************************************************************************)
model_classes(p) ==
  [type \in {t \in model_types(p) : having_type(p, t) # {}} |->
     LET source == p.items[Max(having_type(p, type))].source
     IN  plugin.modules[source][Max(classes_of_type(source, type))]]

_resolve_model_providers ==
  /\ Resolving("models")
  /\ LET p == Head(todo)
         cls == load_single_subclass(p.source, "ModelProvider")
     IN  IF cls = None \/ \E i \in DOMAIN p.items : import_fails(p.items[i].source)
         THEN Fail
         ELSE /\ models' = Put(models, p.name, [config |-> p, instance |-> cls,
                                                types |-> model_classes(p)])
              /\ todo' = Tail(todo)
              /\ UNCHANGED <<stage, configuration, tools, endpoints, agents, datasources,
                             triggers>>
  /\ UNCHANGED <<plugin, kind, files, announced>>

\* A rule for each, in this order.
_resolve_endpoints ==
  /\ Resolving("endpoints")
  /\ LET p == Head(todo)
         loaded == item_classes(p, "Endpoint")
     IN  IF None \in Elements(loaded)
         THEN Fail
         ELSE /\ endpoints' = endpoints \o [i \in DOMAIN loaded |->
                                [path |-> p.items[i].name, cls |-> loaded[i]]]
              /\ todo' = Tail(todo)
              /\ UNCHANGED <<stage, configuration, tools, models, agents, datasources,
                             triggers>>
  /\ UNCHANGED <<plugin, kind, files, announced>>

_resolve_agent_providers ==
  /\ Resolving("agent_strategies")
  /\ LET p == Head(todo)
         loaded == item_classes(p, "AgentStrategy")
     IN  IF None \in Elements(loaded)
         THEN Fail
         ELSE /\ agents' = Put(agents, p.name, by_name(p.items, loaded))
              /\ todo' = Tail(todo)
              /\ UNCHANGED <<stage, configuration, tools, models, endpoints, datasources,
                             triggers>>
  /\ UNCHANGED <<plugin, kind, files, announced>>

_resolve_datasource_providers ==
  /\ Resolving("datasources")
  /\ LET p == Head(todo)
         cls == load_single_subclass(p.source, "DatasourceProvider")
         loaded == item_classes(p, DatasourceBase[p.type])
     IN  IF cls = None \/ None \in Elements(loaded)
         THEN Fail
         ELSE /\ datasources' =
                   Put(datasources, p.name, [config |-> p, cls |-> cls,
                     items |-> [t \in DOMAIN DatasourceBase |->
                                  IF t = p.type THEN by_name(p.items, loaded) ELSE Empty]])
              /\ todo' = Tail(todo)
              /\ UNCHANGED <<stage, configuration, tools, models, endpoints, agents,
                             triggers>>
  /\ UNCHANGED <<plugin, kind, files, announced>>

(***************************************************************************)
(* The constructor is in the trigger's own module, or in one of its own if *)
(* there is none.                                                          *)
(***************************************************************************)
constructor_source(p) ==
  IF /\ get_subclasses_from_module(p.source, "TriggerSubscriptionConstructor") = {}
     /\ p.constructor # None
  THEN p.constructor.source ELSE p.source

\* The trigger_factory's part: no provider and no event twice.
registered_twice(p) ==
  \/ p.name \in DOMAIN triggers
  \/ \E i, j \in DOMAIN p.items : i # j /\ p.items[i].name = p.items[j].name

_resolve_trigger_providers ==
  /\ Resolving("triggers")
  /\ LET p == Head(todo)
         cls == load_single_subclass(p.source, "Trigger")
         loaded == item_classes(p, "Event")
         from == constructor_source(p)
         candidates == load_multi_subclasses(from, "TriggerSubscriptionConstructor")
         constructor == load_single_subclass(from, "TriggerSubscriptionConstructor")
     IN  IF \/ cls = None
            \/ import_fails(from) \/ \E i, j \in candidates : i # j
            \/ p.constructor # None /\ constructor = None
            \/ None \in Elements(loaded)
            \/ registered_twice(p)
         THEN Fail
         ELSE /\ triggers' =
                   Put(triggers, p.name, [config |-> p, cls |-> cls, constructor |-> constructor,
                                          events |-> by_name(p.items, loaded)])
              /\ todo' = Tail(todo)
              /\ UNCHANGED <<stage, configuration, tools, models, endpoints, agents,
                             datasources>>
  /\ UNCHANGED <<plugin, kind, files, announced>>

_resolve_plugin_cls ==
  /\ stage = "resolve"
  /\ todo = <<>>
  /\ IF kind = "triggers"
     THEN stage' = "assets" /\ UNCHANGED <<kind, todo>>
     ELSE kind' = NextKind /\ todo' = configuration[NextKind] /\ UNCHANGED stage
  /\ UNCHANGED <<plugin, configuration, tables, files, announced>>

_load_plugin_assets ==
  /\ stage = "assets"
  /\ IF "_assets" \in plugin.missing
     THEN Fail /\ UNCHANGED files
     ELSE files' = plugin.assets /\ stage' = "connect" /\ UNCHANGED <<todo, configuration, tables>>
  /\ UNCHANGED <<plugin, kind, announced>>

-----------------------------------------------------------------------------
(***************************************************************************)
(* What is told the daemon: the manifest, each kind that has providers,    *)
(* the assets piece by piece, and the end.                                 *)
(***************************************************************************)

\* mutant: the pieces are counted by the whole chunks
PiecesWhole(data) ==
  [i \in 1 .. Len(data) \div ChunkSize |->
     SubSeq(data, (i - 1) * ChunkSize + 1, i * ChunkSize)]

\* The last piece may be short; there is none of nothing.
Pieces(data) ==
  [i \in 1 .. (Len(data) + ChunkSize - 1) \div ChunkSize |->
     SubSeq(data, (i - 1) * ChunkSize + 1,
            IF i * ChunkSize < Len(data) THEN i * ChunkSize ELSE Len(data))]

Announcement(type, data) == [type |-> type, data |-> data]

AssetChunk(filename, data, end) ==
  Announcement("asset_chunk", [filename |-> filename, data |-> data, end |-> end])

AssetChunks(file) ==
  [i \in DOMAIN Pieces(file.data) |->
     AssetChunk(file.name, Pieces(file.data)[i], i * ChunkSize >= Len(file.data))]

AllChunks == FlattenSeq([i \in DOMAIN files |-> AssetChunks(files[i])])

\* A kind without providers is not mentioned.
Declarations ==
  FlattenSeq([i \in DOMAIN Kinds |->
                IF configuration[Kinds[i]] = <<>> THEN <<>>
                ELSE <<Announcement(Kinds[i], configuration[Kinds[i]])>>])

Announcements ==
  <<Announcement("manifest", <<>>)>> \o Declarations \o AllChunks \o <<Announcement("end", <<>>)>>

_initialize_tcp_stream ==
  /\ stage = "connect"
  /\ announced' = Announcements
  /\ stage' = "serving"
  /\ UNCHANGED <<plugin, kind, todo, configuration, tables, files>>

Starting ==
  \/ LoadManifest \/ LoadProvider \/ LoadedKind
  \/ _resolve_tool_providers \/ _resolve_model_providers \/ _resolve_endpoints
  \/ _resolve_agent_providers \/ _resolve_datasource_providers
  \/ _resolve_trigger_providers \/ _resolve_plugin_cls
  \/ _load_plugin_assets \/ _initialize_tcp_stream

-----------------------------------------------------------------------------
(***************************************************************************)
(* What a request asks the tables. None is an error of the caller's, or of *)
(* the table's own.                                                        *)
(***************************************************************************)

Lookup(table, n) == IF n \in DOMAIN table THEN table[n] ELSE None

get_tool_provider_cls(p) == IF p \in DOMAIN tools THEN tools[p].cls ELSE None

get_tool_cls(p, t) == IF p \in DOMAIN tools THEN Lookup(tools[p].items, t) ELSE None

get_agent_strategy_cls(p, a) == IF p \in DOMAIN agents THEN Lookup(agents[p], a) ELSE None

get_model_provider_instance(p) == IF p \in DOMAIN models THEN models[p].instance ELSE None

\* mutant: one instance serves all
get_instanceShared(p, t, w) == Lookup(models[p].types, t)

\* A new instance is its class and whose it is.
InstanceOf(cls, w) ==
  [f \in DOMAIN cls \cup {"owner"} |-> IF f = "owner" THEN w ELSE cls[f]]

\* The factory makes a new instance of the class, for whoever asks.
get_instance(p, t, w) ==
  IF t \in DOMAIN models[p].types THEN InstanceOf(models[p].types[t], w) ELSE None

get_model_instance(p, t, w) == IF p \in DOMAIN models THEN get_instance(p, t, w) ELSE None

get_trigger_provider(p) == IF p \in DOMAIN triggers THEN triggers[p].cls ELSE None

get_subscription_constructor(p) ==
  IF p \in DOMAIN triggers THEN triggers[p].constructor ELSE None

get_trigger_event_handler(p, e) ==
  IF p \in DOMAIN triggers THEN Lookup(triggers[p].events, e) ELSE None

get_datasource_provider_cls(p) ==
  IF p \in DOMAIN datasources THEN datasources[p].cls ELSE None

get_website_crawl_datasource_cls(p, d) ==
  IF p \in DOMAIN datasources THEN Lookup(datasources[p].items.website_crawl, d) ELSE None

get_online_document_datasource_cls(p, d) ==
  IF p \in DOMAIN datasources THEN Lookup(datasources[p].items.online_document, d) ELSE None

get_online_drive_datasource_cls(p, d) ==
  IF p \in DOMAIN datasources THEN Lookup(datasources[p].items.online_drive, d) ELSE None

\* By the first rule that matches.
dispatch_endpoint_request(path) ==
  LET found == {i \in DOMAIN endpoints : endpoints[i].path = path}
  IN  IF found = {} THEN None ELSE endpoints[Min(found)].cls

(***************************************************************************)
(* A trigger with an OAuth schema and a constructor, then a tool provider, *)
(* then a datasource's.                                                    *)
(***************************************************************************)
get_supported_oauth_provider(p) ==
  IF /\ p \in DOMAIN triggers
     /\ triggers[p].config.constructor # None
     /\ triggers[p].config.constructor.oauth
     /\ triggers[p].constructor # None
  THEN triggers[p].constructor
  ELSE IF p \in DOMAIN tools /\ tools[p].config.oauth THEN tools[p].cls
  ELSE IF p \in DOMAIN datasources /\ datasources[p].config.oauth THEN datasources[p].cls
  ELSE None
=============================================================================
