---------------------------- MODULE ToolCatalog ----------------------------
(***************************************************************************)
(* The tools an agent is built with: the built-in ones and those that MCP  *)
(* servers offer, under the name server__tool.  A name is the sequence of  *)
(* its segments, what "__" separates: different pairs of server and tool   *)
(* may make one name.  Built-in names have one segment.                    *)
(***************************************************************************)
EXTENDS Naturals, Sequences, SequencesExt

CONSTANTS ServerNames, Offers

Segments == {"rag_search", "web_search", "get_local_time"}
BuiltInNames == {<<segment>> : segment \in Segments}

(* Offers lists the names of the tools of each server, in its order *)
ASSUME CatalogAssumption ==
    /\ ServerNames \subseteq Seq(STRING) \ {<<>>}
    /\ Offers \in [ServerNames -> Seq(Seq(STRING) \ {<<>>})]

(* A tool is told apart by where it comes from, not by its name *)
BuiltIn(name) == [from |-> <<>>, nth |-> 0, name |-> name]

Namespaced(server, tool) == server \o tool

(* web_search needs its key; the other two are always there *)
BuiltInTools(settings) ==
    {BuiltIn(name) : name \in IF settings.search THEN BuiltInNames
                              ELSE BuiltInNames \ {<<"web_search">>}}

(* load_tools_by_server, and the names bootstrap_mcp_tools gives *)
Discovered(servers) ==
    UNION {{[from |-> server, nth |-> i, name |-> Namespaced(server, Offers[server][i])] :
              i \in DOMAIN Offers[server]} : server \in ToSet(servers)}

Clash(tools) == \E a, b \in tools : a # b /\ a.name = b.name

(* Mutant: names are not compared when tools are loaded *)
BootFailsOnNames(settings) == ~IsInjective(settings.servers)

(* build_connections refuses a name given twice, bootstrap_mcp_tools a clash *)
BootFails(settings) ==
    \/ ~IsInjective(settings.servers)
    \/ Clash(Discovered(settings.servers))

Registry(settings, mcpTools) == BuiltInTools(settings) \cup mcpTools

(* _build_tool_registry: a clash is an error of the request that builds it *)
RegistryFails(settings, mcpTools) == Clash(Registry(settings, mcpTools))
=============================================================================
