--------------------------- MODULE PathRewriting ---------------------------
(***************************************************************************)
(* How the path arguments of a file tool are rewritten before they reach   *)
(* its MCP server: into the sandbox, the directory the server was started  *)
(* on.  A path is the sequence of its parts; Links are the symbolic links  *)
(* of the file system, from where they are to the place they stand for.    *)
(*                                                                         *)
(* What the caller wrote is a record: in quotes or not, absolute or not,   *)
(* and its parts.  Parts "." and "" are left out, the code drops them.     *)
(***************************************************************************)
EXTENDS Naturals, Sequences, SequencesExt

CONSTANTS Names, Up, Links, SandboxArgument, WorkingDirectory, MaxParts

PathArgument == [quoted : BOOLEAN, absolute : BOOLEAN, parts : Seq(Names \cup {Up})]

-----------------------------------------------------------------------------
(* Path.resolve: up goes to the parent, a link to what it stands for *)
Enter(place, part) ==
    LET inner == Append(place, part)
    IN  IF part = Up THEN SubSeq(place, 1, Len(place) - 1)
        ELSE IF inner \in DOMAIN Links THEN Links[inner] ELSE inner

RealPath(parts) ==
    LET reached[n \in 0..Len(parts)] == IF n = 0 THEN <<>> ELSE Enter(reached[n - 1], parts[n])
    IN  reached[Len(parts)]

(* No link is on the way to the place *)
Resolved(place) ==
    /\ place \in Seq(Names)
    /\ \A n \in 1..Len(place) : SubSeq(place, 1, n) \notin DOMAIN Links

(* Links stand for places, not for other links *)
ASSUME PathAssumption ==
    /\ Up \notin Names
    /\ SandboxArgument \in PathArgument
    /\ WorkingDirectory \in Seq(Names)
    /\ MaxParts \in Nat
    /\ \A link \in DOMAIN Links : Resolved(Links[link])

(* The last argument of the command that starts the server *)
SandboxRoot ==
    RealPath(IF SandboxArgument.absolute THEN SandboxArgument.parts
            ELSE WorkingDirectory \o SandboxArgument.parts)

ProjectRoot == SubSeq(SandboxRoot, 1, Len(SandboxRoot) - 1)

RelativeTo(path, root) == SubSeq(path, Len(root) + 1, Len(path))

Absolute(path) == [quoted |-> FALSE, absolute |-> TRUE, parts |-> path]

(* Mutant: what lies outside is not refused *)
UnderSandboxUnchecked(parts, raw) == Absolute(RealPath(SandboxRoot \o parts))

(* Mutant: the path is given relative to the project *)
UnderSandboxRelative(parts, raw) ==
    LET candidate == RealPath(SandboxRoot \o parts)
    IN  IF IsPrefix(SandboxRoot, candidate)
        THEN [Absolute(RelativeTo(candidate, ProjectRoot)) EXCEPT !.absolute = FALSE]
        ELSE raw

(* _absolute_under_sandbox; a link may lead out of it *)
UnderSandbox(parts, raw) ==
    LET candidate == RealPath(SandboxRoot \o parts)
    IN  IF IsPrefix(SandboxRoot, candidate) THEN Absolute(candidate) ELSE raw

(* normalize_path_string, branch by branch *)
Normalize(raw) ==
    LET place == RealPath(raw.parts)
        inProject == RelativeTo(place, ProjectRoot)
    IN  CASE ~raw.absolute -> UnderSandbox(raw.parts, raw)
          [] raw.absolute /\ IsPrefix(SandboxRoot, place)
               -> UnderSandbox(RelativeTo(place, SandboxRoot), raw)
          [] OTHER
               -> IF ~IsPrefix(ProjectRoot, place) THEN raw
                  ELSE IF Len(inProject) = 1 THEN UnderSandbox(inProject, raw)
                  ELSE IF inProject # <<>> /\ inProject[1] = SandboxRoot[Len(SandboxRoot)]
                       THEN UnderSandbox(Tail(inProject), raw)
                  ELSE raw

PathKeys == {"path", "source", "destination", "from_path", "to_path", "old_path", "new_path"}

NormalizeArguments(args) ==
    [key \in DOMAIN args |->
       IF key \in PathKeys THEN Normalize(args[key])
       ELSE IF key = "paths" THEN [i \in DOMAIN args[key] |-> Normalize(args[key][i])]
       ELSE args[key]]

-----------------------------------------------------------------------------
(* One call of a file tool, with one path.                                  *)
VARIABLES
    written,        \* the argument as the model wrote it
    argument,       \* as it is now
    layer           \* what the call goes through next

call == <<written, argument, layer>>

Arguments == [quoted : BOOLEAN, absolute : BOOLEAN, parts : SeqOf(Names \cup {Up}, MaxParts)]
PathCall(raw) == [path |-> raw, paths |-> <<raw>>, content |-> raw]

NoCall == written = <<>> /\ argument = <<>> /\ layer = "none"

CallInit ==
    /\ \E raw \in Arguments : written = PathCall(raw)
    /\ argument = written
    /\ layer = "tool"

(* wrap_mcp_tool_coroutine_paths: the tool is wrapped when it is loaded *)
WrappedTool ==
    /\ layer = "tool"
    /\ argument' = NormalizeArguments(argument)
    /\ layer' = "client"
    /\ UNCHANGED written

(* FilesystemPathNormalizer: the client intercepts the calls of each server  *)
(* it has a sandbox of *)
Intercept ==
    /\ layer = "client"
    /\ argument' = NormalizeArguments(argument)
    /\ layer' = "server"
    /\ UNCHANGED written

(* Some calls were seen to bypass the interceptors *)
Bypass ==
    /\ layer = "client"
    /\ layer' = "server"
    /\ UNCHANGED <<written, argument>>

CallNext == WrappedTool \/ Intercept \/ Bypass

CallSpec == CallInit /\ [][CallNext]_call

-----------------------------------------------------------------------------
(* The place a caller means: relative paths start at the sandbox, and so     *)
(* does the bare name of a file that would lie beside it. *)
Meant(raw) ==
    LET place == RealPath(raw.parts)
    IN  IF ~raw.absolute THEN RealPath(SandboxRoot \o raw.parts)
        ELSE IF IsPrefix(SandboxRoot, place) \/ Len(place) # Len(SandboxRoot)
                \/ ~IsPrefix(ProjectRoot, place) THEN place
        ELSE RealPath(Append(SandboxRoot, place[Len(place)]))

(* What reaches the server is the absolute path of the place that was meant  *)
(* if that lies in the sandbox once links and parents are followed, and      *)
(* exactly what was written otherwise: no path is moved to another place, in *)
(* or out, and nothing but paths is touched. *)
MovedIntoSandboxOrLeft ==
    layer = "server" =>
      LET raw == written.path
          sent == IF IsPrefix(SandboxRoot, Meant(raw)) THEN Absolute(Meant(raw)) ELSE raw
      IN  argument = [path |-> sent, paths |-> <<sent>>, content |-> raw]

(* The second layer finds nothing to change in what the first has made, so   *)
(* it does not matter whether a call bypasses it. *)
TwiceIsOnce == [][Intercept => UNCHANGED argument]_call
=============================================================================
