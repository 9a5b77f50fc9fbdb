------------------------------ MODULE OsTools ------------------------------
(***************************************************************************)
(* The portable file and repository tools (createFileTools,                *)
(* createRepoTools): what arguments each takes, and the resource operation *)
(* a call of it stands for. The path is the only argument authority is     *)
(* decided on; everything else is the provider's input.                    *)
(***************************************************************************)
EXTENDS Integers, Sequences, SequencesExt, TLC

CONSTANT None

(* A tool's action, the least length of its path, and what it takes beside *)
(* the path.                                                               *)
takes(action, least, required, optional) ==
    [action |-> action, least |-> least, required |-> required, optional |-> optional]

fileTools ==
    [tool \in {"files.list", "files.stat", "files.read", "files.search", "files.grep",
               "files.create", "files.replace", "files.append", "files.delete",
               "files.snapshot.create", "files.snapshot.list", "files.snapshot.restore"} |->
     CASE tool = "files.list"   -> takes("list", 0, {}, {})
       [] tool = "files.stat"   -> takes("stat", 0, {}, {})
       [] tool = "files.read"   -> takes("read", 0, {}, {})
       [] tool = "files.search" -> takes("search", 0, {"query"}, {"limit"})
       [] tool = "files.grep"   -> takes("grep", 0, {"pattern"},
                                         {"mode", "caseSensitive", "contextBefore", "contextAfter"})
       [] tool = "files.create"  -> takes("create", 1, {"content"}, {"metadata"})
       [] tool = "files.replace" -> takes("replace", 1, {"content"}, {"expectedVersion"})
       [] tool = "files.append"  -> takes("append", 1, {"content"}, {"expectedVersion", "metadata"})
       [] tool = "files.delete"  -> takes("delete", 1, {}, {"expectedVersion", "recursive"})
       [] tool = "files.snapshot.create"  -> takes("snapshot:create", 0, {}, {"label"})
       [] tool = "files.snapshot.list"    -> takes("snapshot:list", 0, {}, {"limit"})
       [] tool = "files.snapshot.restore" ->
            takes("snapshot:restore", 1, {"snapshotId"}, {"expectedVersion"})]

repoTools ==
    [tool \in {"repo.status", "repo.diff", "repo.log", "repo.stage", "repo.commit"} |->
     CASE tool = "repo.status" -> takes("status", 0, {}, {})
       [] tool = "repo.diff"   -> takes("diff", 0, {}, {"staged", "pathspec"})
       [] tool = "repo.log"    -> takes("log", 0, {}, {"maxCount"})
       [] tool = "repo.stage"  -> takes("stage", 0, {"pathspec"}, {})
       [] tool = "repo.commit" -> takes("commit", 0, {"message"}, {})]

standardTools ==
    [tool \in DOMAIN fileTools \union DOMAIN repoTools |->
        IF tool \in DOMAIN fileTools THEN fileTools[tool] ELSE repoTools[tool]]

namespaceOf(tool) == IF tool \in DOMAIN fileTools THEN "files" ELSE "repo"

(* The arguments' schema, which is strict. A text, a version or an id that *)
(* is none is left blank.                                                  *)
blank == <<>>

acceptsArguments(tool, arguments) ==
    LET spec == standardTools[tool]
        given == DOMAIN arguments \ {"path"} IN
    /\ "path" \in DOMAIN arguments /\ Len(arguments.path) >= spec.least
    /\ spec.required \subseteq given
    /\ given \subseteq spec.required \union spec.optional
    /\ \A name \in given \intersect {"query", "pattern", "snapshotId", "expectedVersion", "message"} :
           arguments[name] # blank

(* The schema's defaults, for what the caller left out.                    *)
defaultsOf(tool) ==
    CASE tool = "files.grep" -> [mode |-> "literal", caseSensitive |-> FALSE,
                                 contextBefore |-> 0, contextAfter |-> 0]
      [] tool = "files.delete" -> [recursive |-> FALSE]
      [] tool = "repo.diff" -> [staged |-> FALSE]
      [] OTHER -> <<>>

(* A call parsed: what resolveRequirement and invoke both read.            *)
parsedCall(tool, arguments) ==
    [namespace |-> namespaceOf(tool), action |-> standardTools[tool].action,
     path |-> arguments.path,
     input |-> [name \in DOMAIN arguments \ {"path"} |-> arguments[name]] @@ defaultsOf(tool)]

=============================================================================
