---------------------------- MODULE FileProvider ----------------------------
(***************************************************************************)
(* The reference host's files provider (FilesystemResourceProvider): each  *)
(* operation on one path of a tenant's tree is a short run of file system  *)
(* calls, and nothing keeps another operation from coming in between. A    *)
(* write empties the file and then fills it. An operation's signal is      *)
(* looked at before it changes anything and once more after it has.        *)
(*                                                                         *)
(* A version is a digest of a file's text and stands for it here, as a     *)
(* snapshot's id does. What a successful read returns is left out.         *)
(***************************************************************************)
EXTENDS OsTools

CONSTANTS
    Calls,       (* operations, each performed once                              *)
    Paths,       (* the paths of one tenant's tree, as sequences of segments     *)
    Links,       (* those something else planted a link at                       *)
    Seed         (* the tree as it is found: [Paths -> what is at each]          *)

Actions ==
    {"list", "stat", "read", "search", "grep", "create", "replace", "append", "delete",
     "snapshot:create", "snapshot:list", "snapshot:restore"}

absent == [kind |-> "absent"]
directory == [kind |-> "directory"]

(* A file, and who made it: one made anew at a path is another file.       *)
fileOf(text, maker) == [kind |-> "file", text |-> text, maker |-> maker]

ASSUME FileProviderAssumption ==
    /\ Links \subseteq Paths
    /\ DOMAIN Seed = Paths
    /\ \A path \in Paths : path # <<>>
    /\ \A path \in Paths : Len(path) > 1 => Front(path) \in Paths
    /\ None \notin Calls

VARIABLES
    tree,        (* what is at each path                                         *)
    snapshots,   (* what the snapshot directory holds: [path, id, text]          *)
    io,          (* [Calls -> one operation's progress]                          *)
    aborted,     (* the calls whose signal has fired                             *)
    changed      (* the calls that have done what they are for, or part of it    *)

providerVars == <<tree, snapshots, io, aborted, changed>>

(* What an operation may leave behind it, short of what it is for: the     *)
(* directories above its file, or the rest of a directory it was to remove.*)
Leavings == {None, "directories", "rest"}

notAsked ==
    [operation |-> None, todo |-> <<>>, seen |-> <<>>, opened |-> None, left |-> None, ending |-> None]

ProviderInit ==
    /\ tree = Seed
    /\ snapshots = {}
    /\ io = [c \in Calls |-> notAsked]
    /\ aborted = {}
    /\ changed = {}

-----------------------------------------------------------------------------
(* The file system calls each action is made of, in their order. The first *)
(* is #safeResolve's.                                                      *)
stepsOf(action) ==
    <<"resolve">> \o
    CASE action = "list" -> <<"readdir">>
      [] action = "stat" -> <<"stat">>
      [] action = "read" -> <<"notDirectory", "readFile">>
      [] action \in {"search", "grep"} -> <<"input", "walk">>
      [] action = "create" -> <<"notThere", "mkdir", "open", "write">>
      [] action = "replace" -> <<"version", "mkdir", "open", "write">>
      [] action = "append" -> <<"readBase", "version", "mkdir", "open", "write">>
      [] action = "delete" -> <<"version", "removable", "lstat", "rm">>
      [] action = "snapshot:create" -> <<"readFile", "keep", "fill">>
      [] action = "snapshot:list" -> <<"walk">>
      [] action = "snapshot:restore" -> <<"input", "version", "readSnapshot", "open", "write">>

(* Mutant: append reads what it adds to once the version is checked.       *)
stepsOfCheckingFirst(action) ==
    IF action = "append"
    THEN <<"resolve", "version", "readBase", "mkdir", "open", "write">>
    ELSE stepsOf(action)

(* Mutant: restore checks the version of what it is about to fill.         *)
stepsOfCheckingLast(action) ==
    IF action = "snapshot:restore"
    THEN <<"resolve", "input", "readSnapshot", "open", "version", "write">>
    ELSE stepsOf(action)

planOf(action) == stepsOf(action)

operation(c) == io[c].operation
target(c) == operation(c).path

(* What the operation's input holds under a name: nothing is sure to be    *)
(* there, for an operation need not have come through a tool.              *)
given(c, name, otherwise) ==
    IF name \in DOMAIN operation(c).input THEN operation(c).input[name] ELSE otherwise

contentOf(c) == given(c, "content", <<"null">>)
expectedOf(c) == given(c, "expectedVersion", None)
isRecursive(c) == given(c, "recursive", FALSE) = TRUE

here(c) == tree[target(c)]

doing(c, step) == io[c].ending = None /\ io[c].todo # <<>> /\ Head(io[c].todo) = step

onward(c) == [io EXCEPT ![c].todo = Tail(@)]
onwardWith(c, text) == [io EXCEPT ![c].todo = Tail(@), ![c].seen = text]

(* invoke's catch: whatever is thrown once the signal has fired is thrown  *)
(* on, and anything else is a result.                                      *)
failing(c, code) ==
    [io EXCEPT ![c].todo = <<>>,
               ![c].ending = IF c \in aborted THEN "thrown" ELSE code]

(* asFailure: what it refuses, what it found in the way, and what broke.   *)
Denials == {"path_escape", "not_permitted"}
Conflicts ==
    {"version_conflict", "already_exists", "not_empty", "not_a_file", "not_found", "invalid_input"}

statusOf(ending) ==
    IF ending \in Denials THEN "denied" ELSE IF ending = "done" THEN "succeeded" ELSE "failed"

parentsOf(path) == {SubSeq(path, 1, n) : n \in 1..(Len(path) - 1)}
under(path) == {p \in Paths : IsPrefix(path, p)}

hasParent(path) == \A p \in parentsOf(path) : tree[p].kind = "directory"

-----------------------------------------------------------------------------
(* invoke, up to its first await.                                          *)
ProviderAsked(c, asked) ==
    io' = [io EXCEPT ![c] =
             [operation |-> asked, todo |-> planOf(asked.action), seen |-> <<>>,
              opened |-> None, left |-> None, ending |-> IF c \in aborted THEN "thrown" ELSE None]]

(* A link anywhere along the path is refused.                              *)
Resolves(c) ==
    /\ doing(c, "resolve")
    /\ io' = IF (parentsOf(target(c)) \union {target(c)}) \intersect Links # {}
             THEN failing(c, "path_escape") ELSE onward(c)
    /\ UNCHANGED <<tree, snapshots, aborted, changed>>

(* What search, grep and restore cannot do without.                        *)
nameOf(action) ==
    CASE action = "search" -> "query" [] action = "grep" -> "pattern" [] OTHER -> "snapshotId"

(* What is looked at, and what then stands in the way.                     *)
obstacle(c, step) ==
    CASE step = "readdir" ->
           IF here(c).kind = "directory" THEN None
           ELSE IF here(c).kind = "absent" THEN "not_found" ELSE "provider_error"
      [] step = "stat" -> IF here(c).kind = "absent" THEN "not_found" ELSE None
      [] step = "notDirectory" ->
           IF here(c).kind = "absent" THEN "not_found"
           ELSE IF here(c).kind = "directory" THEN "not_a_file" ELSE None
      [] step = "input" -> IF given(c, nameOf(operation(c).action), blank) = blank
                            THEN "invalid_input" ELSE None
      [] step = "notThere" -> IF here(c).kind = "absent" THEN None ELSE "already_exists"
      [] step = "version" ->
           IF expectedOf(c) = None \/
                (here(c).kind = "file" /\ here(c).text = expectedOf(c))
           THEN None ELSE "version_conflict"
      [] step = "removable" ->
           IF here(c).kind = "absent" THEN "not_found"
           ELSE IF here(c).kind = "directory" /\ ~isRecursive(c) THEN "not_empty" ELSE None
      [] step = "lstat" ->
           IF here(c).kind = "absent" THEN "not_found"
           ELSE IF c \in aborted \/ (here(c).kind = "directory" /\ ~isRecursive(c))
           THEN "provider_error" ELSE None
      [] OTHER -> None

Looks(c, step) ==
    /\ doing(c, step)
    /\ io' = IF obstacle(c, step) = None THEN onward(c) ELSE failing(c, obstacle(c, step))
    /\ UNCHANGED <<tree, snapshots, aborted, changed>>

(* append's first read, which takes a file it cannot read for an empty one.*)
ReadsBase(c) ==
    /\ doing(c, "readBase")
    /\ io' = onwardWith(c, IF here(c).kind = "file" THEN here(c).text ELSE <<>>)
    /\ UNCHANGED <<tree, snapshots, aborted, changed>>

ReadsFile(c) ==
    /\ doing(c, "readFile")
    /\ io' = IF here(c).kind = "file" THEN onwardWith(c, here(c).text)
             ELSE failing(c, IF here(c).kind = "absent" THEN "not_found" ELSE "provider_error")
    /\ UNCHANGED <<tree, snapshots, aborted, changed>>

kept(c) == {s \in snapshots : s.path = target(c) /\ s.id = given(c, "snapshotId", blank)}

ReadsSnapshot(c) ==
    /\ doing(c, "readSnapshot")
    /\ IF kept(c) = {} THEN io' = failing(c, "not_found")
       ELSE \E s \in kept(c) : io' = onwardWith(c, s.text)
    /\ UNCHANGED <<tree, snapshots, aborted, changed>>

-----------------------------------------------------------------------------
(* What a write puts in the file.                                          *)
writes(c) ==
    IF operation(c).action = "append" THEN io[c].seen \o contentOf(c)
    ELSE IF operation(c).action = "snapshot:restore" THEN io[c].seen
    ELSE contentOf(c)

(* The directories above it are made, unless a file is in their way. They  *)
(* stay, whether or not anything is then put in them.                      *)
MakesDirectories(c) ==
    /\ doing(c, "mkdir")
    /\ IF c \in aborted \/ \E p \in parentsOf(target(c)) : tree[p].kind = "file"
       THEN io' = failing(c, "provider_error") /\ UNCHANGED <<tree, changed>>
       ELSE /\ tree' = [p \in Paths |->
                          IF p \in parentsOf(target(c)) /\ tree[p].kind = "absent"
                          THEN directory ELSE tree[p]]
            /\ UNCHANGED changed
            /\ io' = [onward(c) EXCEPT ![c].left = IF hasParent(target(c)) THEN @ ELSE "directories"]
    /\ UNCHANGED <<snapshots, aborted>>

(* writeFile opens the file and empties it, making it if it is not there.  *)
(* Only a restore has not made sure of the directory, and its signal has   *)
(* not been looked at yet.                                                 *)
Opens(c) ==
    /\ doing(c, "open")
    /\ IF c \in aborted /\ operation(c).action = "snapshot:restore"
       THEN io' = failing(c, "provider_error") /\ UNCHANGED <<tree, changed>>
       ELSE IF here(c).kind = "directory"
       THEN io' = failing(c, "provider_error") /\ UNCHANGED <<tree, changed>>
       ELSE IF ~hasParent(target(c))
       THEN /\ io' = failing(c, IF \E p \in parentsOf(target(c)) : tree[p].kind = "file"
                                THEN "provider_error" ELSE "not_found")
            /\ UNCHANGED <<tree, changed>>
       ELSE LET maker == IF here(c).kind = "file" THEN here(c).maker ELSE c IN
            /\ tree' = [tree EXCEPT ![target(c)] = fileOf(<<>>, maker)]
            /\ changed' = changed \union {c}
            /\ io' = [onwardWith(c, writes(c)) EXCEPT ![c].opened = maker]
    /\ UNCHANGED <<snapshots, aborted>>

(* The file that was opened is filled from its start, over whatever        *)
(* another has put there since; a file no longer at its path is nobody's.  *)
filled(text, over) == text \o SubSeq(over, Len(text) + 1, Len(over))

Fills(c) ==
    /\ doing(c, "write")
    /\ \/ /\ tree' = IF here(c).kind = "file" /\ here(c).maker = io[c].opened
                     THEN [tree EXCEPT ![target(c)] =
                             fileOf(filled(io[c].seen, here(c).text), here(c).maker)]
                     ELSE tree
          /\ io' = onward(c)
       \/ tree' = tree /\ io' = failing(c, "provider_error")
    /\ UNCHANGED <<snapshots, aborted, changed>>

removing(paths) == [p \in Paths |-> IF p \in paths THEN absent ELSE tree[p]]

(* rm looks once more before it removes (lstat), then takes away whatever  *)
(* it finds: a directory's entries before the directory, where it may be   *)
(* refused on the way. What another has removed since its look, it takes   *)
(* for removed.                                                            *)
Removes(c) ==
    /\ doing(c, "rm")
    /\ \/ tree' = removing(under(target(c))) /\ io' = onward(c)
       \/ /\ here(c).kind = "directory" /\ under(target(c)) # {target(c)}
          /\ tree' = removing(under(target(c)) \ {target(c)})
          /\ io' = [failing(c, "not_permitted") EXCEPT ![c].left = "rest"]
    /\ changed' = changed \union {c}
    /\ UNCHANGED <<snapshots, aborted>>

(* A snapshot is a file of its own, and written as one. Two of one text in *)
(* one millisecond have one name.                                          *)
keeping(c, text) ==
    {s \in snapshots : s.path # target(c) \/ s.id # io[c].seen}
      \union {[path |-> target(c), id |-> io[c].seen, text |-> text]}

Keeps(c) ==
    /\ doing(c, "keep")
    /\ IF c \in aborted THEN io' = failing(c, "provider_error") /\ UNCHANGED <<snapshots, changed>>
       ELSE /\ snapshots' = keeping(c, <<>>)
            /\ changed' = changed \union {c}
            /\ io' = onward(c)
    /\ UNCHANGED <<tree, aborted>>

FillsSnapshot(c) ==
    /\ doing(c, "fill")
    /\ \/ snapshots' = keeping(c, io[c].seen) /\ io' = onward(c)
       \/ UNCHANGED snapshots /\ io' = failing(c, "provider_error")
    /\ UNCHANGED <<tree, aborted, changed>>

(* The output is there. A signal that fired since has it thrown away.      *)
ProviderAnswers(c) ==
    /\ operation(c) # None /\ io[c].todo = <<>> /\ io[c].ending = None
    /\ io' = [io EXCEPT ![c].ending = IF c \in aborted THEN "thrown" ELSE "done"]
    /\ UNCHANGED <<tree, snapshots, aborted, changed>>

(* The file system refuses a step of a call, whatever it is: of a snapshot *)
(* it may have made the directory.                                         *)
NotPermitted(c) ==
    /\ io[c].ending = None /\ io[c].todo # <<>>
    /\ Head(io[c].todo) \in {"resolve", "readdir", "stat", "notDirectory", "readFile", "mkdir", "open",
                             "lstat", "rm", "keep"}
    /\ \/ io' = failing(c, "not_permitted")
       \/ Head(io[c].todo) = "keep" /\ io' = [failing(c, "not_permitted") EXCEPT ![c].left = "directories"]
    /\ UNCHANGED <<tree, snapshots, aborted, changed>>

lookings == {"readdir", "stat", "notDirectory", "input", "walk", "notThere", "version", "removable",
             "lstat"}

ProviderStep(c) ==
    \/ Resolves(c)
    \/ \E step \in lookings : Looks(c, step)
    \/ ReadsBase(c) \/ ReadsFile(c) \/ ReadsSnapshot(c)
    \/ MakesDirectories(c) \/ Opens(c) \/ Fills(c) \/ Removes(c)
    \/ Keeps(c) \/ FillsSnapshot(c)
    \/ NotPermitted(c) \/ ProviderAnswers(c)

=============================================================================
