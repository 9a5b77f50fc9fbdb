------------------------- MODULE RemoteCallsProofs -------------------------
(***************************************************************************)
(* Calls over HTTP, any number of them at once, on any tree, with any      *)
(* host's tools: what was authorized is what is done, what a caller is     *)
(* told is true of what was changed, and no patch of the settings undoes   *)
(* another. One invariant carries all three (RInv): what is kept of each   *)
(* call is its own, and an operation that has still to change something    *)
(* has its change ahead of it, and nothing but filling behind it. A second *)
(* (AInv) is of the files: what is appended under an expected version is   *)
(* in one place in them, as long as they do not come to that version again.*)
(***************************************************************************)
EXTENDS RemoteCalls, SequenceTheorems, TLAPS

isCall(k) ==
    DOMAIN k = {"at", "request", "enabled", "requirement", "asked", "response", "shown"}

isOperation(o) == DOMAIN o = {"operation", "todo", "seen", "opened", "left", "ending"}

(* What is kept of a call is its own.                                      *)
Kept(c) ==
    /\ isCall(call[c]) /\ isOperation(io[c])
    /\ call[c].at = "unsent" => prepared[c] = None
    /\ call[c].at \notin {"provider", "elsewhere", "delivering", "awaitingReply", "answering", "over"} =>
          call[c].asked = None
    /\ call[c].at \notin {"answering", "over"} => call[c].shown = None
    /\ call[c].at # "unsent" => request(c) \in Requests
    /\ prepared[c] # None => prepared[c] = madeOf(c)
    /\ call[c].asked # None =>
          call[c].asked = madeOf(c) /\ call[c].requirement = needs(madeOf(c))
    /\ call[c].at = "deciding" /\ request(c).route \in toolRoutes =>
          prepared[c] = madeOf(c) /\ call[c].requirement = needs(madeOf(c))
    /\ call[c].at \notin {"provider", "answering", "over"} => operation(c) = None
    /\ operation(c) \in {None, call[c].asked}
    /\ operation(c) = None => io[c].left = None

(* A call is where its route leads.                                        *)
Placed(c) ==
    /\ call[c].at = "preparing" => request(c).route \in toolRoutes
    /\ call[c].at = "reading" => request(c).route \in asides
    /\ call[c].at = "listing" => request(c).route \in listings \union {"updateToolNamespaces"}
    /\ call[c].at = "patching" => request(c).route = "updateToolNamespaces" /\ request(c).wellFormed
    /\ call[c].at = "deciding" => request(c).route \in toolRoutes \union {"invokeResource", "sendMessage"}
    /\ call[c].at = "delivering" => request(c).route \in {"sendMessage", "requestMessage"}
    /\ call[c].at = "awaitingReply" => request(c).route = "requestMessage"
    /\ call[c].at \in {"provider", "elsewhere"} => request(c).route \in {"invokeTool", "invokeResource"}

(* The looks of an operation come before its first change, and only the    *)
(* filling of what it opened after.                                        *)
firstChanges == {"open", "rm", "keep"}
fillings == {"write", "fill"}

stepNames ==
    {"resolve", "readdir", "stat", "notDirectory", "readFile", "input", "walk", "notThere", "mkdir",
     "open", "write", "version", "readBase", "removable", "lstat", "rm", "keep", "fill",
     "readSnapshot"}

Planned(todo, action) ==
    /\ todo \in Seq(stepNames)
    /\ \A i \in 1..Len(todo) :
          /\ todo[i] = "rm" => action = "delete"
          /\ todo[i] \in firstChanges => \A j \in 1..Len(todo) : j > i => todo[j] \in fillings

isDue(todo) == \E i \in 1..Len(todo) : todo[i] \in firstChanges
isMade(todo) == \A i \in 1..Len(todo) : todo[i] \in fillings

Provided(c) ==
    /\ operation(c) # None /\ Planned(io[c].todo, operation(c).action)
    /\ io[c].ending = None =>
          IF c \in changed THEN isMade(io[c].todo)
          ELSE operation(c).action \in mutations => isDue(io[c].todo)
    /\ io[c].ending \in {None, "thrown", "done", "provider_error"} \union Conflicts \union Denials
    /\ io[c].ending \in Conflicts => c \notin changed
    /\ io[c].ending \in Denials => c \notin changed \/ refusedPartWay(c)
    /\ io[c].ending = "done" /\ operation(c).action \in mutations => c \in changed

(* An answer says what became of the call.                                 *)
isTrue(c, answer) ==
    /\ answer.status \in 400..499 => c \notin changed /\ io[c].left = None
    /\ answer.word \in Conflicts => c \notin changed
    /\ answer.word = "denied" => c \notin changed \/ refusedPartWay(c)
    /\ (answer.word = "succeeded" /\ mutates(c)) => c \in changed

untouched ==
    {"unsent", "sent", "preparing", "deciding", "reading", "delivering", "elsewhere", "patching"}

Answerable(c) ==
    /\ call[c].at \in untouched => c \notin changed
    /\ call[c].at = "listing" => (c \in changed <=> request(c).route = "updateToolNamespaces")
    /\ call[c].at = "awaitingReply" => c \in changed
    /\ call[c].at = "provider" => Provided(c)
    /\ call[c].at = "answering" => isTrue(c, call[c].response)
    /\ told[c] # None => IF call[c].at = "over" THEN isTrue(c, told[c])
                         ELSE told[c] = [status |-> 0, word |-> "lost"]

(* What a patch left enabled, and what a listing showed of it.             *)
isSettled(c) ==
    /\ request(c).asks.enable \subseteq call[c].enabled
    /\ request(c).asks.disable \intersect call[c].enabled = {}

Shown(c) ==
    /\ call[c].at = "listing" /\ request(c).route = "updateToolNamespaces" => isSettled(c)
    /\ call[c].shown # None /\ request(c).route = "updateToolNamespaces" => isSettled(c)
    /\ call[c].shown # None /\ request(c).route = "listTools" =>
          call[c].shown.discoverable = None \/ derivedRegistry(call[c].shown.offered) # Refused

Sound(c) == Kept(c) /\ Placed(c) /\ Answerable(c) /\ Shown(c)

(* The last patch that names a namespace has left it as it is.             *)
namingOf(namespace) ==
    {i \in 1..Len(patches) : namespace \in patches[i].enable \union patches[i].disable}

lastOf(namespace) ==
    {i \in namingOf(namespace) : \A j \in namingOf(namespace) : j <= i}

SettingsHold ==
    /\ patches \in Seq({r.asks : r \in Requests})
    /\ \A namespace \in Namespaces :
          IF namingOf(namespace) = {} THEN namespace \in enabled <=> namespace \in Enabled
          ELSE \E i \in lastOf(namespace) :
                  namespace \in enabled <=> namespace \notin patches[i].disable

Domains ==
    /\ DOMAIN call = Calls /\ DOMAIN io = Calls /\ DOMAIN told = Calls
    /\ DOMAIN prepared = Calls \union Ids

RInv == Domains /\ SettingsHold /\ \A c \in Calls : Sound(c)

-----------------------------------------------------------------------------
LEMMA Frame ==
    ASSUME NEW d \in Calls, Sound(d),
           call'[d] = call[d], io'[d] = io[d], prepared'[d] = prepared[d], told'[d] = told[d],
           d \in changed' <=> d \in changed
    PROVE  Sound(d)'
<1>1. /\ request(d)' = request(d) /\ operation(d)' = operation(d)
      /\ madeOf(d)' = madeOf(d)
  BY DEF request, operation, madeOf
<1>2. /\ mutates(d)' <=> mutates(d)
      /\ refusedPartWay(d)' <=> refusedPartWay(d)
  BY <1>1 DEF mutates, refusedPartWay
<1>3. Kept(d)'
  BY <1>1 DEF Sound, Kept
<1>4. Placed(d)'
  BY <1>1 DEF Sound, Placed
<1>5. Shown(d)'
  BY <1>1 DEF Sound, Shown, isSettled
<1>6. \A answer : isTrue(d, answer)' <=> isTrue(d, answer)
  BY <1>2 DEF isTrue
<1>7. Provided(d)' <=> Provided(d)
  BY <1>1, <1>2 DEF Provided
<1>8. Answerable(d)'
  BY <1>1, <1>6, <1>7 DEF Sound, Answerable
<1> QED BY <1>3, <1>4, <1>5, <1>8 DEF Sound

-----------------------------------------------------------------------------
(* Operations of the files provider.                                       *)

LEMMA FilesAct == \A tool \in DOMAIN fileTools : standardTools[tool].action \in Actions
<1>1. ASSUME NEW tool \in DOMAIN fileTools PROVE fileTools[tool].action \in Actions
  BY <1>1 DEF fileTools, takes, Actions
<1> QED BY <1>1 DEF standardTools

LEMMA ResolvesFirst ==
    ASSUME NEW action, NEW todo, Planned(todo, action)
    PROVE  /\ Planned(<<"resolve">> \o todo, action)
           /\ isDue(todo) => isDue(<<"resolve">> \o todo)
<1> DEFINE plan == <<"resolve">> \o todo
<1>1. <<"resolve">> \in Seq(stepNames) /\ todo \in Seq(stepNames)
  BY DEF Planned, stepNames
<1>2. /\ plan \in Seq(stepNames) /\ Len(plan) = Len(todo) + 1 /\ Len(todo) \in Nat
      /\ plan[1] = "resolve"
      /\ \A i \in 1..Len(todo) : plan[i + 1] = todo[i] /\ i + 1 \in 1..Len(plan)
  BY <1>1
<1>3. \A i \in 1..Len(plan) : i = 1 \/ (i - 1 \in 1..Len(todo) /\ plan[i] = todo[i - 1])
  <2> SUFFICES ASSUME NEW i \in 1..Len(plan), i # 1
               PROVE  i - 1 \in 1..Len(todo) /\ plan[i] = todo[i - 1]
    OBVIOUS
  <2>1. i - 1 \in 1..Len(todo) /\ (i - 1) + 1 = i
    BY <1>2
  <2> QED BY <1>2, <2>1
<1> HIDE DEF plan
<1>4. Planned(plan, action)
  <2>1. ASSUME NEW i \in 1..Len(plan) PROVE plan[i] = "rm" => action = "delete"
    BY <1>2, <1>3, <2>1 DEF Planned
  <2>2. ASSUME NEW i \in 1..Len(plan), plan[i] \in firstChanges,
               NEW j \in 1..Len(plan), j > i
        PROVE  plan[j] \in fillings
    <3>1. i # 1
      BY <1>2, <2>2 DEF firstChanges
    <3>2. /\ i - 1 \in 1..Len(todo) /\ plan[i] = todo[i - 1]
          /\ j - 1 \in 1..Len(todo) /\ plan[j] = todo[j - 1] /\ j - 1 > i - 1
      BY <1>2, <1>3, <2>2, <3>1
    <3> QED BY <2>2, <3>2 DEF Planned
  <2> QED BY <1>2, <2>1, <2>2 DEF Planned
<1>5. isDue(todo) => isDue(plan)
  <2> SUFFICES ASSUME NEW i \in 1..Len(todo), todo[i] \in firstChanges PROVE isDue(plan)
    BY DEF isDue
  <2> QED BY <1>2 DEF isDue
<1> QED BY <1>4, <1>5 DEF plan

LEMMA PlansBegin ==
    ASSUME NEW action \in Actions
    PROVE  /\ Planned(planOf(action), action)
           /\ action \in mutations => isDue(planOf(action))
<1> DEFINE begins(todo) == Planned(todo, action) /\ (action \in mutations => isDue(todo))
<1>1. ASSUME NEW todo, begins(todo), planOf(action) = <<"resolve">> \o todo
      PROVE  begins(planOf(action))
  BY <1>1, ResolvesFirst
<1> USE DEF planOf, stepsOf, Planned, isDue, firstChanges, fillings, mutations, stepNames
<1>2. CASE action = "list"
  <2>1. planOf(action) = <<"resolve">> \o <<"readdir">>
    BY <1>2
  <2>2. begins(<<"readdir">>)
    BY <1>2
  <2> QED BY <1>1, <2>1, <2>2
<1>3. CASE action = "stat"
  <2>1. planOf(action) = <<"resolve">> \o <<"stat">>
    BY <1>3
  <2>2. begins(<<"stat">>)
    BY <1>3
  <2> QED BY <1>1, <2>1, <2>2
<1>4. CASE action = "read"
  <2>1. planOf(action) = <<"resolve">> \o <<"notDirectory", "readFile">>
    BY <1>4
  <2>2. begins(<<"notDirectory", "readFile">>)
    BY <1>4
  <2> QED BY <1>1, <2>1, <2>2
<1>5. CASE action = "search" \/ action = "grep"
  <2>1. planOf(action) = <<"resolve">> \o <<"input", "walk">>
    BY <1>5
  <2>2. begins(<<"input", "walk">>)
    BY <1>5
  <2> QED BY <1>1, <2>1, <2>2
<1>6. CASE action = "create"
  <2>1. planOf(action) = <<"resolve">> \o <<"notThere", "mkdir", "open", "write">>
    BY <1>6
  <2>2. /\ 3 \in 1..Len(<<"notThere", "mkdir", "open", "write">>)
        /\ <<"notThere", "mkdir", "open", "write">>[3] \in firstChanges
    OBVIOUS
  <2>3. begins(<<"notThere", "mkdir", "open", "write">>)
    BY <1>6, <2>2
  <2> QED BY <1>1, <2>1, <2>3
<1>7. CASE action = "replace"
  <2>1. planOf(action) = <<"resolve">> \o <<"version", "mkdir", "open", "write">>
    BY <1>7
  <2>2. /\ 3 \in 1..Len(<<"version", "mkdir", "open", "write">>)
        /\ <<"version", "mkdir", "open", "write">>[3] \in firstChanges
    OBVIOUS
  <2>3. begins(<<"version", "mkdir", "open", "write">>)
    BY <1>7, <2>2
  <2> QED BY <1>1, <2>1, <2>3
<1>8. CASE action = "append"
  <2>1. planOf(action) = <<"resolve">> \o <<"readBase", "version", "mkdir", "open", "write">>
    BY <1>8
  <2>2. /\ 4 \in 1..Len(<<"readBase", "version", "mkdir", "open", "write">>)
        /\ <<"readBase", "version", "mkdir", "open", "write">>[4] \in firstChanges
    OBVIOUS
  <2>3. begins(<<"readBase", "version", "mkdir", "open", "write">>)
    BY <1>8, <2>2
  <2> QED BY <1>1, <2>1, <2>3
<1>9. CASE action = "delete"
  <2>1. planOf(action) = <<"resolve">> \o <<"version", "removable", "lstat", "rm">>
    BY <1>9
  <2>2. /\ 4 \in 1..Len(<<"version", "removable", "lstat", "rm">>)
        /\ <<"version", "removable", "lstat", "rm">>[4] \in firstChanges
    OBVIOUS
  <2>3. begins(<<"version", "removable", "lstat", "rm">>)
    BY <1>9, <2>2
  <2> QED BY <1>1, <2>1, <2>3
<1>10. CASE action = "snapshot:create"
  <2>1. planOf(action) = <<"resolve">> \o <<"readFile", "keep", "fill">>
    BY <1>10
  <2>2. /\ 2 \in 1..Len(<<"readFile", "keep", "fill">>)
        /\ <<"readFile", "keep", "fill">>[2] \in firstChanges
    OBVIOUS
  <2>3. begins(<<"readFile", "keep", "fill">>)
    BY <1>10, <2>2
  <2> QED BY <1>1, <2>1, <2>3
<1>11. CASE action = "snapshot:list"
  <2>1. planOf(action) = <<"resolve">> \o <<"walk">>
    BY <1>11
  <2>2. begins(<<"walk">>)
    BY <1>11
  <2> QED BY <1>1, <2>1, <2>2
<1>12. CASE action = "snapshot:restore"
  <2>1. planOf(action) = <<"resolve">> \o <<"input", "version", "readSnapshot", "open", "write">>
    BY <1>12
  <2>2. /\ 4 \in 1..Len(<<"input", "version", "readSnapshot", "open", "write">>)
        /\ <<"input", "version", "readSnapshot", "open", "write">>[4] \in firstChanges
    OBVIOUS
  <2>3. begins(<<"input", "version", "readSnapshot", "open", "write">>)
    BY <1>12, <2>2
  <2> QED BY <1>1, <2>1, <2>3
<1> QED BY <1>2, <1>3, <1>4, <1>5, <1>6, <1>7, <1>8, <1>9, <1>10, <1>11, <1>12 DEF Actions

LEMMA PlansGoOn ==
    ASSUME NEW action, NEW todo, Planned(todo, action), todo # <<>>
    PROVE  /\ Planned(Tail(todo), action)
           /\ isMade(todo) => isMade(Tail(todo)) /\ Head(todo) \in fillings
           /\ isDue(todo) => isDue(Tail(todo)) \/ Head(todo) \in firstChanges
           /\ Head(todo) \in firstChanges => isMade(Tail(todo))
           /\ Head(todo) = "rm" => action = "delete"
<1>1. /\ todo \in Seq(stepNames) /\ Len(todo) \in Nat \ {0}
      /\ Tail(todo) \in Seq(stepNames) /\ Len(Tail(todo)) = Len(todo) - 1
      /\ \A i \in 1..Len(Tail(todo)) : Tail(todo)[i] = todo[i + 1] /\ i + 1 \in 1..Len(todo)
      /\ Head(todo) = todo[1] /\ 1 \in 1..Len(todo)
  BY DEF Planned
<1>2. Planned(Tail(todo), action)
  BY <1>1 DEF Planned
<1>3. isMade(todo) => isMade(Tail(todo)) /\ Head(todo) \in fillings
  BY <1>1 DEF isMade
<1>4. ASSUME isDue(todo), Head(todo) \notin firstChanges PROVE isDue(Tail(todo))
  <2>1. PICK i \in 1..Len(todo) : todo[i] \in firstChanges
    BY <1>4 DEF isDue
  <2>2. i # 1 /\ i - 1 \in 1..Len(Tail(todo)) /\ Tail(todo)[i - 1] = todo[(i - 1) + 1]
    BY <1>1, <1>4, <2>1
  <2> QED BY <2>1, <2>2 DEF isDue
<1>5. Head(todo) \in firstChanges => isMade(Tail(todo))
  BY <1>1 DEF Planned, isMade
<1> QED BY <1>1, <1>2, <1>3, <1>4, <1>5 DEF Planned

(* Of an operation under way only its own part changes.                    *)
goesOn(c, o, done) ==
    /\ io' = [io EXCEPT ![c] = o]
    /\ isOperation(o) /\ o.operation = io[c].operation
    /\ o.todo = Tail(io[c].todo) /\ o.ending = None
    /\ changed' = IF done THEN changed \union {c} ELSE changed

fails(c, o, code) ==
    /\ io' = [io EXCEPT ![c] = o]
    /\ isOperation(o) /\ o.operation = io[c].operation /\ o.todo = <<>>
    /\ o.ending \in {code, "thrown"}

LEMMA ProvidedIsSound ==
    ASSUME NEW c \in Calls, Sound(c), call[c].at = "provider", UNCHANGED <<call, prepared, told>>,
           isOperation(io'[c]), io'[c].operation = io[c].operation, Provided(c)'
    PROVE  Sound(c)'
<1>1. operation(c)' = operation(c) /\ request(c)' = request(c) /\ madeOf(c)' = madeOf(c)
  BY DEF operation, request, madeOf
<1>2. Kept(c)' /\ Placed(c)' /\ Shown(c)'
  BY <1>1 DEF Sound, Kept, Placed, Shown, isSettled, Provided
<1>3. Answerable(c)'
  BY DEF Sound, Answerable, untouched
<1> QED BY <1>2, <1>3 DEF Sound

LEMMA GoingOn ==
    ASSUME NEW c \in Calls, Sound(c), call[c].at = "provider", UNCHANGED <<call, prepared, told>>,
           DOMAIN io = Calls, io[c].ending = None, io[c].todo # <<>>,
           NEW o, NEW done \in BOOLEAN, goesOn(c, o, done),
           done <=> Head(io[c].todo) \in firstChanges
    PROVE  Sound(c)'
<1> DEFINE todo == io[c].todo
           action == operation(c).action
<1>1. Provided(c)
  BY DEF Sound, Answerable, untouched
<1>2. io'[c] = o /\ operation(c)' = operation(c)
  BY DEF goesOn, operation
<1>3. /\ Planned(Tail(todo), action)
      /\ isMade(todo) => isMade(Tail(todo)) /\ Head(todo) \in fillings
      /\ isDue(todo) => isDue(Tail(todo)) \/ Head(todo) \in firstChanges
      /\ Head(todo) \in firstChanges => isMade(Tail(todo))
  BY <1>1, PlansGoOn DEF Provided
<1>4. o.todo = Tail(todo) /\ o.ending = None
  BY DEF goesOn
<1>5. None \notin Conflicts \union Denials \union {"done"}
  BY RemoteCallsAssumption
<1>6. IF c \in changed' THEN isMade(o.todo) ELSE action \in mutations => isDue(o.todo)
  BY <1>1, <1>3, <1>4 DEF goesOn, Provided
<1>7. Provided(c)'
  BY <1>1, <1>2, <1>3, <1>4, <1>5, <1>6 DEF Provided
<1> QED BY <1>2, <1>7, ProvidedIsSound DEF goesOn

LEMMA Failing ==
    ASSUME NEW c \in Calls, Sound(c), call[c].at = "provider", UNCHANGED <<call, prepared, told>>,
           DOMAIN io = Calls, io[c].ending = None, io[c].todo # <<>>,
           NEW o, NEW code \in Conflicts \union Denials \union {"provider_error"}, fails(c, o, code),
           code = "provider_error" \/ Head(io[c].todo) \notin fillings,
           changed' = changed
    PROVE  Sound(c)'
<1> DEFINE todo == io[c].todo
           action == operation(c).action
<1>1. Provided(c)
  BY DEF Sound, Answerable, untouched
<1>2. io'[c] = o /\ operation(c)' = operation(c)
  BY DEF fails, operation
<1>3. o.todo = <<>> /\ o.ending \in {code, "thrown"} /\ isOperation(o) /\ o.operation = io[c].operation
  BY DEF fails
<1>4. None \notin Conflicts \union Denials \union {"provider_error", "thrown"}
  BY RemoteCallsAssumption
<1>5. "thrown" \notin Conflicts \union Denials /\ "provider_error" \notin Conflicts \union Denials
      /\ "done" \notin Conflicts \union Denials
  BY DEF Conflicts, Denials
<1>6. code # "provider_error" => c \notin changed
  <2>1. isMade(todo) => Head(todo) \in fillings
    BY <1>1, PlansGoOn DEF Provided
  <2> QED BY <1>1, <2>1 DEF Provided
<1>7. Planned(<<>>, action)
  BY DEF Planned
<1>8. Provided(c)'
  BY <1>1, <1>2, <1>3, <1>4, <1>5, <1>6, <1>7 DEF Provided
<1> QED BY <1>2, <1>3, <1>8, ProvidedIsSound

(* What going on, and failing, make of an operation.                       *)
isOnward(c, o) ==
    /\ isOperation(o) /\ o.operation = io[c].operation
    /\ o.todo = Tail(io[c].todo) /\ o.ending = None

LEMMA IoForms ==
    ASSUME NEW c \in Calls, DOMAIN io = Calls, isOperation(io[c])
    PROVE  /\ \A code : \E o : /\ failing(c, code) = [io EXCEPT ![c] = o]
                               /\ isOperation(o) /\ o.operation = io[c].operation /\ o.todo = <<>>
                               /\ o.ending \in {code, "thrown"}
           /\ \A text : io[c].ending = None =>
                /\ \E o : onward(c) = [io EXCEPT ![c] = o] /\ isOnward(c, o)
                /\ \E o : onwardWith(c, text) = [io EXCEPT ![c] = o] /\ isOnward(c, o)
<1>1. ASSUME NEW code
      PROVE  \E o : /\ failing(c, code) = [io EXCEPT ![c] = o]
                    /\ isOperation(o) /\ o.operation = io[c].operation /\ o.todo = <<>>
                    /\ o.ending \in {code, "thrown"}
  <2> DEFINE o == [io[c] EXCEPT !.todo = <<>>, !.ending = IF c \in aborted THEN "thrown" ELSE code]
  <2>1. failing(c, code) = [io EXCEPT ![c] = o]
    BY DEF failing
  <2>2. isOperation(o) /\ o.operation = io[c].operation /\ o.todo = <<>> /\ o.ending \in {code, "thrown"}
    BY DEF isOperation
  <2> QED BY <2>1, <2>2
<1>2. ASSUME NEW text, io[c].ending = None
      PROVE  /\ \E o : onward(c) = [io EXCEPT ![c] = o] /\ isOnward(c, o)
             /\ \E o : onwardWith(c, text) = [io EXCEPT ![c] = o] /\ isOnward(c, o)
  <2> DEFINE o1 == [io[c] EXCEPT !.todo = Tail(@)]
             o2 == [io[c] EXCEPT !.todo = Tail(@), !.seen = text]
  <2>1. /\ onward(c) = [io EXCEPT ![c] = o1]
        /\ onwardWith(c, text) = [io EXCEPT ![c] = o2]
    BY DEF onward, onwardWith
  <2>2. isOnward(c, o1) /\ isOnward(c, o2)
    BY <1>2 DEF isOperation, isOnward
  <2> QED BY <2>1, <2>2
<1> QED BY <1>1, <1>2

LEMMA StepGoesOn ==
    ASSUME NEW c \in Calls, Sound(c), call[c].at = "provider", UNCHANGED <<call, prepared, told>>,
           DOMAIN io = Calls, NEW step, doing(c, step), NEW o, isOnward(c, o),
           io' = [io EXCEPT ![c] = o],
           changed' = IF step \in firstChanges THEN changed \union {c} ELSE changed
    PROVE  Sound(c)'
<1>1. io[c].ending = None /\ io[c].todo # <<>> /\ Head(io[c].todo) = step
  BY DEF doing
<1>2. CASE step \in firstChanges
  <2>1. goesOn(c, o, TRUE)
    BY <1>2 DEF goesOn, isOnward
  <2> QED BY <1>1, <1>2, <2>1, GoingOn
<1>3. CASE step \notin firstChanges
  <2>1. goesOn(c, o, FALSE)
    BY <1>3 DEF goesOn, isOnward
  <2> QED BY <1>1, <1>3, <2>1, GoingOn
<1> QED BY <1>2, <1>3

LEMMA StepFails ==
    ASSUME NEW c \in Calls, Sound(c), call[c].at = "provider", UNCHANGED <<call, prepared, told>>,
           DOMAIN io = Calls, NEW step, doing(c, step),
           NEW code \in Conflicts \union Denials \union {"provider_error"},
           code = "provider_error" \/ step \notin fillings,
           io' = failing(c, code), changed' = changed
    PROVE  Sound(c)'
<1>1. isOperation(io[c])
  BY DEF Sound, Kept
<1>2. PICK o : fails(c, o, code)
  BY <1>1, IoForms DEF fails
<1>3. io[c].ending = None /\ io[c].todo # <<>> /\ Head(io[c].todo) = step
  BY DEF doing
<1> QED BY <1>2, <1>3, Failing

LEMMA ProviderKeeps ==
    ASSUME NEW c \in Calls, Sound(c), call[c].at = "provider", UNCHANGED <<call, prepared, told>>,
           DOMAIN io = Calls, ProviderStep(c)
    PROVE  Sound(c)'
<1>1. isOperation(io[c]) /\ Provided(c)
  BY DEF Sound, Kept, Answerable, untouched
<1>2. {"path_escape", "not_permitted", "provider_error", "not_found", "not_a_file", "already_exists",
       "invalid_input", "version_conflict", "not_empty"}
        \subseteq Conflicts \union Denials \union {"provider_error"}
  BY DEF Conflicts, Denials
<1>3. ASSUME NEW step, doing(c, step), NEW o, isOnward(c, o), io' = [io EXCEPT ![c] = o],
             changed' = IF step \in firstChanges THEN changed \union {c} ELSE changed
      PROVE  Sound(c)'
  BY <1>3, StepGoesOn
<1>4. ASSUME NEW step, doing(c, step), NEW code \in Conflicts \union Denials \union {"provider_error"},
             code = "provider_error" \/ step \notin fillings, io' = failing(c, code), changed' = changed
      PROVE  Sound(c)'
  BY <1>4, StepFails
<1>5. ASSUME NEW step, doing(c, step) PROVE io[c].ending = None
  BY <1>5 DEF doing
<1>6. ASSUME NEW step, doing(c, step), step \notin firstChanges, changed' = changed,
             \/ io' = onward(c)
             \/ \E text : io' = onwardWith(c, text)
      PROVE  Sound(c)'
  <2>1. PICK o : io' = [io EXCEPT ![c] = o] /\ isOnward(c, o)
    BY <1>1, <1>5, <1>6, IoForms
  <2> QED BY <1>3, <1>6, <2>1
<1>7. CASE Resolves(c)
  BY <1>2, <1>4, <1>6, <1>7 DEF Resolves, firstChanges, fillings
<1>8. CASE \E step \in lookings : Looks(c, step)
  <2>1. PICK step \in lookings : Looks(c, step)
    BY <1>8
  <2>2. step \notin firstChanges /\ step \notin fillings
    BY DEF lookings, firstChanges, fillings
  <2>3. obstacle(c, step) # None =>
          obstacle(c, step) \in Conflicts \union Denials \union {"provider_error"}
    BY <1>2 DEF obstacle, lookings
  <2> QED BY <1>4, <1>6, <2>1, <2>2, <2>3 DEF Looks
<1>9. CASE ReadsBase(c)
  BY <1>6, <1>9 DEF ReadsBase, firstChanges
<1>10. CASE ReadsFile(c)
  BY <1>2, <1>4, <1>6, <1>10 DEF ReadsFile, firstChanges, fillings
<1>11. CASE ReadsSnapshot(c)
  BY <1>2, <1>4, <1>6, <1>11 DEF ReadsSnapshot, firstChanges, fillings
<1>12. CASE MakesDirectories(c)
  <2>0. changed' = changed
    BY <1>12 DEF MakesDirectories
  <2>1. CASE io' = failing(c, "provider_error")
    BY <1>2, <1>4, <1>12, <2>0, <2>1 DEF MakesDirectories, fillings
  <2>2. ASSUME NEW left, io' = [onward(c) EXCEPT ![c].left = left]
        PROVE  Sound(c)'
    <3>0. doing(c, "mkdir") /\ io[c].ending = None
      BY <1>5, <1>12 DEF MakesDirectories
    <3> DEFINE on == [io[c] EXCEPT !.todo = Tail(@)]
               o == [on EXCEPT !.left = left]
    <3>1. io' = [io EXCEPT ![c] = o]
      BY <2>2 DEF onward
    <3>2. isOnward(c, on)
      BY <1>1, <3>0 DEF isOperation, isOnward
    <3>3. isOnward(c, o)
      BY <3>2 DEF isOperation, isOnward
    <3> HIDE DEF on, o
    <3>4. PICK next : io' = [io EXCEPT ![c] = next] /\ isOnward(c, next)
      BY <3>1, <3>3
    <3>5. changed' = IF "mkdir" \in firstChanges THEN changed \union {c} ELSE changed
      BY <2>0 DEF firstChanges
    <3> QED BY <1>3, <3>0, <3>4, <3>5
  <2>3. \/ io' = failing(c, "provider_error")
        \/ io' = [onward(c) EXCEPT ![c].left = IF hasParent(target(c)) THEN @ ELSE "directories"]
    BY <1>12, ZenonT(30) DEF MakesDirectories
  <2> QED BY <2>1, <2>2, <2>3
<1>13. CASE Opens(c)
  <2>1. CASE changed' = changed /\ \E code \in {"provider_error", "not_found"} : io' = failing(c, code)
    BY <1>2, <1>4, <1>13, <2>1 DEF Opens, fillings
  <2>2. CASE changed' = changed \union {c}
             /\ \E text, maker : io' = [onwardWith(c, text) EXCEPT ![c].opened = maker]
    <3>0. doing(c, "open") /\ io[c].ending = None
      BY <1>5, <1>13 DEF Opens
    <3>1. PICK o : io' = [io EXCEPT ![c] = o] /\ isOnward(c, o)
      <4>1. PICK text, maker : io' = [onwardWith(c, text) EXCEPT ![c].opened = maker]
        BY <2>2
      <4> DEFINE read == [io[c] EXCEPT !.todo = Tail(@), !.seen = text]
                 o == [read EXCEPT !.opened = maker]
      <4>2. io' = [io EXCEPT ![c] = o]
        BY <4>1 DEF onwardWith
      <4>3. isOnward(c, read)
        BY <1>1, <3>0 DEF isOperation, isOnward
      <4>4. isOnward(c, o)
        BY <4>3 DEF isOperation, isOnward
      <4> QED BY <4>2, <4>4
    <3> QED BY <1>3, <2>2, <3>0, <3>1 DEF firstChanges
  <2> QED BY <1>13, <2>1, <2>2 DEF Opens
<1>14. CASE Fills(c)
  BY <1>2, <1>4, <1>6, <1>14 DEF Fills, firstChanges, fillings
<1>15. CASE Removes(c)
  <2>2. CASE changed' = changed \union {c} /\ io' = onward(c)
    <3>1. PICK o : io' = [io EXCEPT ![c] = o] /\ isOnward(c, o)
      BY <1>1, <1>5, <1>15, <2>2, IoForms DEF Removes
    <3> QED BY <1>3, <1>15, <2>2, <3>1 DEF Removes, firstChanges
  <2>3. CASE /\ changed' = changed \union {c}
             /\ io' = [failing(c, "not_permitted") EXCEPT ![c].left = "rest"]
    <3> DEFINE ended == [io[c] EXCEPT !.todo = <<>>,
                                      !.ending = IF c \in aborted THEN "thrown" ELSE "not_permitted"]
               o == [ended EXCEPT !.left = "rest"]
    <3>1. io' = [io EXCEPT ![c] = o] /\ io'[c] = o
      BY <2>3 DEF failing
    <3>2. /\ isOperation(ended) /\ ended.operation = io[c].operation
          /\ ended.todo = <<>> /\ ended.ending \in {"not_permitted", "thrown"}
      BY <1>1 DEF isOperation
    <3> HIDE DEF ended
    <3>3. /\ isOperation(o) /\ o.operation = io[c].operation /\ o.left = "rest"
          /\ o.todo = <<>> /\ o.ending \in {"not_permitted", "thrown"}
      BY <3>2 DEF isOperation
    <3> HIDE DEF o
    <3>4. operation(c)' = operation(c) /\ refusedPartWay(c)'
      BY <3>1, <3>3 DEF operation, refusedPartWay
    <3>6. None \notin {"not_permitted", "thrown"} /\ {"not_permitted", "thrown"} \intersect Conflicts = {}
          /\ "done" \notin {"not_permitted", "thrown"} /\ "not_permitted" \in Denials
      BY RemoteCallsAssumption DEF Conflicts, Denials
    <3>7. Planned(<<>>, operation(c).action)
      BY DEF Planned
    <3>8. Provided(c)'
      BY <1>1, <3>1, <3>3, <3>4, <3>6, <3>7 DEF Provided
    <3> QED BY <3>1, <3>3, <3>8, ProvidedIsSound
  <2> QED BY <1>15, <2>2, <2>3 DEF Removes
<1>16. CASE Keeps(c)
  <2>1. CASE changed' = changed /\ io' = failing(c, "provider_error")
    BY <1>2, <1>4, <1>16, <2>1 DEF Keeps, fillings
  <2>2. CASE changed' = changed \union {c} /\ io' = onward(c)
    <3>1. PICK o : io' = [io EXCEPT ![c] = o] /\ isOnward(c, o)
      BY <1>1, <1>5, <1>16, <2>2, IoForms DEF Keeps
    <3> QED BY <1>3, <1>16, <2>2, <3>1 DEF Keeps, firstChanges
  <2> QED BY <1>16, <2>1, <2>2 DEF Keeps
<1>17. CASE FillsSnapshot(c)
  BY <1>2, <1>4, <1>6, <1>17 DEF FillsSnapshot, firstChanges, fillings
<1>18. CASE NotPermitted(c)
  <2>1. doing(c, Head(io[c].todo)) /\ Head(io[c].todo) \notin fillings
    BY <1>18 DEF NotPermitted, doing, fillings
  <2>2. "not_permitted" \in Conflicts \union Denials \union {"provider_error"}
    BY <1>2
  <2>3. CASE io' = failing(c, "not_permitted")
    BY <1>4, <1>18, <2>1, <2>2, <2>3 DEF NotPermitted
  <2>4. CASE io' = [failing(c, "not_permitted") EXCEPT ![c].left = "directories"]
    <3> DEFINE ended == [io[c] EXCEPT !.todo = <<>>,
                                      !.ending = IF c \in aborted THEN "thrown" ELSE "not_permitted"]
               o == [ended EXCEPT !.left = "directories"]
    <3>1. io' = [io EXCEPT ![c] = o]
      BY <2>4 DEF failing
    <3>2. /\ isOperation(ended) /\ ended.operation = io[c].operation
          /\ ended.todo = <<>> /\ ended.ending \in {"not_permitted", "thrown"}
      BY <1>1 DEF isOperation
    <3> HIDE DEF ended
    <3>3. fails(c, o, "not_permitted")
      BY <3>1, <3>2 DEF isOperation, fails
    <3> HIDE DEF o
    <3>4. io[c].ending = None /\ io[c].todo # <<>> /\ changed' = changed
      BY <1>18 DEF NotPermitted
    <3> QED BY <2>1, <2>2, <3>3, <3>4, Failing
  <2> QED BY <1>18, <2>3, <2>4 DEF NotPermitted
<1>19. CASE ProviderAnswers(c)
  <2> DEFINE o == [io[c] EXCEPT !.ending = IF c \in aborted THEN "thrown" ELSE "done"]
  <2>1. /\ io' = [io EXCEPT ![c] = o] /\ io'[c] = o /\ isOperation(o) /\ o.operation = io[c].operation
        /\ o.todo = io[c].todo /\ o.todo = <<>> /\ o.ending \in {"done", "thrown"} /\ changed' = changed
        /\ io[c].ending = None
    BY <1>1, <1>19 DEF ProviderAnswers, isOperation
  <2> HIDE DEF o
  <2>2. operation(c)' = operation(c)
    BY <2>1 DEF operation
  <2>3. {"done", "thrown"} \intersect (Conflicts \union Denials) = {} /\ None \notin {"done", "thrown"}
    BY RemoteCallsAssumption DEF Conflicts, Denials
  <2>4. ~isDue(<<>>)
    BY DEF isDue
  <2>5. Provided(c)'
    BY <1>1, <2>1, <2>2, <2>3, <2>4 DEF Provided
  <2> QED BY <2>1, <2>5, ProvidedIsSound
<1> QED BY <1>7, <1>8, <1>9, <1>10, <1>11, <1>12, <1>13, <1>14, <1>15, <1>16, <1>17, <1>18, <1>19
        DEF ProviderStep

-----------------------------------------------------------------------------
(* A step is one call's: whatever it does, it leaves the others alone.     *)

IsAlone(c) ==
    \A d \in Calls \ {c} :
        /\ call'[d] = call[d] /\ io'[d] = io[d] /\ prepared'[d] = prepared[d] /\ told'[d] = told[d]
        /\ d \in changed' <=> d \in changed

LEMMA ProviderIsAlone ==
    ASSUME NEW c \in Calls, DOMAIN io = Calls, UNCHANGED <<call, prepared, told>>, ProviderStep(c)
    PROVE  IsAlone(c) /\ DOMAIN io' = Calls
<1>1. changed' \in {changed, changed \union {c}}
  BY DEF ProviderStep, Resolves, Looks, ReadsBase, ReadsFile, ReadsSnapshot, MakesDirectories, Opens,
         Fills, Removes, Keeps, FillsSnapshot, NotPermitted, ProviderAnswers
<1>2. \E o : io' = [io EXCEPT ![c] = o]
  <2>1. \A code : \E o : failing(c, code) = [io EXCEPT ![c] = o]
    BY DEF failing
  <2>2. \E o : onward(c) = [io EXCEPT ![c] = o]
    BY DEF onward
  <2>3. \A text : \E o : onwardWith(c, text) = [io EXCEPT ![c] = o]
    BY DEF onwardWith
  <2>4. CASE Opens(c)
    <3>1. ASSUME NEW text, NEW maker, io' = [onwardWith(c, text) EXCEPT ![c].opened = maker]
          PROVE  \E o : io' = [io EXCEPT ![c] = o]
      <4> DEFINE read == [io[c] EXCEPT !.todo = Tail(@), !.seen = text]
                 o == [read EXCEPT !.opened = maker]
      <4>1. io' = [io EXCEPT ![c] = o]
        BY <3>1 DEF onwardWith
      <4> QED BY <4>1
    <3> QED BY <2>1, <2>4, <3>1 DEF Opens
  <2>5. CASE \E step \in lookings : Looks(c, step)
    BY <2>1, <2>2, <2>5 DEF Looks
  <2>6. CASE ProviderAnswers(c)
    BY <2>6 DEF ProviderAnswers
  <2>7. CASE Resolves(c) \/ ReadsBase(c) \/ ReadsFile(c) \/ ReadsSnapshot(c)
    BY <2>1, <2>2, <2>3, <2>7 DEF Resolves, ReadsBase, ReadsFile, ReadsSnapshot
  <2>8. CASE Fills(c) \/ Keeps(c) \/ FillsSnapshot(c)
    BY <2>1, <2>2, <2>3, <2>8 DEF Fills, Keeps, FillsSnapshot
  <2>9. ASSUME NEW left, \/ io' = [onward(c) EXCEPT ![c].left = left]
                         \/ \E code : io' = [failing(c, code) EXCEPT ![c].left = left]
        PROVE  \E o : io' = [io EXCEPT ![c] = o]
    <3>1. ASSUME NEW f, NEW p, f = [io EXCEPT ![c] = p], io' = [f EXCEPT ![c].left = left]
          PROVE  \E o : io' = [io EXCEPT ![c] = o]
      <4>1. io' = [io EXCEPT ![c] = [p EXCEPT !.left = left]]
        BY <3>1
      <4> QED BY <4>1
    <3> QED BY <2>1, <2>2, <2>9, <3>1
  <2>10. CASE MakesDirectories(c)
    BY <2>1, <2>9, <2>10 DEF MakesDirectories
  <2>11. CASE Removes(c) \/ NotPermitted(c)
    BY <2>1, <2>2, <2>9, <2>11 DEF Removes, NotPermitted
  <2> QED BY <2>4, <2>5, <2>6, <2>7, <2>8, <2>10, <2>11 DEF ProviderStep
<1> QED BY <1>1, <1>2 DEF IsAlone

(* A call is answered truly.                                               *)
LEMMA Answering ==
    ASSUME NEW c \in Calls, Sound(c), DOMAIN call = Calls,
           call[c].at \notin {"unsent", "answering", "over"},
           NEW status, NEW word, call' = answering(c, status, word),
           UNCHANGED <<io, prepared, told>>, isTrue(c, [status |-> status, word |-> word])'
    PROVE  Sound(c)' /\ (\A d \in Calls \ {c} : call'[d] = call[d]) /\ DOMAIN call' = Calls
<1> DEFINE k == [call[c] EXCEPT !.at = "answering", !.response = [status |-> status, word |-> word]]
<1>1. call' = [call EXCEPT ![c] = k] /\ call'[c] = k
  BY DEF answering
<1>2. /\ isCall(k) /\ k.at = "answering" /\ k.response = [status |-> status, word |-> word]
      /\ k.request = call[c].request /\ k.asked = call[c].asked /\ k.shown = call[c].shown
      /\ k.requirement = call[c].requirement /\ k.enabled = call[c].enabled
  BY DEF Sound, Kept, isCall
<1> HIDE DEF k
<1>3. request(c)' = request(c) /\ operation(c)' = operation(c) /\ madeOf(c)' = madeOf(c)
  BY <1>1, <1>2 DEF request, operation, madeOf
<1>4. Kept(c)' /\ Placed(c)' /\ Shown(c)'
  BY <1>1, <1>2, <1>3 DEF Sound, Kept, Placed, Shown, isSettled
<1>5. Answerable(c)'
  BY <1>1, <1>2 DEF Sound, Answerable, untouched
<1> QED BY <1>1, <1>4, <1>5 DEF Sound

(* What is no success is true of a call that changed nothing, and what is  *)
(* neither a conflict nor a refusal is true of any.                        *)
LEMMA Untouched ==
    ASSUME NEW c \in Calls, c \notin changed, NEW status, NEW word, word # "succeeded",
           status = 200 \/ io[c].left = None
    PROVE  isTrue(c, [status |-> status, word |-> word])
BY DEF isTrue

mild == {"internal_error", "message_delivery_failed", "message_reply_resolution_failed",
         "invalid_message_reply", "of the provider", "invalid_resource_result", "provider_error",
         "lost", "unsent"}

LEMMA Mild ==
    ASSUME NEW c \in Calls, NEW status \in {0, 200, 500}, NEW word \in mild
    PROVE  isTrue(c, [status |-> status, word |-> word])
<1>1. mild \intersect Conflicts = {} /\ "denied" \notin mild /\ "succeeded" \notin mild
  BY DEF mild, Conflicts
<1>2. status \notin 400..499
  OBVIOUS
<1> QED BY <1>1, <1>2 DEF isTrue

LEMMA Succeeding ==
    ASSUME NEW c \in Calls, mutates(c) => c \in changed
    PROVE  isTrue(c, [status |-> 200, word |-> "succeeded"])
BY DEF isTrue, Conflicts

(* Actions that only answer. *)
LEMMA AnswersAreSound ==
    ASSUME NEW c \in Calls, Sound(c), DOMAIN call = Calls,
           NotFound(c) \/ NotResolved(c) \/ Refuses(c) \/ Reads(c) \/ KernelAnswers(c) \/ Replied(c)
    PROVE  Sound(c)' /\ IsAlone(c) /\ DOMAIN call' = Calls /\ UNCHANGED <<io, prepared, told>>
<1>1. UNCHANGED <<providerVars, prepared, told>>
  BY DEF NotFound, NotResolved, Refuses, Reads, KernelAnswers, Replied
<1>2. call[c].at \notin {"unsent", "answering", "over"}
  BY DEF NotFound, NotResolved, Refuses, Reads, KernelAnswers, Replied
<1>3. SUFFICES \E status, word : call' = answering(c, status, word)
                                 /\ isTrue(c, [status |-> status, word |-> word])'
  BY <1>1, <1>2, Answering DEF IsAlone, providerVars
<1>4. ASSUME NEW status, NEW word,  call' = answering(c, status, word),
             isTrue(c, [status |-> status, word |-> word])
      PROVE  isTrue(c, [status |-> status, word |-> word])'
  <2>1. request(c)' = request(c)
    BY <1>4 DEF answering, request, Sound, Kept, isCall
  <2>2. operation(c)' = operation(c)
    BY <1>1 DEF operation, providerVars
  <2> QED BY <1>1, <1>4, <2>1, <2>2 DEF isTrue, mutates, refusedPartWay, providerVars
<1>0. {"internal_error", "invalid_message_reply", "message_reply_resolution_failed", "provider_error"}
        \subseteq mild
  BY DEF mild
<1>5. CASE call' = thrown(c)
  <2>1. call' = answering(c, 500, "internal_error")
    BY <1>5 DEF thrown
  <2>2. isTrue(c, [status |-> 500, word |-> "internal_error"])
    BY <1>0, Mild
  <2> QED BY <1>4, <2>1, <2>2
<1>6. ASSUME NEW word, call' = result(c, word), isTrue(c, [status |-> 200, word |-> word])
      PROVE  \E status, w : call' = answering(c, status, w)
                             /\ isTrue(c, [status |-> status, word |-> w])'
  BY <1>4, <1>6 DEF result
<1>7. CASE NotFound(c)
  <2>1. isTrue(c, [status |-> 200, word |-> "denied"])
    BY <1>7, Untouched DEF NotFound, Sound, Answerable, untouched
  <2> QED BY <1>5, <1>6, <1>7, <2>1 DEF NotFound
<1>8. CASE NotResolved(c)
  <2>1. isTrue(c, [status |-> 200, word |-> "tool_catalog_unavailable"])
    BY <1>8, Untouched DEF NotResolved, Sound, Answerable, untouched
  <2> QED BY <1>6, <1>8, <2>1 DEF NotResolved
<1>9. CASE Refuses(c)
  <2>1. isTrue(c, [status |-> 200, word |-> "denied"])
    BY <1>9, Untouched DEF Refuses, Sound, Answerable, untouched
  <2> QED BY <1>5, <1>6, <1>9, <2>1 DEF Refuses
<1>10. CASE Reads(c)
  <2>1. ~mutates(c)
    BY <1>10 DEF Reads, Sound, Kept, Placed, mutates, asides
  <2> QED BY <1>5, <1>6, <1>10, <2>1, Succeeding DEF Reads
<1>11. CASE KernelAnswers(c)
  <2> DEFINE ending == io[c].ending
  <2>1. Provided(c) /\ call[c].at = "provider" /\ ending # None
    BY <1>11 DEF KernelAnswers, Sound, Answerable, untouched
  <2>2. CASE ending = "thrown"
    BY <1>5, <1>11, <2>2 DEF KernelAnswers
  <2>3. CASE ending \in Denials
    <3>1. call' = result(c, "denied") /\ ending # "thrown"
      BY <1>11, <2>3 DEF KernelAnswers, statusOf, Denials
    <3>2. isTrue(c, [status |-> 200, word |-> "denied"])
      BY <2>1, <2>3 DEF isTrue, Provided, Conflicts
    <3> QED BY <1>6, <3>1, <3>2
  <2>4. CASE ending = "done"
    <3>1. call' = result(c, "succeeded")
      BY <1>11, <2>4 DEF KernelAnswers, statusOf, Denials
    <3>2. mutates(c) => c \in changed
      BY <2>1, <2>4 DEF Provided, mutates, Sound, Placed
    <3> QED BY <1>6, <3>1, <3>2, Succeeding
  <2>5. CASE ending \in Conflicts \union {"provider_error"}
    <3>1. call' = result(c, ending)
      BY <1>11, <2>5 DEF KernelAnswers, statusOf, Denials, Conflicts
    <3>2. ending = "provider_error" \/ (c \notin changed /\ ending # "succeeded")
      BY <2>1, <2>5 DEF Provided, Conflicts
    <3>3. isTrue(c, [status |-> 200, word |-> ending])
      BY <1>0, <3>2, Mild, Untouched
    <3> QED BY <1>6, <3>1, <3>3
  <2> QED BY <2>1, <2>2, <2>3, <2>4, <2>5 DEF Provided
<1>12. CASE Replied(c)
  <2>1. c \in changed
    BY <1>12 DEF Replied, Sound, Answerable
  <2>2. /\ isTrue(c, [status |-> 200, word |-> "succeeded"])
        /\ isTrue(c, [status |-> 200, word |-> "invalid_message_reply"])
        /\ isTrue(c, [status |-> 200, word |-> "message_reply_resolution_failed"])
    BY <1>0, <2>1, Succeeding, Mild
  <2> QED BY <1>5, <1>6, <1>12, <2>2 DEF Replied
<1> QED BY <1>7, <1>8, <1>9, <1>10, <1>11, <1>12

LEMMA TrueNext ==
    ASSUME NEW c \in Calls
    PROVE  /\ \A status \in {0, 200, 500}, word \in mild : isTrue(c, [status |-> status, word |-> word])'
           /\ c \notin changed' =>
                \A status, word : word # "succeeded" /\ (status = 200 \/ io'[c].left = None) =>
                    isTrue(c, [status |-> status, word |-> word])'
           /\ c \in changed' =>
                \A status \in {200, 202} : isTrue(c, [status |-> status, word |-> "succeeded"])'
<1>1. mild \intersect Conflicts = {} /\ "denied" \notin mild /\ "succeeded" \notin mild
  BY DEF mild, Conflicts
<1>2. \A status \in {0, 200, 202, 500} : status \notin 400..499
  OBVIOUS
<1>3. {"succeeded", "denied"} \intersect Conflicts = {}
  BY DEF Conflicts
<1> QED BY <1>1, <1>2, <1>3 DEF isTrue

LEMMA RouterIsSound ==
    ASSUME NEW c \in Calls, Sound(c), DOMAIN call = Calls, Routed(c)
    PROVE  Sound(c)' /\ IsAlone(c) /\ DOMAIN call' = Calls
<1>1. /\ UNCHANGED <<providerVars, prepared, told>> /\ call[c].at = "sent" /\ c \notin changed
      /\ io[c].left = None
  BY DEF Routed, Sound, Kept, Answerable, untouched
<1>2. CASE \E status, word : call' = answering(c, status, word) /\ word # "succeeded"
  <2>1. PICK status, word : call' = answering(c, status, word) /\ word # "succeeded"
    BY <1>2
  <2>2. isTrue(c, [status |-> status, word |-> word])'
    BY <1>1, <2>1, TrueNext DEF providerVars
  <2> QED BY <1>1, <2>1, <2>2, Answering DEF IsAlone, providerVars
<1>3. CASE /\ request(c).route \in toolRoutes \/ request(c).wellFormed
           /\ call' = [moved(c, IF request(c).route \in toolRoutes THEN "preparing"
                                 ELSE IF request(c).route \in asides THEN "reading"
                                 ELSE IF request(c).route \in listings THEN "listing"
                                 ELSE IF request(c).route = "updateToolNamespaces" THEN "patching"
                                 ELSE "deciding") EXCEPT ![c].enabled = enabled]
  <2> DEFINE place == IF request(c).route \in toolRoutes THEN "preparing"
                      ELSE IF request(c).route \in asides THEN "reading"
                      ELSE IF request(c).route \in listings THEN "listing"
                      ELSE IF request(c).route = "updateToolNamespaces" THEN "patching"
                      ELSE "deciding"
             m == [call[c] EXCEPT !.at = place]
             k == [m EXCEPT !.enabled = enabled]
  <2>1. call' = [call EXCEPT ![c] = k] /\ call'[c] = k
    BY <1>3 DEF moved
  <2>2. /\ isCall(k) /\ k.at = place /\ k.request = call[c].request /\ k.asked = call[c].asked
        /\ k.shown = call[c].shown /\ k.requirement = call[c].requirement
    <3>1. isCall(m) /\ m.at = place /\ m.request = call[c].request /\ m.asked = call[c].asked
          /\ m.shown = call[c].shown /\ m.requirement = call[c].requirement
      BY DEF Sound, Kept, isCall
    <3> HIDE DEF m
    <3> QED BY <3>1 DEF isCall
  <2>3. request(c).route \in Routes /\ request(c) \in Requests
    BY <1>1, RemoteCallsAssumption DEF Sound, Kept
  <2>4. /\ place \in {"preparing", "reading", "listing", "patching", "deciding"}
        /\ place = "preparing" => request(c).route \in toolRoutes
        /\ place = "reading" => request(c).route \in asides
        /\ place = "listing" => request(c).route \in listings
        /\ place = "patching" => request(c).route = "updateToolNamespaces" /\ request(c).wellFormed
        /\ place = "deciding" => request(c).route \in {"invokeResource", "sendMessage"}
    BY <1>3, <2>3 DEF Routes, asides, listings, toolRoutes
  <2> HIDE DEF place, k, m
  <2>5. request(c)' = request(c) /\ operation(c)' = operation(c) /\ madeOf(c)' = madeOf(c)
    BY <1>1, <2>1, <2>2 DEF request, operation, madeOf, providerVars
  <2>6. Kept(c)'
    BY <1>1, <2>1, <2>2, <2>3, <2>4, <2>5 DEF Sound, Kept, providerVars, toolRoutes
  <2>7. Placed(c)'
    BY <2>1, <2>2, <2>4, <2>5 DEF Placed
  <2>8. Answerable(c)'
    BY <1>1, <2>1, <2>2, <2>4, <2>5 DEF Sound, Answerable, untouched, providerVars, listings
  <2>9. Shown(c)'
    <3>1. call'[c].at = "listing" => request(c)'.route # "updateToolNamespaces"
      BY <2>1, <2>2, <2>4, <2>5 DEF listings
    <3>2. call'[c].shown = None
      BY <1>1, <2>1, <2>2 DEF Sound, Kept
    <3> QED BY <3>1, <3>2 DEF Shown, request
  <2> QED BY <1>1, <2>1, <2>6, <2>7, <2>8, <2>9 DEF Sound, IsAlone, providerVars
<1>4. ASSUME NEW refusal \in refusals PROVE refusal.word # "succeeded"
  <2>1. \/ refusal = [status |-> 401, word |-> "of the host"]
        \/ refusal = [status |-> 403, word |-> "permission_denied"]
        \/ refusal = [status |-> 500, word |-> "internal_error"]
        \/ refusal = [status |-> 500, word |-> "invalid_access_context"]
        \/ refusal = [status |-> 404, word |-> "not_found"]
        \/ refusal = [status |-> 405, word |-> "method_not_allowed"]
        \/ refusal = [status |-> 400, word |-> "invalid_json"]
        \/ refusal = [status |-> 400, word |-> "invalid_request"]
    BY ZenonT(60) DEF refusals
  <2>2. [status |-> 401, word |-> "of the host"].word # "succeeded"
    OBVIOUS
  <2>3. [status |-> 500, word |-> "internal_error"].word # "succeeded"
    OBVIOUS
  <2>4. [status |-> 500, word |-> "invalid_access_context"].word # "succeeded"
    OBVIOUS
  <2>5. [status |-> 404, word |-> "not_found"].word # "succeeded"
    OBVIOUS
  <2>6. [status |-> 405, word |-> "method_not_allowed"].word # "succeeded"
    OBVIOUS
  <2>7. [status |-> 400, word |-> "invalid_json"].word # "succeeded"
    OBVIOUS
  <2>8. [status |-> 403, word |-> "permission_denied"].word # "succeeded"
    OBVIOUS
  <2>9. [status |-> 400, word |-> "invalid_request"].word # "succeeded"
    OBVIOUS
  <2> QED BY <2>1, <2>2, <2>3, <2>4, <2>5, <2>6, <2>7, <2>8, <2>9, ZenonT(60)
<1> QED BY <1>2, <1>3, <1>4 DEF Routed

LEMMA ClientIsSound ==
    ASSUME NEW c \in Calls, Sound(c), DOMAIN call = Calls, DOMAIN told = Calls,
           (\E asked \in Requests : Sends(c, asked)) \/ LosesConnection(c) \/ Hears(c) \/ Disconnects(c)
    PROVE  Sound(c)' /\ IsAlone(c) /\ DOMAIN call' = Calls /\ DOMAIN told' = Calls
<1>0. /\ {"lost", "unsent"} \subseteq mild
      /\ "invalid_response" \notin Conflicts \union {"denied", "succeeded"}
      /\ "request_failed" \notin Conflicts \union {"denied", "succeeded"}
  BY DEF mild, Conflicts
<1>1. CASE \E asked \in Requests : Sends(c, asked)
  <2>1. PICK asked \in Requests : Sends(c, asked)
    BY <1>1
  <2>2. call[c].at = "unsent" /\ UNCHANGED <<providerVars, prepared>> /\ c \notin changed
    BY <2>1 DEF Sends, Sound, Answerable, untouched
  <2> DEFINE over == asked.route \in readFirst /\ ~asked.wellFormed
             k == [unsent EXCEPT !.at = IF over THEN "over" ELSE "sent", !.request = asked]
  <2>3. call' = [call EXCEPT ![c] = k] /\ call'[c] = k
    BY <2>1 DEF Sends
  <2>4. /\ isCall(k) /\ k.request = asked /\ k.asked = None /\ k.shown = None
        /\ k.at = IF over THEN "over" ELSE "sent"
    BY DEF unsent, isCall
  <2>5. IF over THEN told' = [told EXCEPT ![c] = [status |-> 0, word |-> "unsent"]] ELSE UNCHANGED told
    BY <2>1 DEF Sends
  <2> HIDE DEF over, k
  <2>6. request(c)' = asked /\ operation(c)' = None
    BY <2>2, <2>3, <2>4 DEF request, operation, Sound, Kept, providerVars
  <2>7. Kept(c)' /\ Placed(c)' /\ Shown(c)'
    BY <2>2, <2>3, <2>4, <2>6 DEF Sound, Kept, Placed, Shown, providerVars
  <2>8. isTrue(c, [status |-> 0, word |-> "unsent"])'
    BY <1>0, TrueNext
  <2>9. Answerable(c)'
    BY <2>2, <2>3, <2>4, <2>5, <2>8 DEF Sound, Answerable, untouched, providerVars
  <2> QED BY <2>2, <2>3, <2>5, <2>7, <2>9 DEF Sound, IsAlone, providerVars
<1>2. CASE LosesConnection(c)
  <2>1. /\ UNCHANGED <<providerVars, call, prepared>> /\ told[c] = None /\ call[c].at # "unsent"
        /\ told' = [told EXCEPT ![c] = [status |-> 0, word |-> "lost"]]
    BY <1>2 DEF LosesConnection
  <2>2. request(c)' = request(c) /\ operation(c)' = operation(c) /\ madeOf(c)' = madeOf(c)
    BY <2>1 DEF request, operation, madeOf, providerVars
  <2>3. Kept(c)' /\ Placed(c)' /\ Shown(c)'
    BY <2>1, <2>2 DEF Sound, Kept, Placed, Shown, isSettled, providerVars
  <2>4. /\ isTrue(c, [status |-> 0, word |-> "lost"])'
        /\ isTrue(c, call[c].response) <=> isTrue(c, call[c].response)'
        /\ Provided(c) <=> Provided(c)'
    <3>1. mutates(c)' <=> mutates(c)
      BY <2>2 DEF mutates
    <3>2. refusedPartWay(c)' <=> refusedPartWay(c)
      BY <2>1 DEF refusedPartWay, providerVars
    <3> QED BY <1>0, <2>1, <2>2, <3>1, <3>2, TrueNext DEF isTrue, Provided, providerVars
  <2>5. Answerable(c)'
    BY <2>1, <2>2, <2>4 DEF Sound, Answerable, untouched, providerVars
  <2> QED BY <2>1, <2>3, <2>5 DEF Sound, IsAlone, providerVars
<1>3. CASE Hears(c)
  <2> DEFINE response == call[c].response
             k == [call[c] EXCEPT !.at = "over"]
  <2>1. /\ UNCHANGED <<providerVars, prepared>> /\ call[c].at = "answering"
        /\ call' = [call EXCEPT ![c] = k]
    BY <1>3 DEF Hears, moved
  <2>2. PICK word \in {response.word, "invalid_response", "request_failed"} :
            told' = [told EXCEPT ![c] = [status |-> response.status, word |-> word]]
    BY <1>3 DEF Hears
  <2>3. /\ isCall(k) /\ k.at = "over" /\ k.request = call[c].request /\ k.asked = call[c].asked
        /\ k.shown = call[c].shown /\ k.requirement = call[c].requirement /\ k.enabled = call[c].enabled
        /\ call'[c] = k
    BY <2>1 DEF Sound, Kept, isCall
  <2> HIDE DEF k
  <2>4. request(c)' = request(c) /\ operation(c)' = operation(c) /\ madeOf(c)' = madeOf(c)
    BY <2>1, <2>3 DEF request, operation, madeOf, providerVars
  <2>5. Kept(c)' /\ Placed(c)' /\ Shown(c)'
    BY <2>1, <2>3, <2>4 DEF Sound, Kept, Placed, Shown, isSettled, providerVars
  <2>6. isTrue(c, told[c])'
    <3>1. (mutates(c)' <=> mutates(c)) /\ (refusedPartWay(c)' <=> refusedPartWay(c))
      BY <2>1, <2>4 DEF mutates, refusedPartWay, providerVars
    <3>2. isTrue(c, response) /\ told'[c] = [status |-> response.status, word |-> word]
      BY <2>1, <2>2 DEF Sound, Answerable
    <3> QED BY <1>0, <2>1, <2>2, <3>1, <3>2 DEF isTrue, providerVars
  <2>7. Answerable(c)'
    BY <2>1, <2>3, <2>6 DEF Answerable, untouched
  <2> QED BY <2>1, <2>2, <2>5, <2>7 DEF Sound, IsAlone, providerVars
<1>4. CASE Disconnects(c)
  <2>1. UNCHANGED <<io, changed, call, prepared, told>>
    BY <1>4 DEF Disconnects
  <2> QED BY <2>1, Frame DEF IsAlone
<1> QED BY <1>1, <1>2, <1>3, <1>4

(* What is done on a port and answered at once.                            *)
LEMMA PortsAreSound ==
    ASSUME NEW c \in Calls, Sound(c), DOMAIN call = Calls, Delivers(c) \/ RepoAnswers(c)
    PROVE  Sound(c)' /\ IsAlone(c) /\ DOMAIN call' = Calls /\ UNCHANGED <<io, prepared, told>>
<1>1. /\ UNCHANGED <<io, prepared, told>> /\ call[c].at \in {"delivering", "elsewhere"}
      /\ c \notin changed /\ changed' \in {changed, changed \union {c}}
  BY DEF Delivers, RepoAnswers, Sound, Answerable, untouched
<1>2. ASSUME NEW status, NEW word, call' = answering(c, status, word),
             isTrue(c, [status |-> status, word |-> word])'
      PROVE  Sound(c)' /\ IsAlone(c) /\ DOMAIN call' = Calls
  BY <1>1, <1>2, Answering DEF IsAlone
<1>3. ASSUME NEW word \in mild, call' = result(c, word)
      PROVE  Sound(c)' /\ IsAlone(c) /\ DOMAIN call' = Calls
  <2>1. isTrue(c, [status |-> 200, word |-> word])'
    BY <1>3, TrueNext
  <2>2. call' = answering(c, 200, word)
    BY <1>3 DEF result
  <2> QED BY <1>2, <2>1, <2>2
<1>4. CASE call' = thrown(c)
  <2>1. "internal_error" \in mild
    BY DEF mild
  <2>2. isTrue(c, [status |-> 500, word |-> "internal_error"])'
    BY <2>1, TrueNext
  <2>3. call' = answering(c, 500, "internal_error")
    BY <1>4 DEF thrown
  <2> QED BY <1>1, <1>2, <2>2, <2>3
<1>5. ASSUME NEW status \in {200, 202}, call' = answering(c, status, "succeeded"), c \in changed'
      PROVE  Sound(c)' /\ IsAlone(c) /\ DOMAIN call' = Calls
  <2>1. isTrue(c, [status |-> status, word |-> "succeeded"])'
    BY <1>5, TrueNext
  <2> QED BY <1>1, <1>2, <1>5, <2>1
<1>6. ASSUME NEW word, word # "succeeded", call' = result(c, word), c \notin changed'
      PROVE  Sound(c)' /\ IsAlone(c) /\ DOMAIN call' = Calls
  <2>1. isTrue(c, [status |-> 200, word |-> word])'
    BY <1>6, TrueNext
  <2>2. call' = answering(c, 200, word)
    BY <1>6 DEF result
  <2> QED BY <1>2, <2>1, <2>2
<1>7. {"message_delivery_failed", "of the provider", "invalid_resource_result"} \subseteq mild
  BY DEF mild
<1>8. CASE call' = moved(c, "awaitingReply") /\ c \in changed' /\ Delivers(c)
           /\ request(c).route # "sendMessage"
  <2> DEFINE k == [call[c] EXCEPT !.at = "awaitingReply"]
  <2>1. call' = [call EXCEPT ![c] = k] /\ call'[c] = k
    BY <1>8 DEF moved
  <2>2. /\ isCall(k) /\ k.at = "awaitingReply" /\ k.request = call[c].request
        /\ k.asked = call[c].asked /\ k.shown = call[c].shown /\ k.requirement = call[c].requirement
    BY DEF Sound, Kept, isCall
  <2> HIDE DEF k
  <2>3. request(c)' = request(c) /\ operation(c)' = operation(c) /\ madeOf(c)' = madeOf(c)
    BY <1>1, <2>1, <2>2 DEF request, operation, madeOf
  <2>4. Kept(c)' /\ Shown(c)'
    BY <1>1, <2>1, <2>2, <2>3 DEF Sound, Kept, Shown
  <2>5. Placed(c)'
    BY <1>8, <2>1, <2>2, <2>3 DEF Delivers, Sound, Placed
  <2>6. Answerable(c)'
    BY <1>1, <1>8, <2>1, <2>2 DEF Sound, Answerable, untouched
  <2> QED BY <1>1, <2>1, <2>4, <2>5, <2>6 DEF Sound, IsAlone
<1>9. CASE Delivers(c)
  <2>1. CASE UNCHANGED changed /\ call' = result(c, IF request(c).route = "sendMessage" THEN "denied"
                                                    ELSE "message_request_not_accepted")
    BY <1>1, <1>6, <2>1
  <2>2. CASE changed' = changed \union {c}
             /\ IF request(c).route = "sendMessage"
                THEN \E status \in {200, 202} : call' = answering(c, status, "succeeded")
                ELSE call' = IF c \in aborted THEN thrown(c) ELSE moved(c, "awaitingReply")
    <3>1. CASE request(c).route = "sendMessage"
      <4>1. PICK status \in {200, 202} : call' = answering(c, status, "succeeded")
        BY <2>2, <3>1
      <4> QED BY <1>1, <1>5, <2>2, <4>1
    <3>2. CASE request(c).route # "sendMessage"
      BY <1>1, <1>4, <1>8, <1>9, <2>2, <3>2
    <3> QED BY <3>1, <3>2
  <2>3. CASE call' = IF c \in aborted THEN thrown(c) ELSE result(c, "message_delivery_failed")
    BY <1>1, <1>3, <1>4, <1>7, <2>3
  <2> QED BY <1>1, <1>9, <2>1, <2>2, <2>3 DEF Delivers
<1>10. CASE RepoAnswers(c)
  <2>1. CASE changed' = changed \union {c} /\ call' = result(c, "succeeded")
    <3>1. call' = answering(c, 200, "succeeded") /\ c \in changed'
      BY <2>1 DEF result
    <3> QED BY <1>1, <1>5, <3>1
  <2>2. CASE call' \in {result(c, "of the provider"), result(c, "invalid_resource_result"), thrown(c)}
    BY <1>1, <1>3, <1>4, <1>7, <2>2
  <2> QED BY <1>10, <2>1, <2>2 DEF RepoAnswers
<1> QED BY <1>1, <1>9, <1>10

LEMMA PreparingIsSound ==
    ASSUME NEW c \in Calls, Sound(c), DOMAIN call = Calls, DOMAIN prepared = Calls \union Ids, Prepares(c)
    PROVE  Sound(c)' /\ IsAlone(c) /\ DOMAIN call' = Calls /\ DOMAIN prepared' = Calls \union Ids
<1>1. /\ UNCHANGED <<io, changed, told>> /\ call[c].at = "preparing" /\ c \notin changed
      /\ operation(c) = None /\ request(c).route \in toolRoutes
  BY DEF Prepares, Sound, Kept, Placed, Answerable, untouched, providerVars
<1>2. \/ UNCHANGED prepared /\ call' = result(c, "invalid_tool_arguments")
      \/ /\ prepared' = [prepared EXCEPT ![c] = madeOf(c)]
         /\ \/ call' = [moved(c, "deciding") EXCEPT ![c].requirement = needs(madeOf(c))]
            \/ call' = result(c, "invalid_tool_requirement")
  BY DEF Prepares, slotOf, Sound, Kept
<1>3. IsAlone(c) /\ DOMAIN call' = Calls /\ DOMAIN prepared' = Calls \union Ids
  BY <1>1, <1>2 DEF IsAlone, moved, result, answering
<1>4. CASE UNCHANGED prepared /\ call' = result(c, "invalid_tool_arguments")
  <2>1. isTrue(c, [status |-> 200, word |-> "invalid_tool_arguments"])'
    BY <1>1, TrueNext
  <2>2. call' = answering(c, 200, "invalid_tool_arguments")
    BY <1>4 DEF result
  <2> QED BY <1>1, <1>3, <1>4, <2>1, <2>2, Answering
<1>5. ASSUME prepared' = [prepared EXCEPT ![c] = madeOf(c)],
             NEW k, isCall(k), call' = [call EXCEPT ![c] = k], k.request = call[c].request,
             k.asked = call[c].asked, k.shown = call[c].shown,
             \/ k.at = "answering" /\ k.requirement = call[c].requirement
                /\ k.response = [status |-> 200, word |-> "invalid_tool_requirement"]
             \/ k.at = "deciding" /\ k.requirement = needs(madeOf(c)) /\ call[c].asked = None
      PROVE  Sound(c)'
  <2>1. call'[c] = k /\ prepared'[c] = madeOf(c)
    BY <1>5
  <2>2. request(c)' = request(c) /\ operation(c)' = operation(c) /\ madeOf(c)' = madeOf(c)
    BY <1>1, <1>5, <2>1 DEF request, operation, madeOf
  <2>3. Kept(c)' /\ Shown(c)' /\ Placed(c)'
    BY <1>1, <1>5, <2>1, <2>2 DEF Sound, Kept, Shown, Placed, isSettled
  <2>4. isTrue(c, [status |-> 200, word |-> "invalid_tool_requirement"])'
    BY <1>1, TrueNext
  <2>5. Answerable(c)'
    BY <1>1, <1>5, <2>1, <2>4 DEF Sound, Answerable, untouched
  <2> QED BY <2>3, <2>5 DEF Sound
<1>6. CASE prepared' = [prepared EXCEPT ![c] = madeOf(c)] /\ call' = result(c, "invalid_tool_requirement")
  <2> DEFINE k == [call[c] EXCEPT !.at = "answering",
                                  !.response = [status |-> 200, word |-> "invalid_tool_requirement"]]
  <2>1. call' = [call EXCEPT ![c] = k]
    BY <1>6 DEF result, answering
  <2>2. /\ isCall(k) /\ k.at = "answering" /\ k.request = call[c].request /\ k.asked = call[c].asked
        /\ k.shown = call[c].shown /\ k.requirement = call[c].requirement
        /\ k.response = [status |-> 200, word |-> "invalid_tool_requirement"]
    BY DEF Sound, Kept, isCall
  <2> HIDE DEF k
  <2> QED BY <1>3, <1>5, <1>6, <2>1, <2>2
<1>7. CASE /\ prepared' = [prepared EXCEPT ![c] = madeOf(c)]
           /\ call' = [moved(c, "deciding") EXCEPT ![c].requirement = needs(madeOf(c))]
  <2> DEFINE m == [call[c] EXCEPT !.at = "deciding"]
             k == [m EXCEPT !.requirement = needs(madeOf(c))]
  <2>1. call' = [call EXCEPT ![c] = k]
    BY <1>7 DEF moved
  <2>2. isCall(m) /\ m.at = "deciding" /\ m.request = call[c].request /\ m.asked = call[c].asked
        /\ m.shown = call[c].shown
    BY DEF Sound, Kept, isCall
  <2> HIDE DEF m
  <2>3. isCall(k) /\ k.at = "deciding" /\ k.request = call[c].request /\ k.asked = call[c].asked
        /\ k.shown = call[c].shown /\ k.requirement = needs(madeOf(c))
    BY <2>2 DEF isCall
  <2> HIDE DEF k
  <2>4. call[c].asked = None
    BY <1>1 DEF Sound, Kept
  <2> QED BY <1>3, <1>5, <1>7, <2>1, <2>3, <2>4
<1> QED BY <1>2, <1>3, <1>4, <1>6, <1>7

(* What is asked of the files provider is one of its actions.              *)
LEMMA PortsFit ==
    ASSUME NEW c \in Calls, request(c) \in Requests,
           request(c).route \in toolRoutes \union {"invokeResource", "sendMessage"}
    PROVE  /\ madeOf(c) # None
           /\ portOf(madeOf(c)) \in {"delivering", "provider", "elsewhere"}
           /\ portOf(madeOf(c)) = "delivering" <=> request(c).route \in {"sendMessage", "requestMessage"}
           /\ portOf(madeOf(c)) = "provider" => madeOf(c).action \in Actions
<1>1. CASE request(c).route = "invokeTool"
  <2> DEFINE tool == request(c).asks.tool
             made == parsedCall(tool, request(c).asks.arguments)
  <2>1. madeOf(c) = made /\ tool \in DOMAIN standardTools /\ made # None
    BY <1>1, RemoteCallsAssumption DEF madeOf
  <2>2. /\ DOMAIN made = {"namespace", "action", "path", "input"}
        /\ made.namespace = namespaceOf(tool) /\ made.action = standardTools[tool].action
    BY DEF parsedCall
  <2> HIDE DEF made
  <2>3. portOf(made) = "provider" => tool \in DOMAIN fileTools
    BY <2>2 DEF portOf, namespaceOf
  <2> QED BY <1>1, <2>1, <2>2, <2>3, FilesAct DEF portOf
<1>2. CASE request(c).route = "invokeResource"
  BY <1>2, RemoteCallsAssumption DEF madeOf, portOf
<1>3. CASE request(c).route \in {"sendMessage", "requestMessage"}
  BY <1>3, RemoteCallsAssumption DEF madeOf, portOf
<1> QED BY <1>1, <1>2, <1>3 DEF toolRoutes

LEMMA AllowingIsSound ==
    ASSUME NEW c \in Calls, Sound(c), DOMAIN call = Calls, DOMAIN io = Calls, Allows(c)
    PROVE  Sound(c)' /\ IsAlone(c) /\ DOMAIN call' = Calls /\ DOMAIN io' = Calls
<1> DEFINE asks == madeOf(c)
           isTool == request(c).route \in toolRoutes
<1>1. /\ UNCHANGED <<changed, prepared, told>> /\ call[c].at = "deciding" /\ c \notin changed
      /\ operation(c) = None /\ request(c) \in Requests /\ call[c].shown = None /\ io[c].left = None
      /\ request(c).route \in toolRoutes \union {"invokeResource", "sendMessage"}
  BY DEF Allows, Sound, Kept, Placed, Answerable, untouched
<1>2. asks = IF isTool THEN prepared[slotOf(c)] ELSE request(c).asks
  BY <1>1 DEF Sound, Kept, madeOf, slotOf, toolRoutes
<1> DEFINE m == [call[c] EXCEPT !.at = portOf(asks)]
           k == [m EXCEPT !.asked = asks, !.requirement = IF isTool THEN @ ELSE needs(asks)]
<1> HIDE DEF asks
<1>3. /\ call' = [call EXCEPT ![c] = k]
      /\ IF portOf(asks) = "provider" THEN ProviderAsked(c, asks) ELSE UNCHANGED io
  BY <1>2, ZenonT(60) DEF Allows, moved
<1>4. isCall(m) /\ m.at = portOf(asks) /\ m.request = call[c].request /\ m.shown = None
      /\ m.requirement = call[c].requirement
  BY <1>1 DEF Sound, Kept, isCall
<1> HIDE DEF m
<1>5. isCall(k) /\ k.at = portOf(asks) /\ k.request = call[c].request /\ k.shown = None
      /\ k.asked = asks /\ k.requirement = IF isTool THEN call[c].requirement ELSE needs(asks)
  BY <1>4 DEF isCall
<1> HIDE DEF k
<1>6. call'[c] = k
  BY <1>3
<1>7. request(c)' = request(c) /\ madeOf(c)' = asks
  BY <1>5, <1>6 DEF request, madeOf, asks
<1>8. /\ asks # None /\ portOf(asks) \in {"delivering", "provider", "elsewhere"}
      /\ portOf(asks) = "delivering" <=> request(c).route \in {"sendMessage", "requestMessage"}
      /\ portOf(asks) = "provider" => asks.action \in Actions
  BY <1>1, PortsFit DEF asks
<1>9. k.requirement = needs(asks) /\ (prepared[c] # None => prepared[c] = asks)
  BY <1>1, <1>5 DEF Sound, Kept, asks
<1>10. /\ DOMAIN io' = Calls /\ isOperation(io'[c]) /\ (\A d \in Calls \ {c} : io'[d] = io[d])
       /\ portOf(asks) = "provider" =>
            /\ io'[c].operation = asks /\ io'[c].todo = planOf(asks.action)
            /\ io'[c].ending \in {None, "thrown"}
       /\ portOf(asks) # "provider" => io' = io
  BY <1>3 DEF ProviderAsked, Sound, Kept, isOperation
<1>11. Kept(c)'
  BY <1>1, <1>5, <1>6, <1>7, <1>8, <1>9, <1>10 DEF Kept, operation
<1>12. Placed(c)' /\ Shown(c)'
  BY <1>1, <1>5, <1>6, <1>7, <1>8 DEF Placed, Shown, toolRoutes
<1>13. portOf(asks) = "provider" => Provided(c)'
  <2> SUFFICES ASSUME portOf(asks) = "provider" PROVE Provided(c)'
    OBVIOUS
  <2>1. Planned(planOf(asks.action), asks.action) /\ (asks.action \in mutations => isDue(planOf(asks.action)))
    BY <1>8, PlansBegin
  <2>2. None \notin Conflicts \union Denials \union {"done", "thrown"}
        /\ "thrown" \notin Conflicts \union Denials
    BY RemoteCallsAssumption DEF Conflicts, Denials
  <2>3. operation(c)' = asks
    BY <1>10 DEF operation
  <2> QED BY <1>1, <1>8, <1>10, <2>1, <2>2, <2>3 DEF Provided
<1>14. Answerable(c)'
  BY <1>1, <1>5, <1>6, <1>8, <1>13 DEF Sound, Answerable, untouched
<1> QED BY <1>1, <1>3, <1>10, <1>11, <1>12, <1>14 DEF Sound, IsAlone

(* What a listing shows of namespaces it has just patched is as they were  *)
(* left.                                                                   *)
LEMMA ListingIsSound ==
    ASSUME NEW c \in Calls, Sound(c), DOMAIN call = Calls, Lists(c)
    PROVE  Sound(c)' /\ IsAlone(c) /\ DOMAIN call' = Calls /\ UNCHANGED <<io, prepared, told>>
<1>1. /\ UNCHANGED <<io, changed, prepared, told>> /\ call[c].at = "listing" /\ operation(c) = None
      /\ request(c).route \in listings \union {"updateToolNamespaces"}
      /\ c \in changed <=> request(c).route = "updateToolNamespaces"
  BY DEF Lists, Sound, Kept, Placed, Answerable, providerVars
<1>2. CASE call' = thrown(c)
  <2>1. "internal_error" \in mild
    BY DEF mild
  <2>2. isTrue(c, [status |-> 500, word |-> "internal_error"])'
    BY <2>1, TrueNext
  <2>3. call' = answering(c, 500, "internal_error")
    BY <1>2 DEF thrown
  <2> QED BY <1>1, <2>2, <2>3, Answering DEF IsAlone
<1>3. CASE \E offered \in Answers : \E discoverable \in SUBSET Namespaces \union {None} :
               /\ (derivedRegistry(offered) = Refused \/ request(c).route # "listTools")
                     => discoverable = None
               /\ derivedRegistry(offered) = Refused => request(c).route = "listTools"
               /\ call' = [result(c, "succeeded") EXCEPT
                             ![c].shown = [offered |-> offered, discoverable |-> discoverable]]
  <2>1. PICK offered \in Answers, discoverable \in SUBSET Namespaces \union {None} :
               /\ derivedRegistry(offered) = Refused => discoverable = None
               /\ call' = [result(c, "succeeded") EXCEPT
                             ![c].shown = [offered |-> offered, discoverable |-> discoverable]]
    BY <1>3
  <2> DEFINE response == [status |-> 200, word |-> "succeeded"]
             shown == [offered |-> offered, discoverable |-> discoverable]
             m == [call[c] EXCEPT !.at = "answering", !.response = response]
             k == [m EXCEPT !.shown = shown]
  <2>2. call' = [call EXCEPT ![c] = k] /\ call'[c] = k
    BY <2>1 DEF result, answering
  <2>3. /\ isCall(m) /\ m.at = "answering" /\ m.request = call[c].request /\ m.asked = call[c].asked
        /\ m.requirement = call[c].requirement /\ m.response = response /\ m.enabled = call[c].enabled
    BY DEF Sound, Kept, isCall
  <2> HIDE DEF m, response, shown
  <2>4. /\ isCall(k) /\ k.at = "answering" /\ k.request = call[c].request /\ k.asked = call[c].asked
        /\ k.requirement = call[c].requirement /\ k.response = response /\ k.enabled = call[c].enabled
        /\ k.shown = shown
    BY <2>3 DEF isCall
  <2> HIDE DEF k
  <2>5. request(c)' = request(c) /\ operation(c)' = operation(c) /\ madeOf(c)' = madeOf(c)
    BY <1>1, <2>2, <2>4 DEF request, operation, madeOf
  <2>6. Kept(c)' /\ Placed(c)'
    BY <1>1, <2>2, <2>4, <2>5 DEF Sound, Kept, Placed
  <2>7. Shown(c)'
    <3>1. shown.discoverable = None \/ derivedRegistry(shown.offered) # Refused
      BY <2>1 DEF shown
    <3> QED BY <1>1, <2>2, <2>4, <2>5, <3>1 DEF Sound, Shown, isSettled
  <2>8. isTrue(c, response)'
    <3>1. mutates(c)' => c \in changed'
      BY <1>1, <2>5 DEF mutates, listings
    <3>2. "succeeded" \notin Conflicts
      BY DEF Conflicts
    <3> QED BY <3>1, <3>2 DEF response, isTrue
  <2>9. Answerable(c)'
    BY <1>1, <2>2, <2>4, <2>8 DEF Sound, Answerable, untouched
  <2> QED BY <1>1, <2>2, <2>6, <2>7, <2>9 DEF Sound, IsAlone
<1> QED BY <1>2, <1>3 DEF Lists

LEMMA PatchingIsSound ==
    ASSUME NEW c \in Calls, Sound(c), DOMAIN call = Calls, PatchesNamespaces(c)
    PROVE  Sound(c)' /\ IsAlone(c) /\ DOMAIN call' = Calls /\ UNCHANGED <<io, prepared, told>>
<1>1. /\ UNCHANGED <<io, prepared, told>> /\ call[c].at = "patching" /\ c \notin changed
      /\ operation(c) = None /\ request(c).route = "updateToolNamespaces" /\ request(c).wellFormed
      /\ request(c) \in Requests /\ call[c].shown = None /\ io[c].left = None
  BY DEF PatchesNamespaces, Sound, Kept, Placed, Answerable, untouched
<1>4. CASE call' = notPermitted(c) /\ UNCHANGED changed
  <2>1. isTrue(c, [status |-> 403, word |-> "permission_denied"])'
    BY <1>1, <1>4, TrueNext
  <2>2. call' = answering(c, 403, "permission_denied")
    BY <1>4 DEF notPermitted
  <2> QED BY <1>1, <1>4, <2>1, <2>2, Answering DEF IsAlone
<1>2. CASE call' = thrown(c) /\ UNCHANGED changed
  <2>1. "internal_error" \in mild
    BY DEF mild
  <2>2. isTrue(c, [status |-> 500, word |-> "internal_error"])'
    BY <2>1, TrueNext
  <2>3. call' = answering(c, 500, "internal_error")
    BY <1>2 DEF thrown
  <2> QED BY <1>1, <1>2, <2>2, <2>3, Answering DEF IsAlone
<1>3. CASE /\ changed' = changed \union {c} /\ enabled' = appliedTo(c, request(c).asks)
           /\ call' = [moved(c, "listing") EXCEPT ![c].enabled = enabled']
  <2> DEFINE m == [call[c] EXCEPT !.at = "listing"]
             k == [m EXCEPT !.enabled = enabled']
  <2>1. call' = [call EXCEPT ![c] = k] /\ call'[c] = k
    BY <1>3 DEF moved
  <2>2. isCall(m) /\ m.at = "listing" /\ m.request = call[c].request /\ m.asked = call[c].asked
        /\ m.shown = None /\ m.requirement = call[c].requirement
    BY <1>1 DEF Sound, Kept, isCall
  <2> HIDE DEF m
  <2>3. isCall(k) /\ k.at = "listing" /\ k.request = call[c].request /\ k.asked = call[c].asked
        /\ k.shown = None /\ k.requirement = call[c].requirement /\ k.enabled = enabled'
    BY <2>2 DEF isCall
  <2> HIDE DEF k
  <2>4. request(c)' = request(c) /\ operation(c)' = operation(c) /\ madeOf(c)' = madeOf(c)
    BY <1>1, <2>1, <2>3 DEF request, operation, madeOf
  <2>5. Kept(c)' /\ Placed(c)'
    BY <1>1, <2>1, <2>3, <2>4 DEF Sound, Kept, Placed
  <2>6. isPatch(request(c).asks)
    BY <1>1, RemoteCallsAssumption
  <2>7. isSettled(c)'
    BY <1>3, <2>1, <2>3, <2>4, <2>6 DEF isSettled, isPatch, appliedTo
  <2>8. Shown(c)'
    BY <2>1, <2>3, <2>7 DEF Shown
  <2>9. Answerable(c)'
    BY <1>1, <1>3, <2>1, <2>3, <2>4 DEF Sound, Answerable, untouched
  <2> QED BY <1>1, <1>3, <2>1, <2>5, <2>8, <2>9 DEF Sound, IsAlone
<1> QED BY <1>2, <1>3, <1>4 DEF PatchesNamespaces

-----------------------------------------------------------------------------
(* The settings.                                                           *)
LEMMA PatchAppends ==
    ASSUME SettingsHold, NEW patch \in {r.asks : r \in Requests},
           enabled' = (enabled \union patch.enable) \ patch.disable, patches' = Append(patches, patch)
    PROVE  SettingsHold'
<1> DEFINE n == Len(patches) + 1
<1>1. /\ patches' \in Seq({r.asks : r \in Requests}) /\ Len(patches) \in Nat /\ Len(patches') = n
      /\ \A i \in 1..Len(patches) : patches'[i] = patches[i] /\ i \in 1..n /\ i # n /\ i <= n
      /\ patches'[n] = patch /\ n \in 1..n /\ n <= n
      /\ \A i \in 1..n : i = n \/ i \in 1..Len(patches)
  BY DEF SettingsHold
<1> HIDE DEF n
<1>2. ASSUME NEW namespace \in Namespaces
      PROVE  IF namingOf(namespace)' = {} THEN namespace \in enabled' <=> namespace \in Enabled
             ELSE \E i \in lastOf(namespace)' :
                     namespace \in enabled' <=> namespace \notin patches'[i].disable
  <2>1. CASE namespace \in patch.enable \union patch.disable
    <3>1. namingOf(namespace)' = namingOf(namespace) \union {n}
      BY <1>1, <2>1 DEF namingOf
    <3>2. \A i \in namingOf(namespace) : i <= n
      BY <1>1 DEF namingOf
    <3>3. n \in lastOf(namespace)'
      BY <1>1, <3>1, <3>2 DEF lastOf
    <3> QED BY <1>1, <2>1, <3>1, <3>3
  <2>2. CASE namespace \notin patch.enable \union patch.disable
    <3>1. namingOf(namespace)' = namingOf(namespace)
      BY <1>1, <2>2 DEF namingOf
    <3>2. lastOf(namespace)' = lastOf(namespace)
      BY <3>1 DEF lastOf
    <3>3. \A i \in lastOf(namespace) : patches'[i] = patches[i]
      BY <1>1 DEF lastOf, namingOf
    <3>4. namespace \in enabled' <=> namespace \in enabled
      BY <2>2
    <3> QED BY <1>2, <3>1, <3>2, <3>3, <3>4 DEF SettingsHold
  <2> QED BY <2>1, <2>2
<1> QED BY <1>1, <1>2 DEF SettingsHold

LEMMA SettingsStay ==
    ASSUME SettingsHold, UNCHANGED settingsVars
    PROVE  SettingsHold'
BY DEF SettingsHold, settingsVars, namingOf, lastOf

-----------------------------------------------------------------------------
LEMMA RInvInit == ASSUME Init PROVE RInv
<1>1. Domains
  BY DEF Init, ProviderInit, Domains
<1>2. SettingsHold
  <2>1. patches = <<>> /\ enabled = Enabled /\ Len(<<>>) = 0 /\ 1..0 = {}
    BY DEF Init
  <2>2. \A namespace : namingOf(namespace) = {}
    BY <2>1 DEF namingOf
  <2> QED BY <2>1, <2>2 DEF SettingsHold
<1>3. ASSUME NEW c \in Calls PROVE Sound(c)
  <2>1. /\ call[c] = unsent /\ io[c] = notAsked /\ prepared[c] = None /\ told[c] = None
        /\ changed = {}
    BY DEF Init, ProviderInit
  <2>2. operation(c) = None
    BY <2>1 DEF operation, notAsked
  <2>3. Kept(c) /\ Placed(c) /\ Shown(c)
    BY <2>1, <2>2 DEF Kept, Placed, Shown, unsent, notAsked, isCall, isOperation
  <2>4. Answerable(c)
    BY <2>1 DEF Answerable, unsent
  <2> QED BY <2>3, <2>4 DEF Sound
<1> QED BY <1>1, <1>2, <1>3 DEF RInv

LEMMA RInvStep == ASSUME RInv, [Next]_vars PROVE RInv'
<1>1. CASE UNCHANGED vars
  <2>1. UNCHANGED <<call, io, prepared, told, changed, settingsVars>>
    BY <1>1 DEF vars, providerVars
  <2>2. SettingsHold' /\ Domains'
    BY <2>1, SettingsStay DEF RInv, Domains
  <2> QED BY <2>1, <2>2, Frame DEF RInv
<1>2. ASSUME NEW c \in Calls, Step(c) PROVE RInv'
  <2>1. /\ Sound(c) /\ SettingsHold /\ DOMAIN call = Calls /\ DOMAIN io = Calls /\ DOMAIN told = Calls
        /\ DOMAIN prepared = Calls \union Ids
    BY DEF RInv, Domains
  <2>2. SUFFICES Sound(c)' /\ IsAlone(c) /\ SettingsHold' /\ Domains'
    BY Frame DEF RInv, IsAlone
  <2>3. CASE (\E asked \in Requests : Sends(c, asked)) \/ LosesConnection(c) \/ Hears(c) \/ Disconnects(c)
    <3>1. UNCHANGED <<io, prepared, settingsVars>>
      BY <2>3 DEF Sends, LosesConnection, Hears, Disconnects, providerVars
    <3> QED BY <2>1, <2>3, <3>1, ClientIsSound, SettingsStay DEF Domains
  <2>4. CASE Routed(c)
    <3>1. UNCHANGED <<io, told, prepared, settingsVars>>
      BY <2>4 DEF Routed, providerVars
    <3> QED BY <2>1, <2>4, <3>1, RouterIsSound, SettingsStay DEF Domains
  <2>5. CASE NotFound(c) \/ NotResolved(c) \/ Refuses(c) \/ Reads(c) \/ KernelAnswers(c) \/ Replied(c)
    <3>1. UNCHANGED settingsVars
      BY <2>5 DEF NotFound, NotResolved, Refuses, Reads, KernelAnswers, Replied
    <3> QED BY <2>1, <2>5, <3>1, AnswersAreSound, SettingsStay DEF Domains
  <2>6. CASE Prepares(c)
    <3>1. UNCHANGED <<io, told, settingsVars>>
      BY <2>6 DEF Prepares, providerVars
    <3> QED BY <2>1, <2>6, <3>1, PreparingIsSound, SettingsStay DEF Domains
  <2>7. CASE Allows(c)
    <3>1. UNCHANGED <<prepared, told, settingsVars>>
      BY <2>7 DEF Allows
    <3> QED BY <2>1, <2>7, <3>1, AllowingIsSound, SettingsStay DEF Domains
  <2>8. CASE Lists(c)
    <3>1. UNCHANGED settingsVars
      BY <2>8 DEF Lists
    <3> QED BY <2>1, <2>8, <3>1, ListingIsSound, SettingsStay DEF Domains
  <2>9. CASE Provides(c)
    <3>1. call[c].at = "provider" /\ ProviderStep(c) /\ UNCHANGED <<call, prepared, told, settingsVars>>
      BY <2>9 DEF Provides
    <3> QED BY <2>1, <3>1, ProviderKeeps, ProviderIsAlone, SettingsStay DEF Domains
  <2>10. CASE Delivers(c) \/ RepoAnswers(c)
    <3>1. UNCHANGED settingsVars
      BY <2>10 DEF Delivers, RepoAnswers
    <3> QED BY <2>1, <2>10, <3>1, PortsAreSound, SettingsStay DEF Domains
  <2>11. CASE PatchesNamespaces(c)
    <3>1. Sound(c)' /\ IsAlone(c) /\ Domains'
      BY <2>1, <2>11, PatchingIsSound DEF Domains
    <3>2. request(c).asks \in {r.asks : r \in Requests}
      BY <2>1, <2>11 DEF PatchesNamespaces, Sound, Kept
    <3>3. SettingsHold'
      <4>1. CASE UNCHANGED settingsVars
        BY <2>1, <4>1, SettingsStay
      <4>2. CASE /\ enabled' = appliedTo(c, request(c).asks)
                 /\ patches' = Append(patches, request(c).asks)
        BY <2>1, <3>2, <4>2, PatchAppends DEF appliedTo
      <4> QED BY <2>11, <4>1, <4>2 DEF PatchesNamespaces
    <3> QED BY <3>1, <3>3
  <2> QED BY <1>2, <2>3, <2>4, <2>5, <2>6, <2>7, <2>8, <2>9, <2>10, <2>11 DEF Step
<1> QED BY <1>1, <1>2 DEF Next

(* Whatever the callers, the connections and the file system do.           *)
THEOREM CallsAreSound == Spec => []RInv
<1>1. Init => RInv
  BY RInvInit
<1>2. RInv /\ [Next]_vars => RInv'
  BY RInvStep
<1> QED BY <1>1, <1>2, PTL DEF Spec

-----------------------------------------------------------------------------
(* The registry.                                                           *)
LEMMA HostToolsAreTheirOwn ==
    ASSUME NEW name \in DOMAIN hostTools
    PROVE  /\ name \in DOMAIN standardTools /\ hostTools[name].name = name
           /\ hostTools[name] = standardDefinition(name)
BY DEF hostTools, standardDefinition, toolDefinition

LEMMA RegistryNames ==
    ASSUME NEW answers, derivedRegistry(answers) # Refused, NEW name \in DOMAIN derivedRegistry(answers)
    PROVE  /\ derivedRegistry(answers)[name].name = name
           /\ name \in DOMAIN hostTools => derivedRegistry(answers)[name] = hostTools[name]
<1> DEFINE own == [n \in DOMAIN hostTools \union {messageDefinition.name} |->
                     IF n \in DOMAIN hostTools THEN hostTools[n] ELSE messageDefinition]
           offered == UNION {{<<provider, i>> : i \in DOMAIN answers[provider]} :
                                provider \in Range(ToolProviders)}
           definition(place) == answers[place[1]][place[2]]
           names == {definition(place).name : place \in offered}
           registry == [n \in DOMAIN own \union names |->
                          IF n \in DOMAIN own THEN own[n]
                          ELSE definition(CHOOSE place \in offered : definition(place).name = n)]
<1>1. derivedRegistry(answers) = registry
  BY DEF derivedRegistry
<1> HIDE DEF offered
<1>2. \A n \in DOMAIN own : own[n].name = n /\ (n \in DOMAIN hostTools => own[n] = hostTools[n])
  BY HostToolsAreTheirOwn
<1>3. DOMAIN hostTools \subseteq DOMAIN own
  OBVIOUS
<1>4. CASE name \in DOMAIN own
  <2>1. registry[name] = own[name]
    BY <1>4
  <2> QED BY <1>1, <1>2, <1>4, <2>1
<1>5. CASE name \notin DOMAIN own
  <2>1. PICK place \in offered : definition(place).name = name
    BY <1>1, <1>5
  <2>2. definition(CHOOSE place_1 \in offered : definition(place_1).name = name).name = name
    BY <2>1
  <2>3. registry[name] = definition(CHOOSE place_1 \in offered : definition(place_1).name = name)
    BY <1>1, <1>5
  <2> QED BY <1>1, <1>3, <1>5, <2>2, <2>3
<1> QED BY <1>4, <1>5

LEMMA ListingsShowTheirOwn ==
    ASSUME NEW c \in Calls,
           call[c].shown.discoverable = None \/ derivedRegistry(call[c].shown.offered) # Refused
    PROVE  showsItsOwn(c)
<1> DEFINE registry == derivedRegistry(call[c].shown.offered)
<1>1. ASSUME NEW tool \in shownTools(c)
      PROVE  /\ tool.name \in DOMAIN registry /\ tool = registry[tool.name]
             /\ tool.name \in DOMAIN hostTools => tool = hostTools[tool.name]
             /\ tool.namespace \in call[c].enabled
  <2>1. registry # Refused /\ tool \in Range(registry) /\ tool.namespace \in call[c].enabled
    BY <1>1 DEF shownTools, visibleTools
  <2>2. PICK name \in DOMAIN registry : tool = registry[name]
    BY <2>1 DEF Range
  <2> QED BY <2>1, <2>2, RegistryNames
<1>2. catalogListed(c).enabledNamespaces = call[c].enabled
  BY DEF catalogListed
<1>3. catalogListed(c).catalogHash = {publishToolDefinition(d) : d \in shownTools(c)}
  <2>1. ~ \E d, e \in shownTools(c) : d # e /\ d.name = e.name
    BY <1>1
  <2> QED BY <2>1 DEF catalogListed, catalogHash, publishToolCatalog
<1>4. ASSUME NEW tool \in catalogListed(c).catalogHash,
             tool.annotations["readOnly"], tool.name \in DOMAIN standardTools
      PROVE  standardTools[tool.name].action \notin mutations
  <2>1. PICK d \in shownTools(c) : tool = publishToolDefinition(d)
    BY <1>3, <1>4
  <2> DEFINE action == standardTools[tool.name].action
  <2>2. tool.name = d.name /\ d = standardDefinition(d.name)
    <3>1. tool.name = d.name
      BY <2>1 DEF publishToolDefinition
    <3>2. d.name \in DOMAIN hostTools
      BY <1>4, <3>1 DEF hostTools
    <3> QED BY <1>1, <3>1, <3>2, HostToolsAreTheirOwn
  <2>3. /\ d.readWrite = IF action \in reads THEN "read" ELSE "write"
        /\ DOMAIN d.hints \subseteq {"readOnly", "destructive"}
        /\ "readOnly" \in DOMAIN d.hints => action \in reads
    BY <2>2 DEF standardDefinition, toolDefinition
  <2>4. tool.annotations["readOnly"] =
          IF "readOnly" \in DOMAIN d.hints THEN d.hints["readOnly"] ELSE d.readWrite = "read"
    BY <2>1 DEF publishToolDefinition
  <2>5. action \in reads
    BY <1>4, <2>3, <2>4
  <2> QED BY <2>5 DEF reads, mutations
<1> QED BY <1>1, <1>2, <1>4 DEF showsItsOwn

-----------------------------------------------------------------------------
(* Neither another call prepared in one handler, nor one of the same id,   *)
(* changes what a port is asked for (createFileTools, #invokePort).        *)
THEOREM OnlyWhatWasAuthorized == Spec => []AuthorizedIsDone
<1>1. RInv => AuthorizedIsDone
  BY DEF RInv, Sound, Kept, AuthorizedIsDone
<1> QED BY <1>1, CallsAreSound, PTL

(* An answer of SharedOSClient is true, however late it comes and whatever *)
(* else has run: of the changes made, and of the tools shown.              *)
THEOREM TheClientIsToldTheTruth == Spec => []ClientIsToldWhatHappened
<1>1. ASSUME RInv PROVE ClientIsToldWhatHappened
  <2> SUFFICES ASSUME NEW c \in Calls, told[c] # None
               PROVE  /\ isTrue(c, told[c])
                      /\ (call[c].shown # None /\ request(c).route = "listTools") => showsItsOwn(c)
    BY DEF ClientIsToldWhatHappened, isTrue
  <2>1. isTrue(c, told[c])
    <3>1. isTrue(c, [status |-> 0, word |-> "lost"])
      BY Mild, ZenonT(60) DEF mild
    <3> QED BY <1>1, <3>1 DEF RInv, Sound, Answerable
  <2>2. (call[c].shown # None /\ request(c).route = "listTools") => showsItsOwn(c)
    BY <1>1, ListingsShowTheirOwn DEF RInv, Sound, Shown
  <2> QED BY <2>1, <2>2
<1> QED BY <1>1, CallsAreSound, PTL

(* Patches land in some order, each on what the ones before it left        *)
(* (applyToolNamespaceUpdate), and show their caller what they did.        *)
THEOREM NoPatchIsUndone == Spec => []PatchesHold
<1>1. ASSUME RInv PROVE PatchesHold
  <2>1. ASSUME NEW namespace \in Namespaces, namingOf(namespace) # {}
        PROVE  namespace \in enabled <=> namespace \notin patches[Max(namingOf(namespace))].disable
    <3>1. PICK i \in lastOf(namespace) : namespace \in enabled <=> namespace \notin patches[i].disable
      BY <1>1, <2>1 DEF RInv, SettingsHold
    <3>2. namingOf(namespace) \subseteq Int
      BY DEF namingOf
    <3>3. i \in namingOf(namespace) /\ \A j \in namingOf(namespace) : i >= j
      BY <3>2 DEF lastOf
    <3>4. \A k \in namingOf(namespace) : (\A j \in namingOf(namespace) : k >= j) => k = i
      BY <3>2, <3>3
    <3>5. Max(namingOf(namespace)) = i
      BY <3>3, <3>4 DEF Max
    <3> QED BY <3>1, <3>5
  <2>2. DOMAIN patches = 1..Len(patches)
    BY <1>1 DEF RInv, SettingsHold
  <2>3. \A namespace \in Namespaces :
          LET naming == {i \in DOMAIN patches :
                           namespace \in patches[i].enable \union patches[i].disable} IN
          namespace \in enabled <=>
              IF naming = {} THEN namespace \in Enabled
              ELSE namespace \notin patches[Max(naming)].disable
    <3> SUFFICES ASSUME NEW namespace \in Namespaces
                 PROVE  namespace \in enabled <=>
                          IF namingOf(namespace) = {} THEN namespace \in Enabled
                          ELSE namespace \notin patches[Max(namingOf(namespace))].disable
      BY <2>2 DEF namingOf
    <3> QED BY <1>1, <2>1 DEF RInv, SettingsHold
  <2>4. ASSUME NEW c \in Calls, call[c].shown # None, request(c).route = "updateToolNamespaces",
               NEW shown \in shownNamespaces(c)
        PROVE  /\ shown.namespace \in request(c).asks.enable => shown.enabled
               /\ shown.namespace \in request(c).asks.disable => ~shown.enabled
    <3>1. shown.enabled = (shown.namespace \in call[c].enabled)
      <4> DEFINE registry == derivedRegistry(call[c].shown.offered)
                 grouped(namespace) == {d \in Range(registry) : d.namespace = namespace}
                 entry(namespace) == [namespace |-> namespace,
                                      sources |-> {d.source : d \in grouped(namespace)},
                                      toolCount |-> Cardinality(grouped(namespace)),
                                      enabled |-> namespace \in call[c].enabled]
      <4>1. shownNamespaces(c) = {entry(namespace) : namespace \in {d.namespace : d \in Range(registry)}}
        BY DEF shownNamespaces, namespaceCatalog
      <4>2. PICK namespace : shown = entry(namespace)
        BY <2>4, <4>1
      <4>3. shown.namespace = namespace /\ shown.enabled = (namespace \in call[c].enabled)
        BY <4>2
      <4> QED BY <4>3
    <3> QED BY <1>1, <2>4, <3>1 DEF RInv, Sound, Shown, isSettled
  <2> QED BY <2>3, <2>4 DEF PatchesHold
<1> QED BY <1>1, CallsAreSound, PTL

-----------------------------------------------------------------------------
(* What is appended under an expected version.                             *)

(* The text of each file before any call: until it comes to a version that *)
(* a request expects, a file has no other that one does.                   *)
found(path) == textAt(Seed, path)

(* What is to be appended once stands, where it is at all, right after     *)
(* that text.                                                              *)
isPlaced(path, text) ==
    /\ text \in Seq(STRING)
    /\ \A i \in 1..Len(text) : text[i] = Once => i = Len(found(path)) + 1

appendTodos ==
    {<<"resolve", "readBase", "version", "mkdir", "open", "write">>,
     <<"readBase", "version", "mkdir", "open", "write">>,
     <<"version", "mkdir", "open", "write">>, <<"mkdir", "open", "write">>,
     <<"open", "write">>, <<"write">>, <<>>}

(* An append that has read what it adds to, and one that has then found    *)
(* the version as it was expected.                                         *)
baseRead ==
    {<<"version", "mkdir", "open", "write">>, <<"mkdir", "open", "write">>, <<"open", "write">>}

versionSeen == {<<"mkdir", "open", "write">>, <<"open", "write">>}

Based(c) ==
    operation(c) # None /\ target(c) \in Paths =>
        /\ isPlaced(target(c), io[c].seen)
        /\ operation(c).action = "append" =>
              /\ io[c].todo \in appendTodos
              /\ (/\ io[c].todo \in baseRead
                  /\ textAt(tree, target(c)) = found(target(c)) /\ found(target(c)) \in Expected)
                    => io[c].seen = found(target(c))
              /\ (io[c].todo \in versionSeen /\ contentOf(c) = <<Once>>) => io[c].seen = found(target(c))

TextsPlaced ==
    /\ \A path \in Paths : isPlaced(path, textAt(tree, path))
    /\ \A s \in snapshots : s.path \in Paths => isPlaced(s.path, s.text)

FoundOrUnexpected ==
    \A path \in Paths : textAt(tree, path) = found(path) \/ textAt(tree, path) \notin Expected

AInv ==
    /\ DOMAIN tree = Paths
    /\ ~cameTo => TextsPlaced /\ FoundOrUnexpected /\ \A c \in Calls : Based(c)

(* Sequences of one element, and what one sequence adds to another.        *)
LEMMA OneElement ==
    ASSUME NEW S, NEW x \in S
    PROVE  <<x>> \in Seq(S) /\ Len(<<x>>) = 1 /\ <<x>>[1] = x
OBVIOUS

LEMMA Joined ==
    ASSUME NEW S, NEW s \in Seq(S), NEW t \in Seq(S)
    PROVE  /\ s \o t \in Seq(S) /\ Len(s \o t) = Len(s) + Len(t)
           /\ Len(s) \in Nat /\ Len(t) \in Nat /\ DOMAIN s = 1..Len(s) /\ DOMAIN t = 1..Len(t)
           /\ \A i \in 1..Len(s) : (s \o t)[i] = s[i]
           /\ \A i \in 1..Len(t) : (s \o t)[Len(s) + i] = t[i]
OBVIOUS

(* An append's calls to the file system, one by one.                       *)
LEMMA AppendsBegin ==
    /\ planOf("append") \in appendTodos /\ planOf("append") \notin baseRead
    /\ planOf("append") \notin versionSeen
<1>1. planOf("append") = <<"resolve">> \o <<"readBase", "version", "mkdir", "open", "write">>
  BY DEF planOf, stepsOf
<1>2. <<"resolve">> \o <<"readBase", "version", "mkdir", "open", "write">> =
        <<"resolve", "readBase", "version", "mkdir", "open", "write">>
  <2> DEFINE head == <<"resolve">>
             rest == <<"readBase", "version", "mkdir", "open", "write">>
             whole == <<"resolve", "readBase", "version", "mkdir", "open", "write">>
  <2>1. /\ head \in Seq(stepNames) /\ Len(head) = 1 /\ head[1] = "resolve"
        /\ rest \in Seq(stepNames) /\ Len(rest) = 5
        /\ rest[1] = "readBase" /\ rest[2] = "version" /\ rest[3] = "mkdir" /\ rest[4] = "open"
        /\ rest[5] = "write"
        /\ whole \in Seq(stepNames) /\ Len(whole) = 6
        /\ whole[1] = "resolve" /\ whole[2] = "readBase" /\ whole[3] = "version"
        /\ whole[4] = "mkdir" /\ whole[5] = "open" /\ whole[6] = "write"
    BY DEF stepNames
  <2> HIDE DEF head, rest, whole
  <2>2. /\ head \o rest \in Seq(stepNames) /\ Len(head \o rest) = 6
        /\ (head \o rest)[1] = head[1]
        /\ \A i \in 2..6 : (head \o rest)[i] = rest[i - 1]
    <3>0. head \in Seq(stepNames) /\ rest \in Seq(stepNames)
      BY <2>1
    <3>1. head \o rest \in Seq(stepNames) /\ Len(head \o rest) = Len(head) + Len(rest)
      BY <3>0, Joined
    <3>2. /\ \A i \in 1..Len(head) : (head \o rest)[i] = head[i]
          /\ \A i \in 1..Len(rest) : (head \o rest)[Len(head) + i] = rest[i]
      BY <3>0, Joined
    <3>3. \A i \in 1..5 : (head \o rest)[1 + i] = rest[i]
      BY <2>1, <3>2
    <3>4. \A i \in 2..6 : (head \o rest)[i] = rest[i - 1]
      <4> SUFFICES ASSUME NEW i \in 2..6 PROVE (head \o rest)[i] = rest[i - 1]
        OBVIOUS
      <4>1. i - 1 \in 1..5 /\ 1 + (i - 1) = i
        OBVIOUS
      <4> QED BY <3>3, <4>1
    <3> QED BY <2>1, <3>1, <3>2, <3>4
  <2>3. \A i \in 1..6 : (head \o rest)[i] = whole[i]
    BY <2>1, <2>2, SMTT(30)
  <2>4. head \o rest = whole
    BY <2>1, <2>2, <2>3, SeqEqual
  <2> QED BY <2>4 DEF head, rest, whole
<1> QED BY <1>1, <1>2 DEF appendTodos, baseRead, versionSeen

LEMMA AppendsGoOn ==
    ASSUME NEW todo \in appendTodos, todo # <<>>
    PROVE  /\ Head(todo) \in {"resolve", "readBase", "version", "mkdir", "open", "write"}
           /\ Tail(todo) \in appendTodos
           /\ Tail(todo) \in baseRead => todo \in baseRead \/ Head(todo) = "readBase"
           /\ Tail(todo) \in versionSeen =>
                 todo \in versionSeen \/ (Head(todo) = "version" /\ todo \in baseRead)
           /\ Head(todo) = "open" => todo \in versionSeen /\ Tail(todo) \notin baseRead
<1> USE DEF appendTodos, baseRead, versionSeen
<1>1. CASE todo = <<"resolve", "readBase", "version", "mkdir", "open", "write">>
  <2>1. Tail(todo) = <<"readBase", "version", "mkdir", "open", "write">> /\ Head(todo) = "resolve"
    BY <1>1
  <2> QED BY <2>1
<1>2. CASE todo = <<"readBase", "version", "mkdir", "open", "write">>
  <2>1. Tail(todo) = <<"version", "mkdir", "open", "write">> /\ Head(todo) = "readBase"
    BY <1>2
  <2> QED BY <2>1
<1>3. CASE todo = <<"version", "mkdir", "open", "write">>
  <2>1. Tail(todo) = <<"mkdir", "open", "write">> /\ Head(todo) = "version"
    BY <1>3
  <2> QED BY <1>3, <2>1
<1>4. CASE todo = <<"mkdir", "open", "write">>
  <2>1. Tail(todo) = <<"open", "write">> /\ Head(todo) = "mkdir"
    BY <1>4
  <2> QED BY <1>4, <2>1
<1>5. CASE todo = <<"open", "write">>
  <2>1. Tail(todo) = <<"write">> /\ Head(todo) = "open"
    BY <1>5
  <2> QED BY <1>5, <2>1
<1>6. CASE todo = <<"write">>
  <2>1. Tail(todo) = <<>> /\ Head(todo) = "write"
    BY <1>6
  <2> QED BY <2>1
<1> QED BY <1>1, <1>2, <1>3, <1>4, <1>5, <1>6

(* What a write does to a text with what is placed in it.                  *)
LEMMA OldTexts ==
    ASSUME NEW path \in Paths
    PROVE  /\ hasNoOnce(found(path)) /\ isPlaced(path, found(path)) /\ isPlaced(path, <<>>)
           /\ \A text : hasNoOnce(text) => isPlaced(path, text)
           /\ isPlaced(path, found(path) \o <<Once>>)
<1>1. hasNoOnce(found(path)) /\ Once \in STRING
  BY OnceAssumption DEF found
<1>2. ASSUME NEW text, hasNoOnce(text) PROVE isPlaced(path, text)
  <2>1. text \in Seq(STRING) /\ DOMAIN text = 1..Len(text)
    BY <1>2 DEF hasNoOnce
  <2> QED BY <1>2, <2>1 DEF hasNoOnce, isPlaced
<1>3. <<>> \in Seq(STRING) /\ Len(<<>>) = 0
  OBVIOUS
<1>4. isPlaced(path, <<>>)
  BY <1>3 DEF isPlaced
<1>5. isPlaced(path, found(path) \o <<Once>>)
  <2> DEFINE text == found(path)
  <2>1. text \in Seq(STRING) /\ (\A i \in DOMAIN text : text[i] # Once)
    BY <1>1 DEF hasNoOnce
  <2> DEFINE more == <<Once>>
  <2> HIDE DEF text
  <2>2. more \in Seq(STRING) /\ Len(more) = 1
    BY <1>1, OneElement
  <2> HIDE DEF more
  <2>3. DOMAIN text = 1..Len(text) /\ Len(text) \in Nat
    BY <2>1
  <2>4. /\ text \o more \in Seq(STRING) /\ Len(text \o more) = Len(text) + Len(more)
        /\ \A i \in 1..Len(text) : (text \o more)[i] = text[i]
    BY <2>1, <2>2, Joined
  <2>5. \A i \in 1..Len(text \o more) : i = Len(text) + 1 \/ i \in 1..Len(text)
    BY <2>2, <2>3, <2>4
  <2>6. \A i \in 1..Len(text \o more) : (text \o more)[i] = Once => i = Len(text) + 1
    BY <2>1, <2>2, <2>3, <2>4, <2>5
  <2> QED BY <2>4, <2>6 DEF isPlaced, text, more
<1> QED BY <1>1, <1>2, <1>4, <1>5

LEMMA MoreText ==
    ASSUME NEW path \in Paths, NEW text, isPlaced(path, text), NEW more, hasNoOnce(more)
    PROVE  isPlaced(path, text \o more)
<1> DEFINE all == text \o more
<1>1. /\ text \in Seq(STRING) /\ more \in Seq(STRING) /\ DOMAIN more = 1..Len(more)
      /\ Len(text) \in Nat /\ Len(more) \in Nat
  BY DEF isPlaced, hasNoOnce
<1>2. /\ all \in Seq(STRING) /\ Len(all) = Len(text) + Len(more)
      /\ \A i \in 1..Len(all) :
            IF i <= Len(text) THEN all[i] = text[i] ELSE all[i] = more[i - Len(text)]
  BY <1>1
<1> HIDE DEF all
<1>3. ASSUME NEW i \in 1..Len(all), all[i] = Once PROVE i = Len(found(path)) + 1
  <2>1. CASE i <= Len(text)
    BY <1>1, <1>2, <1>3, <2>1 DEF isPlaced
  <2>2. CASE ~(i <= Len(text))
    <3>1. i - Len(text) \in 1..Len(more) /\ more[i - Len(text)] = Once
      BY <1>1, <1>2, <1>3, <2>2
    <3> QED BY <1>1, <3>1 DEF hasNoOnce
  <2> QED BY <2>1, <2>2
<1>4. isPlaced(path, all)
  BY <1>2, <1>3 DEF isPlaced
<1> QED BY <1>4 DEF all

LEMMA FilledText ==
    ASSUME NEW path \in Paths, NEW text, isPlaced(path, text), NEW over, isPlaced(path, over)
    PROVE  isPlaced(path, filled(text, over))
<1> DEFINE rest == SubSeq(over, Len(text) + 1, Len(over))
           all == text \o rest
<1>1. text \in Seq(STRING) /\ over \in Seq(STRING) /\ Len(text) \in Nat /\ Len(over) \in Nat
  BY DEF isPlaced
<1>2. /\ rest \in Seq(STRING)
      /\ Len(rest) = IF Len(text) < Len(over) THEN Len(over) - Len(text) ELSE 0
      /\ \A i \in 1..Len(rest) : rest[i] = over[Len(text) + i]
  BY <1>1
<1> HIDE DEF rest
<1>3. /\ all \in Seq(STRING) /\ Len(all) = Len(text) + Len(rest) /\ Len(rest) \in Nat
      /\ \A i \in 1..Len(all) :
            IF i <= Len(text) THEN all[i] = text[i] ELSE all[i] = rest[i - Len(text)]
  BY <1>1, <1>2
<1> HIDE DEF all
<1>4. ASSUME NEW i \in 1..Len(all), all[i] = Once PROVE i = Len(found(path)) + 1
  <2>1. CASE i <= Len(text)
    BY <1>1, <1>3, <1>4, <2>1 DEF isPlaced
  <2>2. CASE ~(i <= Len(text))
    <3>1. i - Len(text) \in 1..Len(rest) /\ rest[i - Len(text)] = Once
      BY <1>1, <1>3, <1>4, <2>2
    <3>2. rest[i - Len(text)] = over[Len(text) + (i - Len(text))] /\ Len(text) + (i - Len(text)) = i
      BY <1>1, <1>2, <3>1
    <3>3. i \in 1..Len(over)
      BY <1>1, <1>2, <1>3, <3>1
    <3> QED BY <3>1, <3>2, <3>3 DEF isPlaced
  <2> QED BY <2>1, <2>2
<1>5. isPlaced(path, all)
  BY <1>3, <1>4 DEF isPlaced
<1> QED BY <1>5 DEF all, rest, filled

(* What a call to the provider has to write is plain text, or an append's  *)
(* under an expected version.                                              *)
LEMMA ContentIsKnown ==
    ASSUME NEW c \in Calls, Sound(c), call[c].at = "provider"
    PROVE  /\ operation(c) # None /\ isOperation(io[c])
           /\ \/ hasNoOnce(contentOf(c))
              \/ /\ operation(c).action = "append" /\ contentOf(c) = <<Once>>
                 /\ expectedOf(c) \in Expected \ {None}
<1>1. /\ operation(c) # None /\ operation(c) = madeOf(c) /\ isOperation(io[c])
      /\ request(c) \in Requests /\ request(c).route \in {"invokeTool", "invokeResource"}
  BY DEF Sound, Kept, Placed, Answerable, Provided, untouched
<1> DEFINE made == IF request(c).route = "invokeTool"
                   THEN parsedCall(request(c).asks.tool, request(c).asks.arguments)
                   ELSE request(c).asks
<1>2. operation(c) = made
  BY <1>1 DEF madeOf
<1>3. "content" \in DOMAIN made.input => hasNoOnce(made.input.content) \/ appendsOnce(made)
  BY <1>1, OnceAssumption
<1> HIDE DEF made
<1>4. CASE "content" \in DOMAIN made.input
  <2>1. contentOf(c) = made.input.content
    BY <1>2, <1>4 DEF contentOf, given
  <2>2. "expectedVersion" \in DOMAIN made.input => expectedOf(c) = made.input.expectedVersion
    BY <1>2 DEF expectedOf, given
  <2> QED BY <1>1, <1>2, <1>3, <1>4, <2>1, <2>2 DEF appendsOnce
<1>5. CASE "content" \notin DOMAIN made.input
  <2>1. contentOf(c) = <<"null">>
    BY <1>2, <1>5 DEF contentOf, given
  <2>2. hasNoOnce(<<"null">>)
    BY OnceAssumption
  <2> QED BY <1>1, <2>1, <2>2
<1> QED BY <1>4, <1>5

(* No file has come to a version that is expected.                         *)
comesToNone ==
    \A path \in Paths :
        textAt(tree', path) \in Expected => textAt(tree', path) = textAt(tree, path)

LEMMA BasedStays ==
    ASSUME NEW c \in Calls, Based(c), io'[c] = io[c], comesToNone
    PROVE  Based(c)'
<1>1. operation(c)' = operation(c) /\ target(c)' = target(c) /\ contentOf(c)' = contentOf(c)
  BY DEF operation, target, contentOf, given
<1>2. target(c) \in Paths /\ textAt(tree, target(c))' = found(target(c)) /\ found(target(c)) \in Expected
        => textAt(tree, target(c)) = found(target(c))
  BY <1>1 DEF comesToNone, textAt
<1>3. found(target(c))' = found(target(c))
  BY <1>1 DEF found, textAt
<1>4. isPlaced(target(c), io[c].seen)' <=> isPlaced(target(c), io[c].seen)
  BY <1>1, <1>3 DEF isPlaced
<1> QED BY <1>1, <1>2, <1>3, <1>4 DEF Based

LEMMA BasedEnds ==
    ASSUME NEW c \in Calls, Based(c), io'[c].operation = io[c].operation,
           io'[c].todo = <<>>, io'[c].seen = io[c].seen
    PROVE  Based(c)'
<1>1. operation(c)' = operation(c) /\ target(c)' = target(c)
  BY DEF operation, target
<1>2. isPlaced(target(c), io[c].seen)' <=> isPlaced(target(c), io[c].seen)
  BY <1>1 DEF isPlaced, found, textAt
<1>3. <<>> \in appendTodos /\ <<>> \notin baseRead /\ <<>> \notin versionSeen
  BY DEF appendTodos, baseRead, versionSeen
<1> QED BY <1>1, <1>2, <1>3 DEF Based

LEMMA BasedGoesOn ==
    ASSUME NEW c \in Calls, Based(c), operation(c) # None, io'[c].operation = io[c].operation,
           io[c].todo # <<>>, io'[c].todo = Tail(io[c].todo), comesToNone,
           target(c) \in Paths => isPlaced(target(c), io'[c].seen),
           Head(io[c].todo) \notin {"readFile", "readSnapshot", "open", "readBase"} =>
              io'[c].seen = io[c].seen,
           Head(io[c].todo) = "readBase" /\ target(c) \in Paths =>
              io'[c].seen = textAt(tree, target(c)),
           Head(io[c].todo) = "version" /\ target(c) \in Paths /\ contentOf(c) = <<Once>>
              /\ operation(c).action = "append" =>
              textAt(tree, target(c)) = found(target(c)) /\ found(target(c)) \in Expected
    PROVE  Based(c)'
<1> DEFINE todo == io[c].todo
           path == target(c)
<1>1. /\ operation(c)' = operation(c) /\ target(c)' = target(c) /\ contentOf(c)' = contentOf(c)
      /\ found(target(c))' = found(target(c))
  BY DEF operation, target, contentOf, given, found, textAt
<1>2. isPlaced(target(c), io[c].seen)' <=> isPlaced(target(c), io'[c].seen)
  BY <1>1 DEF isPlaced
<1>3. SUFFICES ASSUME path \in Paths, operation(c).action = "append"
               PROVE  /\ Tail(todo) \in appendTodos
                      /\ (/\ Tail(todo) \in baseRead
                          /\ textAt(tree', path) = found(path) /\ found(path) \in Expected)
                            => io'[c].seen = found(path)
                      /\ (Tail(todo) \in versionSeen /\ contentOf(c) = <<Once>>) => io'[c].seen = found(path)
  <2>1. textAt(tree, target(c))' = textAt(tree', target(c))
    BY <1>1 DEF textAt
  <2> QED BY <1>1, <1>2, <1>3, <2>1 DEF Based
<1>4. /\ todo \in appendTodos
      /\ (todo \in baseRead /\ textAt(tree, path) = found(path) /\ found(path) \in Expected)
            => io[c].seen = found(path)
      /\ (todo \in versionSeen /\ contentOf(c) = <<Once>>) => io[c].seen = found(path)
  BY <1>3 DEF Based
<1>5. /\ Head(todo) \in {"resolve", "readBase", "version", "mkdir", "open", "write"}
      /\ Tail(todo) \in appendTodos
      /\ Tail(todo) \in baseRead => todo \in baseRead \/ Head(todo) = "readBase"
      /\ Tail(todo) \in versionSeen =>
            todo \in versionSeen \/ (Head(todo) = "version" /\ todo \in baseRead)
      /\ Head(todo) = "open" => todo \in versionSeen /\ Tail(todo) \notin baseRead
  BY <1>4, AppendsGoOn
<1>6. versionSeen \subseteq baseRead
  BY DEF versionSeen, baseRead
<1>7. Head(todo) \notin {"readBase", "open"} => io'[c].seen = io[c].seen
  BY <1>5
<1>8. ASSUME Tail(todo) \in baseRead, textAt(tree', path) = found(path), found(path) \in Expected
      PROVE  io'[c].seen = found(path)
  <2>1. textAt(tree, path) = found(path)
    BY <1>3, <1>8 DEF comesToNone
  <2>2. CASE Head(todo) = "readBase"
    BY <1>3, <2>1, <2>2
  <2>3. CASE Head(todo) # "readBase"
    BY <1>4, <1>5, <1>7, <1>8, <2>1, <2>3
  <2> QED BY <2>2, <2>3
<1>9. ASSUME Tail(todo) \in versionSeen, contentOf(c) = <<Once>> PROVE io'[c].seen = found(path)
  <2>1. Head(todo) # "open"
    BY <1>5, <1>6, <1>9
  <2>2. todo \in baseRead => Head(todo) # "readBase"
    <3>1. CASE todo = <<"version", "mkdir", "open", "write">>
      BY <3>1
    <3>2. CASE todo = <<"mkdir", "open", "write">>
      BY <3>2
    <3>3. CASE todo = <<"open", "write">>
      BY <3>3
    <3> QED BY <3>1, <3>2, <3>3 DEF baseRead
  <2>3. todo \in baseRead
    BY <1>5, <1>6, <1>9
  <2>4. io'[c].seen = io[c].seen
    BY <1>7, <2>1, <2>2, <2>3
  <2>5. CASE todo \in versionSeen
    BY <1>4, <1>9, <2>4, <2>5
  <2>6. CASE Head(todo) = "version"
    BY <1>3, <1>4, <1>9, <2>3, <2>4, <2>6
  <2> QED BY <1>5, <1>9, <2>5, <2>6
<1> QED BY <1>5, <1>8, <1>9

(* What is written when a file is opened.                                  *)
LEMMA WritesArePlaced ==
    ASSUME NEW c \in Calls, Sound(c), call[c].at = "provider", Based(c), doing(c, "open"),
           target(c) \in Paths
    PROVE  isPlaced(target(c), writes(c))
<1> DEFINE path == target(c)
<1>1. operation(c) # None /\ isPlaced(path, io[c].seen)
  BY ContentIsKnown DEF Based
<1>2. CASE operation(c).action = "append"
  <2>1. writes(c) = io[c].seen \o contentOf(c)
    BY <1>2 DEF writes
  <2>2. CASE hasNoOnce(contentOf(c))
    BY <1>1, <2>1, <2>2, MoreText
  <2>3. CASE contentOf(c) = <<Once>>
    <3>1. io[c].todo \in appendTodos /\ io[c].todo # <<>> /\ Head(io[c].todo) = "open"
      BY <1>1, <1>2 DEF Based, doing
    <3>2. io[c].todo \in versionSeen
      BY <3>1, AppendsGoOn
    <3>3. io[c].seen = found(path)
      BY <1>1, <1>2, <2>3, <3>2 DEF Based
    <3> QED BY <2>1, <2>3, <3>3, OldTexts
  <2> QED BY <2>2, <2>3, ContentIsKnown
<1>3. CASE operation(c).action # "append"
  <2>1. hasNoOnce(contentOf(c))
    BY <1>3, ContentIsKnown
  <2>2. writes(c) \in {io[c].seen, contentOf(c)}
    BY <1>3 DEF writes
  <2> QED BY <1>1, <2>1, <2>2, OldTexts
<1> QED BY <1>2, <1>3

(* What a step of the provider leaves of an operation.                     *)
LEMMA SeenForms ==
    ASSUME NEW c \in Calls, DOMAIN io = Calls, isOperation(io[c])
    PROVE  /\ \A code : io' = failing(c, code) =>
                 /\ io'[c].operation = io[c].operation /\ io'[c].todo = <<>>
                 /\ io'[c].seen = io[c].seen
           /\ io' = onward(c) =>
                 /\ io'[c].operation = io[c].operation /\ io'[c].todo = Tail(io[c].todo)
                 /\ io'[c].seen = io[c].seen
           /\ \A text : io' = onwardWith(c, text) =>
                 /\ io'[c].operation = io[c].operation /\ io'[c].todo = Tail(io[c].todo)
                 /\ io'[c].seen = text
           /\ \A text, maker : io' = [onwardWith(c, text) EXCEPT ![c].opened = maker] =>
                 /\ io'[c].operation = io[c].operation /\ io'[c].todo = Tail(io[c].todo)
                 /\ io'[c].seen = text
           /\ \A code, left : io' = [failing(c, code) EXCEPT ![c].left = left] =>
                 /\ io'[c].operation = io[c].operation /\ io'[c].todo = <<>>
                 /\ io'[c].seen = io[c].seen
           /\ \A left : io' = [onward(c) EXCEPT ![c].left = left] =>
                 /\ io'[c].operation = io[c].operation /\ io'[c].todo = Tail(io[c].todo)
                 /\ io'[c].seen = io[c].seen
<1>1. ASSUME NEW code, io' = failing(c, code)
      PROVE  /\ io'[c].operation = io[c].operation /\ io'[c].todo = <<>>
             /\ io'[c].seen = io[c].seen
  <2> DEFINE o == [io[c] EXCEPT !.todo = <<>>, !.ending = IF c \in aborted THEN "thrown" ELSE code]
  <2>1. io'[c] = o
    BY <1>1 DEF failing
  <2>2. o.operation = io[c].operation /\ o.todo = <<>> /\ o.seen = io[c].seen
    BY DEF isOperation
  <2> QED BY <2>1, <2>2
<1>2. ASSUME io' = onward(c)
      PROVE  /\ io'[c].operation = io[c].operation /\ io'[c].todo = Tail(io[c].todo)
             /\ io'[c].seen = io[c].seen
  <2> DEFINE o == [io[c] EXCEPT !.todo = Tail(@)]
  <2>1. io'[c] = o
    BY <1>2 DEF onward
  <2>2. o.operation = io[c].operation /\ o.todo = Tail(io[c].todo) /\ o.seen = io[c].seen
    BY DEF isOperation
  <2> QED BY <2>1, <2>2
<1>3. ASSUME NEW text, io' = onwardWith(c, text)
      PROVE  /\ io'[c].operation = io[c].operation /\ io'[c].todo = Tail(io[c].todo)
             /\ io'[c].seen = text
  <2> DEFINE o == [io[c] EXCEPT !.todo = Tail(@), !.seen = text]
  <2>1. io'[c] = o
    BY <1>3 DEF onwardWith
  <2>2. o.operation = io[c].operation /\ o.todo = Tail(io[c].todo) /\ o.seen = text
    BY DEF isOperation
  <2> QED BY <2>1, <2>2
<1>4. ASSUME NEW text, NEW maker, io' = [onwardWith(c, text) EXCEPT ![c].opened = maker]
      PROVE  /\ io'[c].operation = io[c].operation /\ io'[c].todo = Tail(io[c].todo)
             /\ io'[c].seen = text
  <2> DEFINE read == [io[c] EXCEPT !.todo = Tail(@), !.seen = text]
             o == [read EXCEPT !.opened = maker]
  <2>1. io'[c] = o
    BY <1>4 DEF onwardWith
  <2>2. /\ read.operation = io[c].operation /\ read.todo = Tail(io[c].todo) /\ read.seen = text
        /\ isOperation(read)
    BY DEF isOperation
  <2> HIDE DEF read
  <2>3. o.operation = read.operation /\ o.todo = read.todo /\ o.seen = read.seen
    BY <2>2 DEF isOperation
  <2> QED BY <2>1, <2>2, <2>3
<1>5. ASSUME NEW code, NEW left, io' = [failing(c, code) EXCEPT ![c].left = left]
      PROVE  /\ io'[c].operation = io[c].operation /\ io'[c].todo = <<>>
             /\ io'[c].seen = io[c].seen
  <2> DEFINE ended == [io[c] EXCEPT !.todo = <<>>, !.ending = IF c \in aborted THEN "thrown" ELSE code]
             o == [ended EXCEPT !.left = left]
  <2>1. io'[c] = o
    BY <1>5 DEF failing
  <2>2. /\ ended.operation = io[c].operation /\ ended.todo = <<>> /\ ended.seen = io[c].seen
        /\ isOperation(ended)
    BY DEF isOperation
  <2> HIDE DEF ended
  <2>3. o.operation = ended.operation /\ o.todo = ended.todo /\ o.seen = ended.seen
    BY <2>2 DEF isOperation
  <2> QED BY <2>1, <2>2, <2>3
<1>6. ASSUME NEW left, io' = [onward(c) EXCEPT ![c].left = left]
      PROVE  /\ io'[c].operation = io[c].operation /\ io'[c].todo = Tail(io[c].todo)
             /\ io'[c].seen = io[c].seen
  <2> DEFINE on == [io[c] EXCEPT !.todo = Tail(@)]
             o == [on EXCEPT !.left = left]
  <2>1. io'[c] = o
    BY <1>6 DEF onward
  <2>2. /\ on.operation = io[c].operation /\ on.todo = Tail(io[c].todo) /\ on.seen = io[c].seen
        /\ isOperation(on)
    BY DEF isOperation
  <2> HIDE DEF on
  <2>3. o.operation = on.operation /\ o.todo = on.todo /\ o.seen = on.seen
    BY <2>2 DEF isOperation
  <2> QED BY <2>1, <2>2, <2>3
<1> QED BY <1>1, <1>2, <1>3, <1>4, <1>5, <1>6

(* A step of the provider changes no text but the one its operation is on, *)
(* and leaves what is placed in it where it is.                            *)
LEMMA TextsStayPlaced ==
    ASSUME NEW c \in Calls, Sound(c), call[c].at = "provider", ProviderStep(c),
           DOMAIN tree = Paths, TextsPlaced, Based(c)
    PROVE  TextsPlaced'
<1>1. operation(c) # None /\ (target(c) \in Paths => isPlaced(target(c), io[c].seen))
  BY ContentIsKnown DEF Based
<1>2. \A path \in Paths : isPlaced(path, <<>>)
  BY OldTexts
<1>3. SUFFICES /\ \A path \in Paths : isPlaced(path, textAt(tree', path))
               /\ \A s \in snapshots' : s.path \in Paths => isPlaced(s.path, s.text)
  BY DEF TextsPlaced, isPlaced, found, textAt
<1>4. \A path \in Paths : isPlaced(path, textAt(tree', path))
  <2> SUFFICES ASSUME NEW path \in Paths PROVE isPlaced(path, textAt(tree', path))
    OBVIOUS
  <2>1. isPlaced(path, textAt(tree, path))
    BY DEF TextsPlaced
  <2>2. SUFFICES \/ textAt(tree', path) \in {textAt(tree, path), <<>>}
                 \/ /\ path = target(c)
                    /\ textAt(tree', path) = filled(io[c].seen, textAt(tree, path))
    BY <1>1, <1>2, <2>1, FilledText
  <2>3. CASE tree' = tree
    BY <2>3
  <2>4. CASE MakesDirectories(c)
    <3>1. CASE tree' = tree
      BY <3>1
    <3>2. CASE tree' = [p \in Paths |->
                          IF p \in parentsOf(target(c)) /\ tree[p].kind = "absent"
                          THEN directory ELSE tree[p]]
      <4>1. tree'[path] = tree[path] \/ (tree'[path] = directory)
        BY <3>2
      <4>2. directory.kind # "file"
        BY DEF directory
      <4> QED BY <4>1, <4>2 DEF textAt
    <3> QED BY <2>4, <3>1, <3>2 DEF MakesDirectories
  <2>5. CASE Opens(c)
    <3>1. CASE \E maker : tree' = [tree EXCEPT ![target(c)] = fileOf(<<>>, maker)]
      <4>1. PICK maker : tree' = [tree EXCEPT ![target(c)] = fileOf(<<>>, maker)]
        BY <3>1
      <4>2. fileOf(<<>>, maker).kind = "file" /\ fileOf(<<>>, maker).text = <<>>
        BY DEF fileOf
      <4>3. tree'[path] \in {tree[path], fileOf(<<>>, maker)}
        BY <4>1
      <4> QED BY <4>2, <4>3 DEF textAt
    <3> QED BY <2>3, <2>5, <3>1 DEF Opens
  <2>6. CASE Fills(c)
    <3>1. CASE /\ here(c).kind = "file"
               /\ tree' = [tree EXCEPT ![target(c)] =
                             fileOf(filled(io[c].seen, here(c).text), here(c).maker)]
      <4> DEFINE o == fileOf(filled(io[c].seen, here(c).text), here(c).maker)
      <4>1. o.kind = "file" /\ o.text = filled(io[c].seen, here(c).text)
        BY DEF fileOf
      <4>2. CASE path = target(c)
        <5>1. tree'[path] = o
          BY <3>1, <4>2
        <5>2. textAt(tree', path) = o.text
          BY <4>1, <5>1 DEF textAt
        <5>3. textAt(tree, path) = here(c).text
          BY <3>1, <4>2 DEF textAt, here
        <5> QED BY <4>1, <4>2, <5>2, <5>3
      <4>3. CASE path # target(c)
        BY <3>1, <4>3 DEF textAt
      <4> QED BY <4>2, <4>3
    <3> QED BY <2>3, <2>6, <3>1 DEF Fills
  <2>7. CASE Removes(c)
    <3>1. ASSUME NEW paths, tree' = removing(paths)
          PROVE  textAt(tree', path) \in {textAt(tree, path), <<>>}
      <4>1. tree'[path] = tree[path] \/ tree'[path] = absent
        BY <3>1 DEF removing
      <4>2. absent.kind # "file"
        BY DEF absent
      <4> QED BY <4>1, <4>2 DEF textAt
    <3> QED BY <2>3, <2>7, <3>1 DEF Removes
  <2> QED BY <2>3, <2>4, <2>5, <2>6, <2>7
          DEF ProviderStep, Resolves, Looks, ReadsBase, ReadsFile, ReadsSnapshot, Keeps, FillsSnapshot,
              NotPermitted, ProviderAnswers
<1>5. \A s \in snapshots' : s.path \in Paths => isPlaced(s.path, s.text)
  <2>1. CASE UNCHANGED snapshots
    BY <2>1 DEF TextsPlaced
  <2>2. ASSUME NEW text \in {<<>>, io[c].seen}, snapshots' = keeping(c, text)
        PROVE  \A s \in snapshots' : s.path \in Paths => isPlaced(s.path, s.text)
    <3> DEFINE new == [path |-> target(c), id |-> io[c].seen, text |-> text]
    <3>1. new.path = target(c) /\ new.text = text
      OBVIOUS
    <3>2. \A s \in snapshots' : s \in snapshots \/ s = new
      BY <2>2 DEF keeping
    <3>3. target(c) \in Paths => isPlaced(target(c), text)
      BY <1>1, <1>2
    <3> HIDE DEF new
    <3> QED BY <3>1, <3>2, <3>3 DEF TextsPlaced
  <2>3. CASE Keeps(c)
    BY <2>1, <2>2, <2>3 DEF Keeps
  <2>4. CASE FillsSnapshot(c)
    BY <2>1, <2>2, <2>4 DEF FillsSnapshot
  <2> QED BY <2>1, <2>3, <2>4
          DEF ProviderStep, Resolves, Looks, ReadsBase, ReadsFile, ReadsSnapshot, MakesDirectories,
              Opens, Fills, Removes, NotPermitted, ProviderAnswers
<1> QED BY <1>4, <1>5

LEMMA TreeIsOfPaths ==
    ASSUME NEW c \in Calls, ProviderStep(c), DOMAIN tree = Paths
    PROVE  DOMAIN tree' = Paths
BY DEF ProviderStep, Resolves, Looks, ReadsBase, ReadsFile, ReadsSnapshot, MakesDirectories, Opens,
       Fills, Removes, removing, Keeps, FillsSnapshot, NotPermitted, ProviderAnswers

(* A step of the provider keeps what an append rests on.                   *)
LEMMA ProviderIsBased ==
    ASSUME NEW c \in Calls, Sound(c), call[c].at = "provider", ProviderStep(c), DOMAIN io = Calls,
           DOMAIN tree = Paths, TextsPlaced, FoundOrUnexpected, Based(c), comesToNone
    PROVE  Based(c)'
<1>1. operation(c) # None /\ isOperation(io[c])
  BY ContentIsKnown
<1>2. target(c) \in Paths => isPlaced(target(c), io[c].seen)
  BY <1>1 DEF Based
<1>3. ASSUME NEW code, io' = failing(c, code) PROVE Based(c)'
  BY <1>1, <1>3, SeenForms, BasedEnds
<1>4. ASSUME NEW step, doing(c, step), io' = onward(c),
             step \notin {"readFile", "readSnapshot", "open", "readBase", "version"}
      PROVE  Based(c)'
  <2>1. io[c].todo # <<>> /\ Head(io[c].todo) = step
    BY <1>4 DEF doing
  <2>2. /\ io'[c].operation = io[c].operation /\ io'[c].todo = Tail(io[c].todo)
        /\ io'[c].seen = io[c].seen
    BY <1>1, <1>4, SeenForms
  <2> QED BY <1>1, <1>2, <1>4, <2>1, <2>2, BasedGoesOn
<1>5. ASSUME NEW text, NEW step \in {"readFile", "readSnapshot", "open"}, doing(c, step),
             \/ io' = onwardWith(c, text)
             \/ \E maker : io' = [onwardWith(c, text) EXCEPT ![c].opened = maker],
             target(c) \in Paths => isPlaced(target(c), text)
      PROVE  Based(c)'
  <2>1. io[c].todo # <<>> /\ Head(io[c].todo) = step
    BY <1>5 DEF doing
  <2>2. /\ io'[c].operation = io[c].operation /\ io'[c].todo = Tail(io[c].todo)
        /\ io'[c].seen = text
    <3>1. CASE io' = onwardWith(c, text)
      BY <1>1, <3>1, SeenForms
    <3>2. CASE \E maker : io' = [onwardWith(c, text) EXCEPT ![c].opened = maker]
      <4>1. PICK maker : io' = [onwardWith(c, text) EXCEPT ![c].opened = maker]
        BY <3>2
      <4> QED BY <1>1, <4>1, SeenForms
    <3> QED BY <1>5, <3>1, <3>2
  <2>3. step # "readBase" /\ step # "version"
    BY <1>5
  <2> QED BY <1>1, <1>5, <2>1, <2>2, <2>3, BasedGoesOn
<1>6. CASE Resolves(c)
  BY <1>3, <1>4, <1>6 DEF Resolves
<1>7. CASE \E step \in lookings : Looks(c, step)
  <2>1. PICK step \in lookings : Looks(c, step)
    BY <1>7
  <2>2. step \notin {"readFile", "readSnapshot", "open", "readBase"}
    BY DEF lookings
  <2>3. CASE io' = failing(c, obstacle(c, step))
    BY <1>3, <2>3
  <2>4. CASE obstacle(c, step) = None /\ io' = onward(c) /\ step # "version"
    BY <1>4, <2>1, <2>2, <2>4 DEF Looks
  <2>5. CASE obstacle(c, step) = None /\ io' = onward(c) /\ step = "version"
    <3>1. io[c].todo # <<>> /\ Head(io[c].todo) = "version"
      BY <2>1, <2>5 DEF Looks, doing
    <3>2. /\ io'[c].operation = io[c].operation /\ io'[c].todo = Tail(io[c].todo)
          /\ io'[c].seen = io[c].seen
      BY <1>1, <2>5, SeenForms
    <3>3. ASSUME target(c) \in Paths, contentOf(c) = <<Once>>, operation(c).action = "append"
          PROVE  textAt(tree, target(c)) = found(target(c)) /\ found(target(c)) \in Expected
      <4>1. ~hasNoOnce(<<Once>>)
        <5>1. Once \in STRING
          BY OnceAssumption
        <5>2. 1 \in DOMAIN <<Once>> /\ <<Once>>[1] = Once
          OBVIOUS
        <5> QED BY <5>2 DEF hasNoOnce
      <4>2. expectedOf(c) \in Expected \ {None}
        BY <3>3, <4>1, ContentIsKnown
      <4>3. here(c).kind = "file" /\ here(c).text = expectedOf(c)
        <5>1. obstacle(c, "version") =
                IF expectedOf(c) = None \/ (here(c).kind = "file" /\ here(c).text = expectedOf(c))
                THEN None ELSE "version_conflict"
          BY DEF obstacle
        <5>2. None # "version_conflict"
          BY RemoteCallsAssumption DEF Conflicts
        <5> QED BY <2>5, <4>2, <5>1, <5>2
      <4>4. textAt(tree, target(c)) = expectedOf(c)
        BY <4>3 DEF textAt, here
      <4> QED BY <3>3, <4>2, <4>4 DEF FoundOrUnexpected
    <3> QED BY <1>1, <1>2, <3>1, <3>2, <3>3, BasedGoesOn
  <2> QED BY <2>1, <2>3, <2>4, <2>5 DEF Looks
<1>8. CASE ReadsBase(c)
  <2>1. io[c].todo # <<>> /\ Head(io[c].todo) = "readBase"
    BY <1>8 DEF ReadsBase, doing
  <2>2. io' = onwardWith(c, textAt(tree, target(c)))
    BY <1>8 DEF ReadsBase, textAt, here
  <2>3. /\ io'[c].operation = io[c].operation /\ io'[c].todo = Tail(io[c].todo)
        /\ io'[c].seen = textAt(tree, target(c))
    BY <1>1, <2>2, SeenForms
  <2>4. target(c) \in Paths => isPlaced(target(c), textAt(tree, target(c)))
    BY DEF TextsPlaced
  <2> QED BY <1>1, <2>1, <2>3, <2>4, BasedGoesOn
<1>9. CASE ReadsFile(c)
  <2>1. CASE here(c).kind = "file"
    <3>1. target(c) \in Paths => isPlaced(target(c), here(c).text)
      <4>1. textAt(tree, target(c)) = here(c).text
        BY <2>1 DEF textAt, here
      <4> QED BY <4>1 DEF TextsPlaced
    <3>2. doing(c, "readFile") /\ io' = onwardWith(c, here(c).text)
      BY <1>9, <2>1 DEF ReadsFile
    <3> QED BY <1>5, <3>1, <3>2
  <2> QED BY <1>3, <1>9, <2>1 DEF ReadsFile
<1>10. CASE ReadsSnapshot(c)
  <2>1. CASE kept(c) # {}
    <3>1. PICK s \in kept(c) : io' = onwardWith(c, s.text)
      BY <1>10, <2>1 DEF ReadsSnapshot
    <3>2. target(c) \in Paths => isPlaced(target(c), s.text)
      BY <3>1 DEF kept, TextsPlaced
    <3>3. doing(c, "readSnapshot")
      BY <1>10 DEF ReadsSnapshot
    <3> QED BY <1>5, <3>1, <3>2, <3>3
  <2> QED BY <1>3, <1>10, <2>1 DEF ReadsSnapshot
<1>16. ASSUME NEW code, NEW left, io' = [failing(c, code) EXCEPT ![c].left = left] PROVE Based(c)'
  BY <1>1, <1>16, SeenForms, BasedEnds
<1>11. CASE MakesDirectories(c)
  <2>1. CASE io' = failing(c, "provider_error")
    BY <1>3, <2>1
  <2>2. ASSUME NEW left, io' = [onward(c) EXCEPT ![c].left = left] PROVE Based(c)'
    <3>1. io[c].todo # <<>> /\ Head(io[c].todo) = "mkdir"
      BY <1>11 DEF MakesDirectories, doing
    <3>2. /\ io'[c].operation = io[c].operation /\ io'[c].todo = Tail(io[c].todo)
          /\ io'[c].seen = io[c].seen
      BY <1>1, <2>2, SeenForms
    <3> QED BY <1>1, <1>2, <3>1, <3>2, BasedGoesOn
  <2>3. \/ io' = failing(c, "provider_error")
        \/ io' = [onward(c) EXCEPT ![c].left = IF hasParent(target(c)) THEN @ ELSE "directories"]
    BY <1>11, ZenonT(30) DEF MakesDirectories
  <2> QED BY <2>1, <2>2, <2>3
<1>12. CASE Opens(c)
  <2>1. CASE \E code : io' = failing(c, code)
    BY <1>3, <2>1
  <2>2. CASE \E maker : io' = [onwardWith(c, writes(c)) EXCEPT ![c].opened = maker]
    <3>1. doing(c, "open")
      BY <1>12 DEF Opens
    <3>2. target(c) \in Paths => isPlaced(target(c), writes(c))
      BY <3>1, WritesArePlaced
    <3> QED BY <1>5, <2>2, <3>1, <3>2
  <2> QED BY <1>12, <2>1, <2>2 DEF Opens
<1>13. CASE Fills(c) \/ Removes(c) \/ Keeps(c) \/ FillsSnapshot(c)
  BY <1>3, <1>4, <1>13, <1>16 DEF Fills, Removes, Keeps, FillsSnapshot
<1>14. CASE NotPermitted(c)
  BY <1>3, <1>14, <1>16 DEF NotPermitted
<1>15. CASE ProviderAnswers(c)
  <2> DEFINE o == [io[c] EXCEPT !.ending = IF c \in aborted THEN "thrown" ELSE "done"]
  <2>1. io'[c] = o /\ io[c].todo = <<>>
    BY <1>15 DEF ProviderAnswers
  <2>2. o.operation = io[c].operation /\ o.todo = io[c].todo /\ o.seen = io[c].seen
    BY <1>1 DEF isOperation
  <2> HIDE DEF o
  <2> QED BY <2>1, <2>2, BasedEnds
<1> QED BY <1>6, <1>7, <1>8, <1>9, <1>10, <1>11, <1>12, <1>13, <1>14, <1>15 DEF ProviderStep

LEMMA AInvInit == ASSUME Init PROVE AInv
<1>1. tree = Seed /\ snapshots = {} /\ io = [c \in Calls |-> notAsked] /\ DOMAIN Seed = Paths
  BY FileProviderAssumption DEF Init, ProviderInit
<1>2. \A path \in Paths : textAt(tree, path) = found(path)
  BY <1>1 DEF found
<1>3. TextsPlaced /\ FoundOrUnexpected
  BY <1>1, <1>2, OldTexts DEF TextsPlaced, FoundOrUnexpected
<1>4. \A c \in Calls : Based(c)
  BY <1>1 DEF Based, operation, notAsked
<1> QED BY <1>1, <1>3, <1>4 DEF AInv

(* An append asked of the provider has all of it ahead.                    *)
LEMMA AskedIsBased ==
    ASSUME NEW c \in Calls, DOMAIN io = Calls, NEW asked, ProviderAsked(c, asked)
    PROVE  Based(c)' /\ \A d \in Calls \ {c} : io'[d] = io[d]
<1> DEFINE o == [operation |-> asked, todo |-> planOf(asked.action), seen |-> <<>>,
                 opened |-> None, left |-> None, ending |-> IF c \in aborted THEN "thrown" ELSE None]
<1>1. io'[c] = o /\ \A d \in Calls \ {c} : io'[d] = io[d]
  BY DEF ProviderAsked
<1>2. o.operation = asked /\ o.todo = planOf(asked.action) /\ o.seen = <<>>
  OBVIOUS
<1> HIDE DEF o
<1>3. operation(c)' = asked /\ target(c)' = asked.path
  BY <1>1, <1>2 DEF operation, target
<1>4. asked.path \in Paths => isPlaced(asked.path, <<>>)
  BY OldTexts
<1>5. isPlaced(target(c), io[c].seen)' <=> isPlaced(asked.path, <<>>)
  BY <1>1, <1>2, <1>3 DEF isPlaced, found, textAt
<1>6. asked.action = "append" =>
        io'[c].todo \in appendTodos /\ io'[c].todo \notin baseRead /\ io'[c].todo \notin versionSeen
  BY <1>1, <1>2, AppendsBegin
<1>7. Based(c)'
  BY <1>3, <1>4, <1>5, <1>6 DEF Based
<1> QED BY <1>1, <1>7

LEMMA AInvStep == ASSUME RInv, AInv, [Next]_vars PROVE AInv'
<1>1. DOMAIN io = Calls /\ \A c \in Calls : Sound(c)
  BY DEF RInv, Domains
<1>2. CASE UNCHANGED <<tree, snapshots, io, cameTo>>
  <2>1. comesToNone
    BY <1>2 DEF comesToNone
  <2>2. \A c \in Calls : Based(c) => Based(c)'
    BY <1>2, <2>1, BasedStays
  <2>3. TextsPlaced' <=> TextsPlaced
    BY <1>2 DEF TextsPlaced, isPlaced, found, textAt
  <2>4. FoundOrUnexpected' <=> FoundOrUnexpected
    BY <1>2 DEF FoundOrUnexpected, found, textAt
  <2> QED BY <1>2, <2>2, <2>3, <2>4 DEF AInv
<1>3. ASSUME NEW c \in Calls, Allows(c), ~ UNCHANGED <<tree, snapshots, io, cameTo>> PROVE AInv'
  <2>1. UNCHANGED <<tree, snapshots, cameTo>> /\ \E asked : ProviderAsked(c, asked)
    BY <1>3 DEF Allows
  <2>2. comesToNone
    BY <2>1 DEF comesToNone
  <2>3. Based(c)' /\ \A d \in Calls \ {c} : Based(d) => Based(d)'
    BY <1>1, <2>1, <2>2, AskedIsBased, BasedStays
  <2>4. TextsPlaced' <=> TextsPlaced
    BY <2>1 DEF TextsPlaced, isPlaced, found, textAt
  <2>5. FoundOrUnexpected' <=> FoundOrUnexpected
    BY <2>1 DEF FoundOrUnexpected, found, textAt
  <2> QED BY <2>1, <2>3, <2>4, <2>5 DEF AInv
<1>4. ASSUME NEW c \in Calls, Provides(c) PROVE AInv'
  <2>1. /\ call[c].at = "provider" /\ ProviderStep(c) /\ UNCHANGED <<call, prepared, told>>
        /\ ~cameTo' => ~cameTo /\ comesToNone
    BY <1>4 DEF Provides, comesToNone
  <2>2. DOMAIN tree' = Paths
    BY <2>1, TreeIsOfPaths DEF AInv
  <2>3. SUFFICES ASSUME ~cameTo'
                 PROVE  TextsPlaced' /\ FoundOrUnexpected' /\ \A d \in Calls : Based(d)'
    BY <2>2 DEF AInv
  <2>4. /\ DOMAIN tree = Paths /\ TextsPlaced /\ FoundOrUnexpected /\ comesToNone
        /\ \A d \in Calls : Based(d)
    BY <2>1, <2>3 DEF AInv
  <2>5. TextsPlaced'
    BY <1>1, <2>1, <2>4, TextsStayPlaced
  <2>6. FoundOrUnexpected'
    BY <2>4 DEF FoundOrUnexpected, comesToNone, found, textAt
  <2>7. Based(c)'
    BY <1>1, <2>1, <2>4, ProviderIsBased
  <2>8. ASSUME NEW d \in Calls \ {c} PROVE Based(d)'
    <3>1. io'[d] = io[d]
      BY <1>1, <2>1, ProviderIsAlone DEF IsAlone
    <3> QED BY <2>4, <3>1, BasedStays
  <2> QED BY <2>5, <2>6, <2>7, <2>8
<1>5. ASSUME NEW c \in Calls, Step(c) PROVE AInv'
  <2>1. CASE Allows(c)
    BY <1>2, <1>3, <2>1
  <2>2. CASE Provides(c)
    BY <1>4, <2>2
  <2>3. CASE ~Allows(c) /\ ~Provides(c)
    <3>1. UNCHANGED <<tree, snapshots, io, cameTo>>
      <4>1. CASE (\E asked \in Requests : Sends(c, asked)) \/ LosesConnection(c) \/ Hears(c)
                 \/ Disconnects(c)
        BY <4>1 DEF Sends, LosesConnection, Hears, Disconnects, providerVars
      <4>2. CASE Routed(c) \/ NotFound(c) \/ NotResolved(c) \/ Refuses(c)
        BY <4>2 DEF Routed, NotFound, NotResolved, Refuses, providerVars
      <4>3. CASE Prepares(c)
        BY <4>3 DEF Prepares, providerVars
      <4>4. CASE Reads(c) \/ KernelAnswers(c) \/ Replied(c)
        BY <4>4 DEF Reads, KernelAnswers, Replied, providerVars
      <4>5. CASE Lists(c)
        BY <4>5 DEF Lists, providerVars
      <4>6. CASE Delivers(c) \/ RepoAnswers(c) \/ PatchesNamespaces(c)
        BY <4>6 DEF Delivers, RepoAnswers, PatchesNamespaces
      <4> QED BY <1>5, <2>3, <4>1, <4>2, <4>3, <4>4, <4>5, <4>6 DEF Step
    <3> QED BY <1>2, <3>1
  <2> QED BY <2>1, <2>2, <2>3
<1>6. CASE UNCHANGED vars
  BY <1>2, <1>6 DEF vars, providerVars
<1> QED BY <1>5, <1>6 DEF Next

(* A call made again does not append again: where what it appends stands   *)
(* in a file at all, it stands right after the text the version it was     *)
(* made under is of, however many calls append it and whatever else is     *)
(* written in between (#append, #assertVersion).                           *)
THEOREM AppendsAreOnce == Spec => []AppendedOnce
<1>1. Init => RInv /\ AInv
  BY RInvInit, AInvInit
<1>2. RInv /\ AInv /\ [Next]_vars => (RInv /\ AInv)'
  BY RInvStep, AInvStep
<1>3. AInv => AppendedOnce
  <2> SUFFICES ASSUME AInv, ~cameTo, NEW path \in Paths,
                      NEW i \in DOMAIN textAt(tree, path), NEW j \in DOMAIN textAt(tree, path),
                      textAt(tree, path)[i] = Once, textAt(tree, path)[j] = Once
               PROVE  i = j
    BY DEF AppendedOnce
  <2>1. isPlaced(path, textAt(tree, path))
    BY DEF AInv, TextsPlaced
  <2>2. DOMAIN textAt(tree, path) = 1..Len(textAt(tree, path))
    BY <2>1 DEF isPlaced
  <2> QED BY <2>1, <2>2 DEF isPlaced
<1> QED BY <1>1, <1>2, <1>3, PTL DEF Spec

=============================================================================
