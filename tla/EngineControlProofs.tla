------------------------ MODULE EngineControlProofs ------------------------
(***************************************************************************)
(* What holds of the engine for every set of positions, backends and       *)
(* policies: the types, that a search works on what was asked for and has  *)
(* a backend, that nothing is changed under a search that runs, and that   *)
(* every answer was asked for.  The argument is about the calls that the   *)
(* current command has still to make.                                      *)
(***************************************************************************)
EXTENDS EngineControl, Integers, SequenceTheorems, TLAPS

CallName == {"clear", "abort", "wait", "stop", "update", "position", "drop",
             "reset", "record", "hit", "construct", "start"}

(* The calls that change the setup of a search, or what it is asked for. *)
Exclusive == CallName \ {"clear", "abort", "wait", "stop"}

Has(s, call) == \E i \in 1..Len(s) : s[i] = call

(* The search is waited for before anything is changed under it. *)
WaitFirst(s) ==
  \A i \in 1..Len(s) : s[i] \in Exclusive => \E j \in 1..(i - 1) : s[j] = "wait"

(* A search is started last; the tree is dropped and the position set before *)
(* the tree is reset and the parameters are recorded, and the backend        *)
(* updated before the position is set.                                       *)
Shape(s) ==
  /\ \A i \in 1..Len(s) : s[i] = "start" => i = Len(s)
  /\ \A i, j \in 1..Len(s) :
       s[i] \in {"position", "drop"} /\ s[j] \in {"reset", "record", "start"} => i < j
  /\ Has(s, "reset") \/ Has(s, "record") \/ Has(s, "hit") => Has(s, "start")
  /\ Has(s, "start") /\ (Has(s, "position") \/ Has(s, "drop")) => Has(s, "reset")
  /\ \A i, j \in 1..Len(s) : s[i] = "update" /\ s[j] = "position" => i < j

(* Which command makes a call. *)
CallsOf ==
  /\ command = "none" => script = << >>
  /\ command = "position" => arg \in Position
  /\ command = "go" => arg \in Modes
  /\ Has(script, "stop") => command = "stop"
  /\ Has(script, "start") => command \in {"go", "ponderhit"}
  /\ Has(script, "hit") => command = "ponderhit"
  /\ Has(script, "record") => command = "go"
  /\ Has(script, "position") => command \in {"position", "ucinewgame", "go"}

(* While a thread of a search may run nothing is changed under it. *)
Quiesced ==
  /\ outcome = "open" => live
  /\ live => WaitFirst(script)
  /\ live /\ command \in {"position", "ucinewgame"} => Has(script, "wait")
  /\ live /\ begun => command \in {"position", "ucinewgame"}
  /\ live => command # "go" \/ ~Has(script, "start")
  /\ live \/ lastGo # "none" => lastPos # NoPosition
  /\ Has(script, "start") /\ ~Has(script, "position") => lastPos # NoPosition

(* What the GUI expects of a search that is open, or about to be started. *)
Expected ==
  /\ outcome = "open" => gui \in {"thinking", "due", "closed"}
  /\ outcome = "open" /\ mayAnswer => gui \in {"due", "closed"} \/ lastGo = "normal"
  /\ outcome = "open" /\ command = "stop" => gui \in {"due", "closed"}
  /\ Has(script, "start") => gui = "thinking" /\ ~begun
  /\ live /\ Has(script, "start") => lastGo = "ponder"
  /\ begun /\ gui = "thinking" => command \in {"position", "ucinewgame"}

(* The mode of the search that the command is to start. *)
Asked == IF command = "go" THEN arg ELSE "normal"
TreeFor(t, pos, mode) ==
  t.pos = pos /\ t.trimmed = (mode = "ponder" /\ pos # Startpos)

(* The tree is that of the search which is open, or which is about to start. *)
TreeAgrees ==
  /\ outcome = "open" => TreeFor(tree, lastPos, lastGo)
  /\ Has(script, "start") /\ ~Has(script, "reset") => TreeFor(tree, lastPos, Asked)
  /\ Has(script, "start") /\ ~Has(script, "record") /\ ~Has(script, "hit") =>
       lastGo = Asked

(* There is a backend once a position was set, and while one is about to be set. *)
HasBackend ==
  /\ lastPos # NoPosition => backend.name # NoBackend
  /\ Has(script, "position") /\ ~Has(script, "update") => backend.name # NoBackend

IInv == /\ TypeOK /\ Shape(script) /\ CallsOf /\ Quiesced /\ Expected /\ TreeAgrees
        /\ HasBackend

-----------------------------------------------------------------------------
(* A script that is over makes no call. *)
LEMMA NoMoreCalls ==
  Shape(<< >>) /\ WaitFirst(<< >>) /\ \A x : ~Has(<< >>, x)
BY EmptySeq DEF Shape, WaitFirst, Has

(* A call is made, and the others remain in their order. *)
IsFirst(name, rest) ==
  /\ rest \in Seq(CallName) /\ Shape(rest) /\ Has(script, name)
  /\ \A x : Has(rest, x) => Has(script, x)
  /\ \A x : Has(script, x) /\ x # name => Has(rest, x)
  /\ WaitFirst(script) => name \notin Exclusive
  /\ WaitFirst(script) /\ name # "wait" => WaitFirst(rest)
  /\ name = "start" => rest = << >>
  /\ name \in {"reset", "record", "start"} =>
       ~Has(script, "position") /\ ~Has(script, "drop")
  /\ name = "position" => ~Has(script, "update")

LEMMA CallGoesOn ==
  ASSUME TypeOK, Shape(script), NEW name, Call(name)
  PROVE  IsFirst(name, Tail(script))
<1>. DEFINE rest == Tail(script)
<1>1. script \in Seq(CallName) /\ script # << >> /\ script[1] = name
  BY DEF TypeOK, Call, CallName
<1>2. /\ Len(script) \in Nat \ {0}
      /\ rest \in Seq(CallName)
      /\ Len(rest) = Len(script) - 1
      /\ \A i \in 1..Len(rest) : rest[i] = script[i + 1]
  BY <1>1, EmptySeq, HeadTailProperties
<1>. HIDE DEF rest
<1>3. Has(script, name)
  BY <1>1, <1>2 DEF Has
<1>4. \A x : Has(rest, x) => Has(script, x)
  BY <1>2 DEF Has
<1>5. ASSUME NEW x, Has(script, x), x # name
      PROVE  Has(rest, x)
  <2>1. PICK i \in 1..Len(script) : script[i] = x
    BY <1>5 DEF Has
  <2>2. i - 1 \in 1..Len(rest) /\ rest[i - 1] = x
    BY <1>1, <1>2, <1>5, <2>1
  <2>. QED
    BY <2>2 DEF Has
<1>6. Shape(rest)
  <2>1. \A i \in 1..Len(rest) : rest[i] = "start" => i = Len(rest)
    BY <1>2 DEF Shape
  <2>2. \A i, j \in 1..Len(rest) :
          rest[i] \in {"position", "drop"} /\ rest[j] \in {"reset", "record", "start"}
            => i < j
    BY <1>2 DEF Shape
  <2>3. Has(rest, "reset") \/ Has(rest, "record") \/ Has(rest, "hit") => Has(rest, "start")
    <3>1. SUFFICES ASSUME Has(rest, "reset") \/ Has(rest, "record") \/ Has(rest, "hit")
                   PROVE  Has(rest, "start")
      OBVIOUS
    <3>2. Has(script, "start") /\ Len(rest) > 0
      BY <1>2, <1>4, <3>1 DEF Shape, Has
    <3>3. name # "start"
      BY <1>1, <1>2, <3>2 DEF Shape
    <3>. QED
      BY <1>5, <3>2, <3>3
  <2>4. Has(rest, "start") /\ (Has(rest, "position") \/ Has(rest, "drop"))
          => Has(rest, "reset")
    <3>1. SUFFICES ASSUME Has(rest, "start"), Has(rest, "position") \/ Has(rest, "drop")
                   PROVE  Has(rest, "reset")
      OBVIOUS
    <3>2. Has(script, "reset")
      BY <1>4, <3>1 DEF Shape
    <3>3. PICK i \in 1..Len(rest) : rest[i] \in {"position", "drop"}
      BY <3>1 DEF Has
    <3>4. name # "reset"
      <4>1. i + 1 \in 1..Len(script) /\ script[i + 1] \in {"position", "drop"}
        BY <1>2, <3>3
      <4>. QED
        BY <1>1, <1>2, <4>1 DEF Shape
    <3>. QED
      BY <1>5, <3>2, <3>4
  <2>5. \A i, j \in 1..Len(rest) : rest[i] = "update" /\ rest[j] = "position" => i < j
    BY <1>2 DEF Shape
  <2>. QED
    BY <2>1, <2>2, <2>3, <2>4, <2>5 DEF Shape
<1>7. ASSUME WaitFirst(script)
      PROVE  name \notin Exclusive
  BY <1>1, <1>2, <1>7 DEF WaitFirst
<1>8. ASSUME WaitFirst(script), name # "wait"
      PROVE  WaitFirst(rest)
  <2>1. SUFFICES ASSUME NEW i \in 1..Len(rest), rest[i] \in Exclusive
                 PROVE  \E j \in 1..(i - 1) : rest[j] = "wait"
    BY DEF WaitFirst
  <2>2. i + 1 \in 1..Len(script) /\ script[i + 1] \in Exclusive
    BY <1>2, <2>1
  <2>3. PICK j \in 1..i : script[j] = "wait"
    BY <1>8, <2>2 DEF WaitFirst
  <2>4. j - 1 \in 1..(i - 1) /\ rest[j - 1] = "wait"
    BY <1>1, <1>2, <1>8, <2>1, <2>3, SMTT(30)
  <2>. QED
    BY <2>4
<1>9. ASSUME name = "start"
      PROVE  rest = << >>
  <2>1. Len(rest) = 0
    BY <1>1, <1>2, <1>9 DEF Shape
  <2>. QED
    BY <1>2, <2>1, EmptySeq
<1>10. ASSUME name \in {"reset", "record", "start"}
       PROVE  ~Has(script, "position") /\ ~Has(script, "drop")
  BY <1>1, <1>2, <1>10 DEF Shape, Has
<1>11. ASSUME name = "position"
       PROVE  ~Has(script, "update")
  BY <1>1, <1>2, <1>11 DEF Shape, Has
<1>. QED
  BY <1>2, <1>3, <1>4, <1>5, <1>6, <1>7, <1>8, <1>9, <1>10, <1>11 DEF rest, IsFirst
-----------------------------------------------------------------------------
(* The scripts of the commands, call by call. *)
LEMMA ShortScripts ==
  /\ StopAndWait \in Seq(CallName) /\ DestroySearch \in Seq(CallName)
  /\ <<"wait">> \in Seq(CallName) /\ <<"stop">> \in Seq(CallName)
  /\ \A s \in {StopAndWait, DestroySearch, <<"wait">>, <<"stop">>} :
       /\ Shape(s) /\ WaitFirst(s)
       /\ \A x : Has(s, x) => x \in {"abort", "wait", "stop"}
  /\ ~Has(StopAndWait, "stop") /\ ~Has(<<"wait">>, "stop")
BY DEF StopAndWait, DestroySearch, CallName, Shape, WaitFirst, Has, Exclusive

LEMMA PositionScript ==
  /\ SetPositionCalls \in Seq(CallName) /\ Len(SetPositionCalls) = 4
  /\ SetPositionCalls[1] = "abort"  /\ SetPositionCalls[2] = "wait"
  /\ SetPositionCalls[3] = "update" /\ SetPositionCalls[4] = "position"
<1>1. StopAndWait \in Seq(CallName) /\ <<"update", "position">> \in Seq(CallName)
  BY DEF StopAndWait, CallName
<1>. QED
  BY <1>1, ConcatProperties DEF SetPositionCalls, StopAndWait

(* The calls of one script, and then those of another. *)
Follows(whole, s, t) ==
  /\ whole \in Seq(CallName)
  /\ Len(whole) = Len(s) + Len(t)
  /\ \A i \in 1..Len(s) : whole[i] = s[i]
  /\ \A i \in 1..Len(t) : whole[Len(s) + i] = t[i]

LEMMA OneAfterTheOther ==
  ASSUME NEW s \in Seq(CallName), NEW t \in Seq(CallName)
  PROVE  Follows(s \o t, s, t)
BY ConcatProperties DEF Follows

LEMMA NewGameScript ==
  /\ NewGameCalls \in Seq(CallName) /\ Len(NewGameCalls) = 8
  /\ NewGameCalls[1] = "clear"  /\ NewGameCalls[2] = "abort"
  /\ NewGameCalls[3] = "wait"   /\ NewGameCalls[4] = "drop"
  /\ NewGameCalls[5] = "abort"  /\ NewGameCalls[6] = "wait"
  /\ NewGameCalls[7] = "update" /\ NewGameCalls[8] = "position"
<1>. DEFINE s == <<"clear">> \o DestroySearch
            t == s \o <<"drop">>
<1>1. <<"clear">> \in Seq(CallName) /\ <<"drop">> \in Seq(CallName)
  BY DEF CallName
<1>2. DestroySearch \in Seq(CallName) /\ DestroySearch = <<"abort", "wait">>
  BY DEF DestroySearch, CallName
<1>3. s \in Seq(CallName) /\ Len(s) = 3 /\ s[1] = "clear" /\ s[2] = "abort" /\ s[3] = "wait"
  BY <1>1, <1>2, ConcatProperties
<1>4. Follows(t, s, <<"drop">>)
  BY <1>1, <1>3, OneAfterTheOther
<1>. HIDE DEF s
<1>5. /\ t \in Seq(CallName) /\ Len(t) = 4
      /\ t[1] = "clear" /\ t[2] = "abort" /\ t[3] = "wait" /\ t[4] = "drop"
  <2>. HIDE DEF t
  <2>. QED
    BY <1>3, <1>4 DEF Follows
<1>6. Follows(NewGameCalls, t, SetPositionCalls)
  <2>1. NewGameCalls = t \o SetPositionCalls
    BY DEF NewGameCalls, s
  <2>2. t \in Seq(CallName) /\ SetPositionCalls \in Seq(CallName)
    BY <1>5, PositionScript
  <2>. HIDE DEF t
  <2>. QED
    BY <2>1, <2>2, OneAfterTheOther
<1>. HIDE DEF t
<1>. QED
  BY <1>5, <1>6, PositionScript DEF Follows

LEMMA StartScript ==
  /\ StartCalls \in Seq(CallName) /\ Len(StartCalls) = 4
  /\ StartCalls[1] = "construct" /\ StartCalls[2] = "abort"
  /\ StartCalls[3] = "wait"      /\ StartCalls[4] = "start"
<1>. DEFINE s == <<"construct">> \o DestroySearch
<1>1. <<"construct">> \in Seq(CallName) /\ <<"start">> \in Seq(CallName)
  BY DEF CallName
<1>2. DestroySearch \in Seq(CallName) /\ DestroySearch = <<"abort", "wait">>
  BY DEF DestroySearch, CallName
<1>3. /\ s \in Seq(CallName) /\ Len(s) = 3
      /\ s[1] = "construct" /\ s[2] = "abort" /\ s[3] = "wait"
  BY <1>1, <1>2, ConcatProperties
<1>4. Follows(StartCalls, s, <<"start">>)
  BY <1>1, <1>3, OneAfterTheOther DEF StartCalls
<1>. HIDE DEF s
<1>. QED
  BY <1>3, <1>4 DEF Follows

(* What the commands that change the setup call, and in which order. *)
LEMMA PositionIsOrdered ==
  /\ Shape(SetPositionCalls) /\ WaitFirst(SetPositionCalls)
  /\ Has(SetPositionCalls, "wait") /\ Has(SetPositionCalls, "update")
  /\ \A x : Has(SetPositionCalls, x) => x \in {"abort", "wait", "update", "position"}
BY PositionScript DEF Shape, WaitFirst, Has, Exclusive, CallName

LEMMA NewGameIsOrdered ==
  /\ Shape(NewGameCalls) /\ WaitFirst(NewGameCalls)
  /\ Has(NewGameCalls, "wait") /\ Has(NewGameCalls, "update")
  /\ \A x : Has(NewGameCalls, x) =>
       x \in {"clear", "abort", "wait", "drop", "update", "position"}
BY NewGameScript DEF Shape, WaitFirst, Has, Exclusive, CallName

(* The calls of "go" after a position, of "go" without one, and of "ponderhit". *)
LEMMA GoScript ==
  ASSUME lastPos # NoPosition
  PROVE  /\ GoCalls \in Seq(CallName) /\ Len(GoCalls) = 6
         /\ GoCalls[1] = "reset"     /\ GoCalls[2] = "record"
         /\ GoCalls[3] = "construct" /\ GoCalls[4] = "abort"
         /\ GoCalls[5] = "wait"      /\ GoCalls[6] = "start"
<1>. DEFINE s == << >> \o <<"reset", "record">>
<1>1. s \in Seq(CallName) /\ Len(s) = 2 /\ s[1] = "reset" /\ s[2] = "record"
  <2>1. <<"reset", "record">> \in Seq(CallName)
    BY DEF CallName
  <2>. QED
    BY <2>1, ConcatEmptySeq
<1>2. GoCalls = s \o StartCalls
  BY DEF GoCalls
<1>. HIDE DEF s
<1>3. Follows(GoCalls, s, StartCalls)
  BY <1>1, <1>2, StartScript, OneAfterTheOther
<1>. QED
  BY <1>1, <1>3, StartScript DEF Follows

LEMMA FirstGoScript ==
  ASSUME lastPos = NoPosition
  PROVE  /\ GoCalls \in Seq(CallName) /\ Len(GoCalls) = 14
         /\ \A i \in 1..8 : GoCalls[i] = NewGameCalls[i]
         /\ GoCalls[9] = "reset"      /\ GoCalls[10] = "record"
         /\ GoCalls[11] = "construct" /\ GoCalls[12] = "abort"
         /\ GoCalls[13] = "wait"      /\ GoCalls[14] = "start"
<1>. DEFINE r == <<"reset", "record">>
            s == NewGameCalls \o r
<1>1. r \in Seq(CallName) /\ Len(r) = 2 /\ r[1] = "reset" /\ r[2] = "record"
  BY DEF CallName
<1>2. GoCalls = s \o StartCalls
  BY DEF GoCalls
<1>. HIDE DEF r
<1>3. Follows(s, NewGameCalls, r)
  BY <1>1, NewGameScript, OneAfterTheOther
<1>. HIDE DEF s
<1>4. /\ s \in Seq(CallName) /\ Len(s) = 10
      /\ \A i \in 1..8 : s[i] = NewGameCalls[i]
      /\ s[9] = "reset" /\ s[10] = "record"
  BY <1>1, <1>3, NewGameScript DEF Follows
<1>5. Follows(GoCalls, s, StartCalls)
  BY <1>2, <1>4, StartScript, OneAfterTheOther
<1>. QED
  BY <1>4, <1>5, StartScript DEF Follows

LEMMA PonderHitScript ==
  /\ PonderHitCalls \in Seq(CallName) /\ Len(PonderHitCalls) = 8
  /\ PonderHitCalls[1] = "abort"     /\ PonderHitCalls[2] = "wait"
  /\ PonderHitCalls[3] = "hit"       /\ PonderHitCalls[4] = "reset"
  /\ PonderHitCalls[5] = "construct" /\ PonderHitCalls[6] = "abort"
  /\ PonderHitCalls[7] = "wait"      /\ PonderHitCalls[8] = "start"
<1>. DEFINE r == <<"hit", "reset">>
            s == StopAndWait \o r
<1>1. r \in Seq(CallName) /\ Len(r) = 2 /\ r[1] = "hit" /\ r[2] = "reset"
  BY DEF CallName
<1>2. /\ StopAndWait \in Seq(CallName) /\ Len(StopAndWait) = 2
      /\ StopAndWait[1] = "abort" /\ StopAndWait[2] = "wait"
  BY DEF StopAndWait, CallName
<1>3. PonderHitCalls = s \o StartCalls
  BY DEF PonderHitCalls
<1>. HIDE DEF r
<1>4. Follows(s, StopAndWait, r)
  BY <1>1, <1>2, OneAfterTheOther
<1>. HIDE DEF s
<1>5. /\ s \in Seq(CallName) /\ Len(s) = 4
      /\ s[1] = "abort" /\ s[2] = "wait" /\ s[3] = "hit" /\ s[4] = "reset"
  BY <1>1, <1>2, <1>4 DEF Follows
<1>6. Follows(PonderHitCalls, s, StartCalls)
  BY <1>3, <1>5, StartScript, OneAfterTheOther
<1>. QED
  BY <1>5, <1>6, StartScript DEF Follows

(* "go" resets the tree, records its parameters and starts a search last; only *)
(* the first waits by itself.  "ponderhit" waits, and changes the parameters.  *)
LEMMA GoIsOrdered ==
  /\ Shape(GoCalls)
  /\ Has(GoCalls, "reset") /\ Has(GoCalls, "record") /\ Has(GoCalls, "start")
  /\ ~Has(GoCalls, "hit") /\ ~Has(GoCalls, "stop")
  /\ Has(GoCalls, "position") <=> lastPos = NoPosition
  /\ Has(GoCalls, "position") => Has(GoCalls, "update")
<1>1. CASE lastPos # NoPosition
  <2>1. /\ Len(GoCalls) = 6 /\ GoCalls[1] = "reset" /\ GoCalls[2] = "record"
        /\ GoCalls[3] = "construct" /\ GoCalls[4] = "abort"
        /\ GoCalls[5] = "wait"      /\ GoCalls[6] = "start"
    BY <1>1, GoScript
  <2>2. Shape(GoCalls)
    BY <2>1 DEF Shape, Has
  <2>. QED
    BY <1>1, <2>1, <2>2 DEF Has
<1>2. CASE lastPos = NoPosition
  <2>1. /\ Len(GoCalls) = 14
        /\ GoCalls[1] = "clear"  /\ GoCalls[2] = "abort" /\ GoCalls[3] = "wait"
        /\ GoCalls[4] = "drop"   /\ GoCalls[5] = "abort" /\ GoCalls[6] = "wait"
        /\ GoCalls[7] = "update" /\ GoCalls[8] = "position"
        /\ GoCalls[9] = "reset"  /\ GoCalls[10] = "record"
        /\ GoCalls[11] = "construct" /\ GoCalls[12] = "abort"
        /\ GoCalls[13] = "wait"      /\ GoCalls[14] = "start"
    BY <1>2, FirstGoScript, NewGameScript
  <2>2. Shape(GoCalls)
    BY <2>1 DEF Shape, Has
  <2>. QED
    BY <1>2, <2>1, <2>2 DEF Has
<1>. QED
  BY <1>1, <1>2

LEMMA PonderHitIsOrdered ==
  /\ Shape(PonderHitCalls) /\ WaitFirst(PonderHitCalls)
  /\ Has(PonderHitCalls, "hit") /\ Has(PonderHitCalls, "reset")
  /\ Has(PonderHitCalls, "start")
  /\ ~Has(PonderHitCalls, "stop") /\ ~Has(PonderHitCalls, "record")
  /\ ~Has(PonderHitCalls, "position")
BY PonderHitScript DEF Shape, WaitFirst, Has, Exclusive, CallName

-----------------------------------------------------------------------------
LEMMA InitIInv == Init => IInv
<1>. SUFFICES ASSUME Init PROVE IInv
  OBVIOUS
<1>. USE EngineAssumption, NoMoreCalls, EmptySeq DEF Init
<1>1. TypeOK
  <2>1. backend \in [name : Backend \cup {NoBackend}, policy : Policy, fresh : BOOLEAN]
    OBVIOUS
  <2>. QED
    BY <2>1 DEF TypeOK, Options
<1>2. CallsOf /\ Quiesced /\ Expected /\ TreeAgrees /\ HasBackend /\ Shape(script)
  BY DEF CallsOf, Quiesced, Expected, TreeAgrees, HasBackend
<1>. QED
  BY <1>1, <1>2 DEF IInv

(* A command begins: none was executed before. *)
LEMMA CommandSteps ==
  ASSUME IInv, Command
  PROVE  IInv'
<1>. USE EngineAssumption, NoMoreCalls
     DEF IInv, CallsOf, Quiesced, Expected, TreeAgrees, HasBackend, TypeOK, Begin,
         Modes, Options,
         Asked, uci, network, engine, search, history
<1>1. CASE SetOption
  BY <1>1 DEF SetOption
<1>2. CASE SetPosition
  BY <1>2, PositionIsOrdered, PositionScript DEF SetPosition, CallName
<1>3. CASE NewGame
  BY <1>3, NewGameIsOrdered, NewGameScript DEF NewGame, CallName
<1>4. CASE Go
  <2>1. GoCalls \in Seq(CallName)
    BY GoScript, FirstGoScript
  <2>2. TypeOK'
    BY <1>4, <2>1, ZenonT(40) DEF Go, CallName
  <2>3. outcome # "open" /\ ~live
    BY <1>4 DEF Go
  <2>4. Shape(script)' /\ CallsOf'
    BY <1>4, GoIsOrdered DEF Go
  <2>5. Quiesced' /\ Expected'
    BY <1>4, <2>3, GoIsOrdered DEF Go
  <2>6. TreeAgrees' /\ HasBackend'
    BY <1>4, <2>3, GoIsOrdered DEF Go
  <2>. QED
    BY <2>2, <2>4, <2>5, <2>6
<1>5. CASE PonderHit
  BY <1>5, PonderHitIsOrdered, PonderHitScript DEF PonderHit, CallName
<1>6. CASE Wait
  BY <1>6, ShortScripts, SMTT(30) DEF Wait, CallName
<1>7. CASE Stop
  BY <1>7, ShortScripts DEF Stop, CallName
<1>8. CASE Quit
  <2>1. /\ StopAndWait \in Seq(CallName) /\ Shape(StopAndWait) /\ WaitFirst(StopAndWait)
        /\ ~Has(StopAndWait, "stop")
        /\ \A x : Has(StopAndWait, x) => x \in {"abort", "wait", "stop"}
    BY ShortScripts
  <2>. HIDE DEF StopAndWait
  <2>. QED
    BY <1>8, <2>1 DEF Quit, CallName
<1>. QED
  BY <1>1, <1>2, <1>3, <1>4, <1>5, <1>6, <1>7, <1>8 DEF Command

(* A call that changes the setup is made while no thread of a search runs. *)
LEMMA ExclusiveCalls ==
  ASSUME IInv, NEW name \in Exclusive, Call(name)
  PROVE  ~live /\ outcome # "open"
BY CallGoesOn DEF IInv, Quiesced, IsFirst

(* A call of the command that is executed. *)
LEMMA CallSteps ==
  ASSUME IInv, Calls
  PROVE  Shape(script)' /\ CallsOf' /\ Quiesced' /\ Expected' /\ TreeAgrees'
<1>. USE NoMoreCalls
     DEF IInv, uci, network, engine, search, history, Called, IsFirst
<1>1. CASE CallAbort
  <2>1. IsFirst("abort", Tail(script))
    BY <1>1, CallGoesOn DEF CallAbort
  <2>2. Shape(script)' /\ CallsOf'
    BY <1>1, <2>1 DEF CallAbort, S!Abort, CallsOf
  <2>3. Quiesced'
    BY <1>1, <2>1 DEF CallAbort, S!Abort, CallsOf, Quiesced
  <2>4. Expected'
    BY <1>1, <2>1 DEF CallAbort, S!Abort, CallsOf, Expected, Quiesced
  <2>5. TreeAgrees'
    BY <1>1, <2>1 DEF CallAbort, S!Abort, CallsOf, TreeAgrees, Asked
  <2>. QED
    BY <2>2, <2>3, <2>4, <2>5
<1>2. CASE CallWait
  <2>1. IsFirst("wait", Tail(script))
    BY <1>2, CallGoesOn DEF CallWait
  <2>2. Shape(script)' /\ CallsOf'
    BY <1>2, <2>1 DEF CallWait, CallsOf
  <2>3. Quiesced'
    BY <1>2, <2>1 DEF CallWait, CallsOf, Quiesced
  <2>4. Expected'
    BY <1>2, <2>1 DEF CallWait, CallsOf, Expected, Quiesced
  <2>5. TreeAgrees'
    BY <1>2, <2>1 DEF CallWait, CallsOf, TreeAgrees, Asked
  <2>. QED
    BY <2>2, <2>3, <2>4, <2>5
<1>3. CASE CallStop
  <2>1. IsFirst("stop", Tail(script))
    BY <1>3, CallGoesOn DEF CallStop
  <2>2. Shape(script)' /\ CallsOf'
    BY <1>3, <2>1 DEF CallStop, AskToStop, S!Stop, CallsOf
  <2>3. Quiesced'
    BY <1>3, <2>1 DEF CallStop, AskToStop, S!Stop, CallsOf, Quiesced
  <2>4. Expected'
    BY <1>3, <2>1 DEF CallStop, AskToStop, S!Stop, CallsOf, Expected, Quiesced
  <2>5. TreeAgrees'
    BY <1>3, <2>1 DEF CallStop, AskToStop, S!Stop, CallsOf, TreeAgrees, Asked
  <2>. QED
    BY <2>2, <2>3, <2>4, <2>5
<1>4. CASE CallUpdate
  <2>1. IsFirst("update", Tail(script))
    BY <1>4, CallGoesOn DEF CallUpdate, GiveUp
  <2>2. ~live /\ outcome # "open"
    BY <1>4, ExclusiveCalls DEF CallUpdate, Exclusive, CallName, GiveUp
  <2>3. Shape(script)' /\ CallsOf'
    BY <1>4, <2>1, <2>2 DEF CallUpdate, GiveUp, CallsOf
  <2>4. Quiesced'
    BY <1>4, <2>1, <2>2 DEF CallUpdate, GiveUp, CallsOf, Quiesced
  <2>5. Expected'
    BY <1>4, <2>1, <2>2 DEF CallUpdate, GiveUp, CallsOf, Expected, Quiesced
  <2>6. TreeAgrees'
    BY <1>4, <2>1, <2>2 DEF CallUpdate, GiveUp, CallsOf, TreeAgrees, Asked
  <2>. QED
    BY <2>3, <2>4, <2>5, <2>6
<1>5. CASE CallClear
  <2>1. IsFirst("clear", Tail(script))
    BY <1>5, CallGoesOn DEF CallClear
  <2>2. Shape(script)' /\ CallsOf'
    BY <1>5, <2>1 DEF CallClear, CallsOf
  <2>3. Quiesced'
    BY <1>5, <2>1 DEF CallClear, CallsOf, Quiesced
  <2>4. Expected'
    BY <1>5, <2>1 DEF CallClear, CallsOf, Expected, Quiesced
  <2>5. TreeAgrees'
    BY <1>5, <2>1 DEF CallClear, CallsOf, TreeAgrees, Asked
  <2>. QED
    BY <2>2, <2>3, <2>4, <2>5
<1>6. CASE CallPosition
  <2>1. IsFirst("position", Tail(script))
    BY <1>6, CallGoesOn DEF CallPosition
  <2>2. ~live /\ outcome # "open"
    BY <1>6, ExclusiveCalls DEF CallPosition, Exclusive, CallName
  <2>3. Shape(script)' /\ CallsOf'
    BY <1>6, <2>1, <2>2 DEF CallPosition, CallsOf
  <2>4. Quiesced'
    BY <1>6, <2>1, <2>2, EngineAssumption DEF CallPosition, CallsOf, Quiesced, TypeOK
  <2>5. Expected'
    BY <1>6, <2>1, <2>2 DEF CallPosition, CallsOf, Expected, Quiesced
  <2>6. TreeAgrees'
    BY <1>6, <2>1, <2>2 DEF CallPosition, CallsOf, TreeAgrees, Asked, Shape
  <2>. QED
    BY <2>3, <2>4, <2>5, <2>6
<1>7. CASE CallDrop
  <2>1. IsFirst("drop", Tail(script))
    BY <1>7, CallGoesOn DEF CallDrop
  <2>2. ~live /\ outcome # "open"
    BY <1>7, ExclusiveCalls DEF CallDrop, Exclusive, CallName
  <2>3. Shape(script)' /\ CallsOf'
    BY <1>7, <2>1, <2>2 DEF CallDrop, Nowhere, CallsOf
  <2>4. Quiesced'
    BY <1>7, <2>1, <2>2 DEF CallDrop, Nowhere, CallsOf, Quiesced
  <2>5. Expected'
    BY <1>7, <2>1, <2>2 DEF CallDrop, Nowhere, CallsOf, Expected, Quiesced
  <2>6. TreeAgrees'
    BY <1>7, <2>1, <2>2 DEF CallDrop, Nowhere, CallsOf, TreeAgrees, Asked, Shape
  <2>. QED
    BY <2>3, <2>4, <2>5, <2>6
<1>8. CASE CallReset
  <2>1. IsFirst("reset", Tail(script))
    BY <1>8, CallGoesOn DEF CallReset
  <2>2. ~live /\ outcome # "open"
    BY <1>8, ExclusiveCalls DEF CallReset, Exclusive, CallName
  <2>3. Shape(script)' /\ CallsOf'
    BY <1>8, <2>1, <2>2 DEF CallReset, CallsOf
  <2>4. Quiesced'
    BY <1>8, <2>1, <2>2 DEF CallReset, CallsOf, Quiesced
  <2>5. Expected'
    BY <1>8, <2>1, <2>2 DEF CallReset, CallsOf, Expected, Quiesced
  <2>6. TreeAgrees'
    BY <1>8, <2>1, <2>2 DEF CallReset, CallsOf, TreeAgrees, Asked, TreeFor, ForPonder, Shape
  <2>. QED
    BY <2>3, <2>4, <2>5, <2>6
<1>9. CASE CallRecord
  <2>1. IsFirst("record", Tail(script))
    BY <1>9, CallGoesOn DEF CallRecord
  <2>2. ~live /\ outcome # "open"
    BY <1>9, ExclusiveCalls DEF CallRecord, Exclusive, CallName
  <2>3. Shape(script)' /\ CallsOf'
    BY <1>9, <2>1, <2>2 DEF CallRecord, CallsOf
  <2>4. Quiesced'
    BY <1>9, <2>1, <2>2 DEF CallRecord, CallsOf, Quiesced, Shape, TypeOK, Modes
  <2>5. Expected'
    BY <1>9, <2>1, <2>2 DEF CallRecord, CallsOf, Expected, Quiesced
  <2>6. TreeAgrees'
    BY <1>9, <2>1, <2>2 DEF CallRecord, CallsOf, TreeAgrees, Asked
  <2>. QED
    BY <2>3, <2>4, <2>5, <2>6
<1>10. CASE CallHit
  <2>1. IsFirst("hit", Tail(script))
    BY <1>10, CallGoesOn DEF CallHit
  <2>2. ~live /\ outcome # "open"
    BY <1>10, ExclusiveCalls DEF CallHit, Exclusive, CallName
  <2>3. Shape(script)' /\ CallsOf'
    BY <1>10, <2>1, <2>2 DEF CallHit, CallsOf
  <2>4. Quiesced'
    BY <1>10, <2>1, <2>2 DEF CallHit, CallsOf, Quiesced, Shape
  <2>5. Expected'
    BY <1>10, <2>1, <2>2 DEF CallHit, CallsOf, Expected, Quiesced
  <2>6. TreeAgrees'
    BY <1>10, <2>1, <2>2 DEF CallHit, CallsOf, TreeAgrees, Asked, Shape
  <2>. QED
    BY <2>3, <2>4, <2>5, <2>6
<1>11. CASE CallConstruct
  <2>1. IsFirst("construct", Tail(script))
    BY <1>11, CallGoesOn DEF CallConstruct, GiveUp
  <2>2. ~live /\ outcome # "open"
    BY <1>11, ExclusiveCalls DEF CallConstruct, Exclusive, CallName, GiveUp
  <2>3. Shape(script)' /\ CallsOf'
    BY <1>11, <2>1, <2>2 DEF CallConstruct, GiveUp, CallsOf
  <2>4. Quiesced'
    BY <1>11, <2>1, <2>2 DEF CallConstruct, GiveUp, CallsOf, Quiesced
  <2>5. Expected'
    BY <1>11, <2>1, <2>2 DEF CallConstruct, GiveUp, CallsOf, Expected, Quiesced
  <2>6. TreeAgrees'
    BY <1>11, <2>1, <2>2 DEF CallConstruct, GiveUp, CallsOf, TreeAgrees, Asked
  <2>. QED
    BY <2>3, <2>4, <2>5, <2>6
<1>12. CASE CallStart
  <2>1. IsFirst("start", Tail(script))
    BY <1>12, CallGoesOn DEF CallStart
  <2>2. ~live /\ outcome # "open"
    BY <1>12, ExclusiveCalls DEF CallStart, Exclusive, CallName
  <2>3. Shape(script)' /\ CallsOf'
    BY <1>12, <2>1, <2>2 DEF CallStart, AnswersAlone, CallsOf
  <2>4. Quiesced'
    BY <1>12, <2>1, <2>2 DEF CallStart, AnswersAlone, CallsOf, Quiesced, Expected
  <2>5. Expected'
    BY <1>12, <2>1, <2>2 DEF CallStart, AnswersAlone, CallsOf, Expected, Quiesced
  <2>6. TreeAgrees'
    BY <1>12, <2>1, <2>2 DEF CallStart, AnswersAlone, CallsOf, TreeAgrees, Asked
  <2>. QED
    BY <2>3, <2>4, <2>5, <2>6
<1>13. CASE Return
  BY <1>13 DEF Return, CallsOf, Quiesced, Expected, TreeAgrees, Asked
<1>. QED
  BY <1>1, <1>2, <1>3, <1>4, <1>5, <1>6, <1>7, <1>8, <1>9, <1>10, <1>11, <1>12, <1>13 DEF Calls

(* There is a backend before there is a position: none is ever taken away. *)
LEMMA CallsKeepBackend ==
  ASSUME IInv, Calls
  PROVE  HasBackend'
<1>. USE NoMoreCalls
     DEF IInv, HasBackend, uci, network, engine, search, history, Called
<1>1. CASE CallUpdate
  <2>1. IsFirst("update", Tail(script))
    BY <1>1, CallGoesOn DEF CallUpdate, GiveUp
  <2>2. backend.name # NoBackend => backend'.name # NoBackend
    BY <1>1, EngineAssumption DEF CallUpdate, TypeOK, Options
  <2>3. backend'.name # NoBackend \/ script' = << >>
    BY <1>1, EngineAssumption DEF CallUpdate, GiveUp, TypeOK, Options
  <2>4. UNCHANGED lastPos
    BY <1>1 DEF CallUpdate
  <2>. QED
    BY <2>1, <2>2, <2>3, <2>4 DEF IsFirst
<1>2. CASE CallPosition
  <2>1. IsFirst("position", Tail(script))
    BY <1>2, CallGoesOn DEF CallPosition
  <2>2. UNCHANGED backend /\ backend.name # NoBackend
    BY <1>2, <2>1 DEF CallPosition, IsFirst
  <2>. QED
    BY <2>2
<1>3. CASE Return
  BY <1>3 DEF Return
<1>4. CASE \/ CallClear \/ CallAbort \/ CallWait \/ CallStop \/ CallDrop \/ CallReset
           \/ CallRecord \/ CallHit \/ CallConstruct \/ CallStart
  <2>1. UNCHANGED <<lastPos, backend>>
    BY <1>4 DEF CallClear, CallAbort, CallWait, CallStop, CallDrop, CallReset,
                CallRecord, CallHit, CallConstruct, CallStart
  <2>2. script' = << >> \/ \E name \in CallName \ {"update"} :
                              Call(name) /\ script' = Tail(script)
    BY <1>4 DEF CallClear, CallAbort, CallWait, CallStop, CallDrop, CallReset,
                CallRecord, CallHit, CallConstruct, CallStart, GiveUp, CallName
  <2>3. CASE script' = << >>
    BY <2>1, <2>3
  <2>4. ASSUME NEW name \in CallName \ {"update"}, Call(name), script' = Tail(script)
        PROVE  HasBackend'
    <3>1. IsFirst(name, Tail(script))
      BY <2>4, CallGoesOn
    <3>. QED
      BY <2>1, <2>4, <3>1 DEF IsFirst
  <2>. QED
    BY <2>2, <2>3, <2>4
<1>. QED
  BY <1>1, <1>2, <1>3, <1>4 DEF Calls

(* The types, call by call. *)
LEMMA CallTypes ==
  ASSUME IInv, Calls
  PROVE  TypeOK'
<1>. USE EngineAssumption
     DEF IInv, TypeOK, Modes, Options, uci, network, engine, search, history, Called,
         IsFirst, CallName
<1>1. CASE CallAbort
  <2>1. IsFirst("abort", Tail(script))
    BY <1>1, CallGoesOn DEF CallAbort
  <2>. QED
    <3>1. limit' \in BOOLEAN /\ outcome' \in {"open", "bestmove", "silent"}
      BY <1>1 DEF CallAbort, S!Abort
    <3>2. script' \in Seq(CallName)
          /\ UNCHANGED <<command, arg, engine, history, mayAnswer, live>>
      BY <1>1, <2>1 DEF CallAbort, S!Abort
    <3>. QED
      BY <3>1, <3>2
<1>2. CASE CallWait
  <2>1. IsFirst("wait", Tail(script))
    BY <1>2, CallGoesOn DEF CallWait
  <2>. QED
    BY <1>2, <2>1 DEF CallWait
<1>3. CASE CallStop
  <2>1. IsFirst("stop", Tail(script))
    BY <1>3, CallGoesOn DEF CallStop
  <2>. QED
    <3>1. limit' \in BOOLEAN /\ mayAnswer' \in BOOLEAN
      BY <1>3 DEF CallStop, AskToStop, S!Stop
    <3>2. script' \in Seq(CallName)
          /\ UNCHANGED <<command, arg, engine, history, outcome, live>>
      BY <1>3, <2>1 DEF CallStop, AskToStop, S!Stop
    <3>. QED
      BY <3>1, <3>2
<1>4. CASE CallUpdate
  <2>1. IsFirst("update", Tail(script))
    BY <1>4, CallGoesOn DEF CallUpdate, GiveUp
  <2>. QED
    <3>1. backend' \in [name : Backend \cup {NoBackend}, policy : Policy, fresh : BOOLEAN]
      <4>1. CASE backend' = [backend EXCEPT !.policy = chosen.policy]
        BY <4>1
      <4>2. CASE backend' = [name |-> chosen.name, policy |-> chosen.policy,
                             fresh |-> ~backend.fresh]
        <5>1. (~backend.fresh) \in BOOLEAN
          OBVIOUS
        <5>. HIDE DEF IsFirst
        <5>. QED
          BY <4>2, <5>1
      <4>3. CASE UNCHANGED backend
        BY <4>3
      <4>. QED
        BY <1>4, <4>1, <4>2, <4>3 DEF CallUpdate
    <3>2. backendName' \in Backend \cup {NoBackend} /\ cached' \subseteq Policy
      BY <1>4 DEF CallUpdate, CacheOutdated
    <3>3. script' \in Seq(CallName) /\ gui' \in {"quiet", "thinking", "due", "closed"}
      BY <1>4, <2>1, EmptySeq, ZenonT(40) DEF CallUpdate, GiveUp
    <3>4. UNCHANGED <<command, arg, lastPos, lastGo, tree, chosen, search, begun>>
      BY <1>4 DEF CallUpdate, GiveUp
    <3>. QED
      BY <3>1, <3>2, <3>3, <3>4
<1>5. CASE CallClear
  <2>1. IsFirst("clear", Tail(script))
    BY <1>5, CallGoesOn DEF CallClear
  <2>. QED
    BY <1>5, <2>1 DEF CallClear
<1>6. CASE CallPosition
  <2>1. IsFirst("position", Tail(script))
    BY <1>6, CallGoesOn DEF CallPosition
  <2>. QED
    BY <1>6, <2>1 DEF CallPosition, CallsOf
<1>7. CASE CallDrop
  <2>1. IsFirst("drop", Tail(script))
    BY <1>7, CallGoesOn DEF CallDrop
  <2>. QED
    BY <1>7, <2>1 DEF CallDrop, Nowhere
<1>8. CASE CallReset
  <2>1. IsFirst("reset", Tail(script))
    BY <1>8, CallGoesOn DEF CallReset
  <2>. QED
    BY <1>8, <2>1 DEF CallReset, CallsOf, Quiesced, Shape
<1>9. CASE CallRecord
  <2>1. IsFirst("record", Tail(script))
    BY <1>9, CallGoesOn DEF CallRecord
  <2>. QED
    BY <1>9, <2>1 DEF CallRecord, CallsOf
<1>10. CASE CallHit
  <2>1. IsFirst("hit", Tail(script))
    BY <1>10, CallGoesOn DEF CallHit
  <2>. QED
    BY <1>10, <2>1 DEF CallHit
<1>11. CASE CallConstruct
  <2>1. IsFirst("construct", Tail(script))
    BY <1>11, CallGoesOn DEF CallConstruct, GiveUp
  <2>. QED
    <3>1. script' \in Seq(CallName) /\ gui' \in {"quiet", "thinking", "due", "closed"}
      BY <1>11, <2>1, EmptySeq, ZenonT(40) DEF CallConstruct, GiveUp
    <3>2. UNCHANGED <<command, arg, engine, search, begun>>
      BY <1>11 DEF CallConstruct, GiveUp
    <3>. QED
      BY <3>1, <3>2
<1>12. CASE CallStart
  <2>1. IsFirst("start", Tail(script))
    BY <1>12, CallGoesOn DEF CallStart
  <2>. QED
    <3>1. /\ limit' \in BOOLEAN /\ mayAnswer' \in BOOLEAN /\ live' \in BOOLEAN
          /\ outcome' \in {"open", "bestmove", "silent"}
      BY <1>12 DEF CallStart, AnswersAlone
    <3>2. script' \in Seq(CallName) /\ UNCHANGED <<command, arg, engine, history>>
      BY <1>12, <2>1 DEF CallStart
    <3>. QED
      BY <3>1, <3>2
<1>13. CASE Return
  BY <1>13 DEF Return
<1>. QED
  BY <1>1, <1>2, <1>3, <1>4, <1>5, <1>6, <1>7, <1>8, <1>9, <1>10, <1>11, <1>12, <1>13 DEF Calls

(* The search goes on in its threads. *)
LEMMA SearchSteps ==
  ASSUME IInv, ReachLimit \/ Answer \/ WindDown \/ Evaluate
  PROVE  IInv'
<1>. USE EngineAssumption, NoMoreCalls
     DEF IInv, CallsOf, Quiesced, Expected, TreeAgrees, HasBackend, TypeOK, Modes,
         Options, Asked, uci, network, engine, search, history
<1>1. CASE ReachLimit
  BY <1>1 DEF ReachLimit, S!ReachLimit, Report, Answering
<1>2. CASE Answer
  BY <1>2 DEF Answer, S!Answer, Report, Answering
<1>3. CASE WindDown
  <2>1. TypeOK'
    <3>1. live' \in BOOLEAN
      BY <1>3 DEF WindDown, S!WindDown
    <3>2. UNCHANGED <<uci, engine, history, limit, mayAnswer, outcome>>
      BY <1>3 DEF WindDown, S!WindDown
    <3>. QED
      BY <3>1, <3>2
  <2>2. Shape(script)' /\ CallsOf' /\ Quiesced'
    BY <1>3 DEF WindDown, S!WindDown
  <2>3. Expected' /\ TreeAgrees' /\ HasBackend'
    BY <1>3 DEF WindDown, S!WindDown
  <2>. QED
    BY <2>1, <2>2, <2>3
<1>4. CASE Evaluate
  BY <1>4 DEF Evaluate
<1>. QED
  BY <1>1, <1>2, <1>3, <1>4

LEMMA InvariantSteps == IInv /\ [Next]_vars => IInv'
<1>. SUFFICES ASSUME IInv, [Next]_vars PROVE IInv'
  OBVIOUS
<1>1. CASE UNCHANGED vars
  BY <1>1 DEF vars, uci, network, engine, search, history, IInv, TypeOK, CallsOf,
              Quiesced, Expected, TreeAgrees, HasBackend, Asked
<1>2. CASE Calls
  BY <1>2, CallSteps, CallTypes, CallsKeepBackend DEF IInv
<1>. QED
  BY <1>1, <1>2, CommandSteps, SearchSteps DEF Next

-----------------------------------------------------------------------------
(* Whatever the order of positions, ponder hits and commands that failed half way,  *)
(* an open search works on the position the GUI has set last (Engine::Go, PonderHit *)
(* and InitializeSearchPosition), its backend exists (UpdateBackendConfig), and the *)
(* GUI still expects what it answers.                                               *)
THEOREM SearchesWorkOnThePosition == Spec => []EngineInv
<1>1. IInv => EngineInv
  BY DEF IInv, TreeAgrees, TreeFor, Quiesced, Expected, HasBackend, EngineInv,
         SearchesWhatWasAsked
<1>. QED
  BY InitIInv, InvariantSteps, <1>1, PTL DEF Spec

(* The tree and the backend are only changed while no thread of a search runs *)
(* (search.h: "only can be changed while the search is stopped").             *)
THEOREM SetupChangesWhileStopped == Spec => SetupIsStable
<1>1. ASSUME IInv, [Next]_vars
      PROVE  [tree' # tree \/ backend' # backend => ~live]_<<tree, backend, live>>
  <2>. USE DEF uci, network, engine, search, history
  <2>1. CASE Command
    BY <2>1 DEF Command, SetOption, SetPosition, NewGame, Go, PonderHit, Wait, Stop,
                Quit, Begin
  <2>2. CASE CallUpdate \/ CallDrop \/ CallReset
    BY <1>1, <2>2, ExclusiveCalls
       DEF CallUpdate, CallDrop, CallReset, Called, Exclusive, CallName
  <2>3. CASE \/ CallClear \/ CallAbort \/ CallWait \/ CallStop \/ CallPosition
             \/ CallRecord \/ CallHit \/ CallConstruct \/ CallStart \/ Return
    BY <2>3 DEF CallClear, CallAbort, CallWait, CallStop, CallPosition, CallRecord,
                CallHit, CallConstruct, CallStart, Return
  <2>4. CASE ReachLimit \/ Answer \/ WindDown \/ Evaluate
    BY <2>4 DEF ReachLimit, Answer, WindDown, Evaluate
  <2>5. CASE UNCHANGED vars
    BY <2>5 DEF vars
  <2>. QED
    BY <1>1, <2>1, <2>2, <2>3, <2>4, <2>5 DEF Next, Calls
<1>. QED
  BY InitIInv, InvariantSteps, <1>1, PTL DEF Spec, SetupIsStable

(* A bestmove is sent only while the GUI waits for one; for a ponder or infinite *)
(* search only after "stop" or "ponderhit" (UciLoop, Engine and the responder).  *)
THEOREM BestmovesAreAsked == Spec => AnswersAreAsked
<1>1. ASSUME IInv, [Next]_vars
      PROVE  [Answering => \/ gui \in {"due", "closed"}
                           \/ gui = "thinking" /\ lastGo = "normal"]_vars
  <2>. USE DEF Answering, uci, network, engine, search, history
  <2>1. CASE Command
    BY <2>1 DEF Command, SetOption, SetPosition, NewGame, Go, PonderHit, Wait, Stop,
                Quit, Begin
  <2>2. CASE Calls
    BY <2>2 DEF Calls, CallUpdate, CallDrop, CallReset, CallClear, CallAbort, S!Abort,
                CallWait, CallStop, AskToStop, S!Stop, CallPosition, CallRecord,
                CallHit, CallConstruct, CallStart, Return
  <2>3. CASE ReachLimit \/ Answer
    BY <1>1, <2>3 DEF IInv, Expected, ReachLimit, Answer, S!ReachLimit, S!Answer
  <2>4. CASE WindDown \/ Evaluate
    BY <2>4 DEF WindDown, S!WindDown, Evaluate
  <2>5. CASE UNCHANGED vars
    BY <2>5
  <2>. QED
    BY <1>1, <2>1, <2>2, <2>3, <2>4, <2>5 DEF Next
<1>. QED
  BY InitIInv, InvariantSteps, <1>1, PTL DEF Spec, AnswersAreAsked
=============================================================================
