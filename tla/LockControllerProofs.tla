------------------------ MODULE LockControllerProofs ------------------------
(***************************************************************************)
(* Proofs about LockController: its type invariant, and that a lock is     *)
(* released only by a request on its own topic when handlers do not nest.  *)
(***************************************************************************)
EXTENDS LockController, SequenceTheorems, TLAPS

-----------------------------------------------------------------------------
(* Facts about the stack of handlers.                                       *)

(* The innermost of a non-empty stack of handlers is a handler.             *)
LEMMA TopType ==
    ASSUME calls \in Seq(Call), calls # <<>>
    PROVE  /\ Top \in Call
           /\ Len(calls) \in Nat \ {0}
  BY DEF Top

(* Changing the innermost handler's record leaves a stack of the same       *)
(* height with that record on top.                                          *)
LEMMA SetTopType ==
    ASSUME calls \in Seq(Call), calls # <<>>, NEW c \in Call, SetTop(c)
    PROVE  /\ calls' \in Seq(Call) /\ calls' # <<>>
           /\ Len(calls') = Len(calls)
           /\ Top' = c
  BY DEF SetTop, Top

(* Dropping the innermost handler leaves a stack one handler shorter.       *)
LEMMA DropTop ==
    ASSUME NEW s \in Seq(Call), s # <<>>
    PROVE  /\ SubSeq(s, 1, Len(s) - 1) \in Seq(Call)
           /\ Len(SubSeq(s, 1, Len(s) - 1)) = Len(s) - 1
  <1>1. Len(s) \in Nat \ {0}
    BY EmptySeq
  <1> DEFINE n == Len(s) - 1
  <1>2. \A i \in 1 .. n : s[i] \in Call
    BY <1>1, ElementOfSeq
  <1>3. n \in Int /\ 1 \in Int
    BY <1>1
  <1>4. /\ SubSeq(s, 1, n) \in Seq(Call)
        /\ Len(SubSeq(s, 1, n)) = IF 1 <= n THEN n - 1 + 1 ELSE 0
    <2> HIDE DEF n
    <2> QED BY <1>2, <1>3, SubSeqProperties
  <1>5. (IF 1 <= n THEN n - 1 + 1 ELSE 0) = n
    <2>1. n \in Nat
      BY <1>1
    <2> HIDE DEF n
    <2> QED BY <2>1
  <1> QED
    BY <1>4, <1>5

(* A handler that returns leaves a stack one handler shorter, and the       *)
(* client's lock where it belongs.                                          *)
LEMMA ReturnType ==
    ASSUME calls \in Seq(Call), calls # <<>>, Return,
           owner \in {"main", "mqtt"}
    PROVE  /\ calls' \in Seq(Call) /\ Len(calls') = Len(calls) - 1
           /\ owner' \in {"none", "main", "mqtt"}
           /\ owner' = "main" <=> owner = "main"
           /\ owner' = "mqtt" => calls' # <<>>
           /\ calls' # <<>> => owner' # "none"
  <1>1. calls' \in Seq(Call) /\ Len(calls') = Len(calls) - 1
    BY DropTop DEF Return
  <1>2. Len(calls) # 1 => calls' # <<>>
    BY <1>1
  <1>3. Len(calls) = 1 => calls' = <<>>
    BY <1>1
  <1> QED
    BY <1>1, <1>2, <1>3 DEF Return

-----------------------------------------------------------------------------
(* Type correctness.                                                        *)

(* A publish spends at most the faults that are left.                       *)
LEMMA SendType ==
    ASSUME faults \in 0..MaxFaults, NEW o \in Outcome, Send(o)
    PROVE  faults' \in 0..MaxFaults
  BY BoundsAssumption DEF Send

(* Publishing a lock's state keeps the broker's variables typed.            *)
LEMMA PublishStatusType ==
    ASSUME TypeOK, NEW l \in Lock, NEW state, NEW o \in Outcome,
           PublishStatus(l, state, o)
    PROVE  /\ status' \in [Lock -> {"none", "0", "1"}]
           /\ reported' \subseteq Lock
           /\ faults' \in 0..MaxFaults
  <1>1. faults' \in 0..MaxFaults
    BY SendType DEF PublishStatus, TypeOK
  <1> QED
    BY <1>1 DEF PublishStatus, TypeOK

(* There is a first lock, and every lock's topic has a handler.             *)
LEMMA LockFacts ==
    /\ 0 \in Lock
    /\ Lock \subseteq Handler
    /\ App \in Handler
    /\ \A l \in Lock : l + 1 < LockCount => l + 1 \in Lock
  BY LockCountAssumption DEF Lock, Handler, App

(* The initial state is typed.                                              *)
LEMMA InitType == Init => TypeOK
  <1> SUFFICES ASSUME Init PROVE TypeOK
    OBVIOUS
  <1>1. InitialMain \in MainState /\ InitialMain.pc = "poll"
    BY LockFacts DEF InitialMain, MainState
  <1>2. calls \in Seq(Call) /\ Len(calls) <= MaxDepth
    BY BoundsAssumption DEF Init
  <1>3. delivered \in 0..MaxMessages /\ faults \in 0..MaxFaults
    BY BoundsAssumption DEF Init
  <1> QED
    BY <1>1, <1>2, <1>3 DEF Init, TypeOK, CommandType

(* Every step leaves the state typed.                                       *)
LEMMA StepType == TypeOK /\ [Next]_vars => TypeOK'
<1> SUFFICES ASSUME TypeOK, [Next]_vars PROVE TypeOK'
  OBVIOUS
<1> USE DEF device, link, broker
<1>1. ASSUME NEW h \in Handler, NEW m \in Messages, Deliver(h, m)
      PROVE TypeOK'
  <2>1. PICK b \in Messages :
          calls' = Append([i \in 1..Len(calls) |-> [calls[i] EXCEPT !.buf = b]],
                          [h |-> h, msg |-> m, buf |-> m, pos |-> 0,
                           pc |-> "parse", idx |-> 0, ok |-> TRUE])
    BY <1>1 DEF Deliver, Dispatch
  <2> DEFINE s == [i \in 1..Len(calls) |-> [calls[i] EXCEPT !.buf = b]]
             c == [h |-> h, msg |-> m, buf |-> m, pos |-> 0,
                   pc |-> "parse", idx |-> 0, ok |-> TRUE]
  <2>2. c \in Call
    BY LockFacts DEF Call
  <2>3. \A i \in 1..Len(calls) : s[i] \in Call
    <3> TAKE i \in 1..Len(calls)
    <3>1. calls[i] \in Call
      BY ElementOfSeq DEF TypeOK
    <3> QED
      BY <3>1 DEF Call
  <2>4. s \in Seq(Call) /\ Len(s) = Len(calls)
    <3>1. Len(calls) \in Nat
      BY EmptySeq DEF TypeOK
    <3>2. s \in [1..Len(calls) -> Call]
      BY <2>3
    <3> HIDE DEF s
    <3> QED BY <3>1, <3>2, SeqDef
  <2>5. calls' \in Seq(Call) /\ Len(calls') = Len(calls) + 1 /\ calls' # <<>>
    <3> HIDE DEF s, c
    <3> QED BY <2>1, <2>2, <2>4 DEF s, c
  <2>6. Len(calls) + 1 <= MaxDepth
    BY <1>1, BoundsAssumption DEF Deliver, Dispatch, CanDispatch, TypeOK
  <2>7. delivered' \in 0..MaxMessages
    BY <1>1, BoundsAssumption DEF Deliver, Dispatch, TypeOK
  <2> QED
    BY <1>1, <2>5, <2>6, <2>7 DEF Deliver, Dispatch, CanDispatch, TypeOK, CommandType
<1>2. ASSUME HandlerStep PROVE TypeOK'
  <2> calls # <<>> /\ calls \in Seq(Call) /\ owner \in {"main", "mqtt"}
    BY <1>2 DEF HandlerStep, AcceptItem, RefuseItem, ErrorReturn, ParseFail,
                NoCommand, ExecuteLock, ExecuteRefresh, UnknownCommand, LastReturn,
                RefreshSend, RefreshNext, RefreshDone, InHandler, Parsed, TypeOK
  <2> Top \in Call
    BY TopType
  <2>1. CASE AcceptItem
    <3>1. [Top EXCEPT !.pos = Top.pos + 1] \in Call
      BY DEF Call
    <3> QED
      BY <2>1, <3>1, SetTopType DEF AcceptItem, TypeOK, TypeOf, CommandType
  <2>2. CASE RefuseItem
    <3> DEFINE next == Top.pos + 1
    <3>a. next \in Nat
      BY DEF Call
    <3>b. [Top EXCEPT !.pos = next, !.pc = "error"] \in Call
      <4> HIDE DEF next
      <4> QED BY <3>a DEF Call
    <3>1. [Top EXCEPT !.pos = Top.pos + 1, !.pc = "error"] \in Call
      BY <3>b
    <3>2. faults' \in 0..MaxFaults /\ UNCHANGED broker
      BY <2>2, SendType DEF RefuseItem, PublishError, TypeOK
    <3> QED
      BY <2>2, <3>1, <3>2, SetTopType DEF RefuseItem, TypeOK
  <2>3. CASE ErrorReturn
    <3>1. [Top EXCEPT !.pc = "parse"] \in Call
      BY DEF Call
    <3> QED
      BY <2>3, <3>1, SetTopType DEF ErrorReturn, GoTo, TypeOK
  <2>4. CASE ParseFail \/ NoCommand \/ LastReturn \/ RefreshDone
    <3>1. Return /\ UNCHANGED <<device, main, link, broker, delivered, faults>>
      BY <2>4 DEF ParseFail, NoCommand, LastReturn, RefreshDone
    <3>2. /\ calls' \in Seq(Call) /\ Len(calls') = Len(calls) - 1
          /\ owner' \in {"none", "main", "mqtt"}
          /\ owner' = "main" <=> owner = "main"
          /\ owner' = "mqtt" => calls' # <<>>
          /\ calls' # <<>> => owner' # "none"
      BY <3>1, ReturnType
    <3>3. Len(calls') <= MaxDepth
      BY <3>2, TopType, BoundsAssumption DEF TypeOK
    <3> QED
      BY <3>1, <3>2, <3>3 DEF TypeOK
  <2>5. CASE ExecuteLock
    <3>1. [Top EXCEPT !.pc = "last"] \in Call
      BY DEF Call
    <3>2. /\ status' \in [Lock -> {"none", "0", "1"}]
          /\ reported' \subseteq Lock
          /\ faults' \in 0..MaxFaults
      BY <2>5, PublishStatusType DEF ExecuteLock, CommandLock
    <3>3. locked' \in [Lock -> BOOLEAN] /\ pin' \in [Lock -> BOOLEAN]
      BY <2>5 DEF ExecuteLock, CommandLock, TypeOK
    <3> QED
      BY <2>5, <3>1, <3>2, <3>3, SetTopType DEF ExecuteLock, GoTo, TypeOK
  <2>6. CASE ExecuteRefresh
    <3>1. [Top EXCEPT !.pc = "refresh", !.idx = 0] \in Call
      BY LockFacts DEF Call
    <3> QED
      BY <2>6, <3>1, SetTopType DEF ExecuteRefresh, TypeOK
  <2>7. CASE UnknownCommand
    <3>1. [Top EXCEPT !.pc = "last"] \in Call
      BY DEF Call
    <3>2. faults' \in 0..MaxFaults /\ UNCHANGED broker
      BY <2>7, SendType DEF UnknownCommand, PublishError, TypeOK
    <3> QED
      BY <2>7, <3>1, <3>2, SetTopType DEF UnknownCommand, GoTo, TypeOK
  <2>8. CASE RefreshSend
    <3>1. PICK o \in Outcome :
            /\ PublishStatus(Top.idx, locked[Top.idx], o)
            /\ SetTop([Top EXCEPT !.pc = "refreshing", !.ok = o.ok])
      BY <2>8 DEF RefreshSend
    <3>2. [Top EXCEPT !.pc = "refreshing", !.ok = o.ok] \in Call
      BY DEF Call, Outcome
    <3>3. Top.idx \in Lock
      BY DEF Call
    <3>4. /\ status' \in [Lock -> {"none", "0", "1"}]
          /\ reported' \subseteq Lock
          /\ faults' \in 0..MaxFaults
      BY <3>1, <3>3, PublishStatusType
    <3> QED
      BY <2>8, <3>1, <3>2, <3>4, SetTopType DEF RefreshSend, TypeOK
  <2>9. CASE RefreshNext
    <3>1. [Top EXCEPT !.pc = "refresh", !.idx = Top.idx + 1] \in Call
      BY <2>9, LockFacts DEF RefreshNext, Call
    <3> QED
      BY <2>9, <3>1, SetTopType DEF RefreshNext, TypeOK
  <2> QED
    BY <1>2, <2>1, <2>2, <2>3, <2>4, <2>5, <2>6, <2>7, <2>8, <2>9 DEF HandlerStep
<1>3. ASSUME MainStep PROVE TypeOK'
  <2>1. CASE MainConnect
    BY <2>1, LockFacts DEF MainConnect, TypeOK, MainState
  <2>2. CASE MainSubscribe
    BY <2>2 DEF MainSubscribe, TypeOK, MainState
  <2>3. CASE MainSubscribed
    <3>1. faults' \in 0..MaxFaults
      BY <2>3, SendType DEF MainSubscribed, TypeOK
    <3>2. main' \in MainState /\ main'.pc \in {"subscribe", "read"}
      BY <2>3, LockFacts DEF MainSubscribed, TypeOK, MainState
    <3>3. subscribed' \subseteq Handler
      BY <2>3, LockFacts DEF MainSubscribed, TypeOK, MainState
    <3> QED
      BY <2>3, <3>1, <3>2, <3>3 DEF MainSubscribed, TypeOK
  <2>4. CASE MainRead
    BY <2>4 DEF MainRead, TypeOK, MainState
  <2>5. CASE MainSend
    <3>1. PICK o \in Outcome :
            /\ PublishStatus(main.idx, main.val, o)
            /\ main' = [main EXCEPT !.pc = "sending", !.ok = o.ok]
      BY <2>5 DEF MainSend
    <3>2. /\ status' \in [Lock -> {"none", "0", "1"}]
          /\ reported' \subseteq Lock
          /\ faults' \in 0..MaxFaults
      BY <3>1, PublishStatusType DEF TypeOK, MainState
    <3>3. main' \in MainState /\ main'.pc = "sending"
      BY <3>1 DEF TypeOK, MainState, Outcome
    <3> QED
      BY <2>5, <3>2, <3>3 DEF MainSend, TypeOK
  <2>6. CASE MainSent
    <3>1. main' \in MainState /\ main'.pc \in {"reset", "read", "poll"}
      BY <2>6, LockFacts DEF MainSent, TypeOK, MainState
    <3> QED
      BY <2>6, <3>1 DEF MainSent, TypeOK
  <2>7. CASE MainReset
    BY <2>7 DEF MainReset, TypeOK, MainState
  <2>8. CASE MainIdle
    BY <2>8 DEF MainIdle, vars, TypeOK
  <2> QED
    BY <1>3, <2>1, <2>2, <2>3, <2>4, <2>5, <2>6, <2>7, <2>8 DEF MainStep
<1>4. CASE ConnectionLost
  <2>1. faults' \in 0..MaxFaults
    BY <1>4, BoundsAssumption DEF ConnectionLost, TypeOK
  <2> QED
    BY <1>4, <2>1 DEF ConnectionLost, TypeOK
<1>5. CASE Restart
  <2>1. /\ locked' \in [Lock -> BOOLEAN] /\ pin' \in [Lock -> BOOLEAN]
        /\ command' \in CommandType
        /\ main' \in MainState /\ main'.pc = "poll"
    BY <1>5, LockFacts DEF Restart, CommandType, InitialMain, MainState
  <2>2. calls' = <<>> /\ calls' \in Seq(Call) /\ Len(calls') <= MaxDepth
    BY <1>5, BoundsAssumption DEF Restart
  <2>3. faults' \in 0..MaxFaults
    BY <1>5, BoundsAssumption DEF Restart, TypeOK
  <2> QED
    BY <1>5, <2>1, <2>2, <2>3 DEF Restart, TypeOK
<1>6. CASE UNCHANGED vars
  BY <1>6 DEF vars, TypeOK
<1> QED
  BY <1>1, <1>2, <1>3, <1>4, <1>5, <1>6 DEF Next

(* Every variable keeps its type, for any number of locks and any payloads. *)
THEOREM TypeCorrect == Spec => []TypeOK
  BY InitType, StepType, PTL DEF Spec

-----------------------------------------------------------------------------
(* What handlers accept.                                                    *)

(* Accepting the next pair makes it the last command accepted.              *)
LEMMA LastAcceptedAccept ==
    ASSUME NEW h, NEW m, NEW n \in Nat, Accepts(h, m[n + 1])
    PROVE  LastAccepted(TypeOf(m[n + 1]), h, m, n + 1)
  <1>1. n + 1 \in 1 .. n + 1
    OBVIOUS
  <1>2. \A j \in n + 1 + 1 .. n + 1 : ~Accepts(h, m[j])
    OBVIOUS
  <1> QED
    BY <1>1, <1>2 DEF LastAccepted

(* Refusing the next pair leaves the last command accepted what it was.     *)
LEMMA LastAcceptedRefuse ==
    ASSUME NEW h, NEW m, NEW n \in Nat, NEW cmd,
           LastAccepted(cmd, h, m, n), ~Accepts(h, m[n + 1])
    PROVE  LastAccepted(cmd, h, m, n + 1)
  <1>1. CASE cmd = "UNKNOWN" /\ \A i \in 1..n : ~Accepts(h, m[i])
    <2>1. \A i \in 1 .. n + 1 : i \in 1..n \/ i = n + 1
      OBVIOUS
    <2> QED
      BY <1>1, <2>1 DEF LastAccepted
  <1>2. ASSUME NEW i \in 1..n, Accepts(h, m[i]), cmd = TypeOf(m[i]),
               \A j \in i + 1 .. n : ~Accepts(h, m[j])
        PROVE  LastAccepted(cmd, h, m, n + 1)
    <2>1. i \in 1 .. n + 1
      OBVIOUS
    <2>2. \A j \in i + 1 .. n + 1 : j \in i + 1 .. n \/ j = n + 1
      OBVIOUS
    <2>3. \A j \in i + 1 .. n + 1 : ~Accepts(h, m[j])
      BY <1>2, <2>2
    <2> QED
      BY <1>2, <2>1, <2>3 DEF LastAccepted
  <1> QED
    BY <1>1, <1>2 DEF LastAccepted

(* A payload parsed to its end asks for the last command accepted.          *)
LEMMA RequestedIsLast ==
    ASSUME NEW h, NEW m, Len(m) \in Nat, NEW cmd,
           LastAccepted(cmd, h, m, Len(m)),
           \A i \in 1..Len(m) : m[i] # "overlong"
    PROVE  Requested(h, m) = cmd
  <1> DEFINE taken == {i \in 1..Len(m) : Accepts(h, m[i])}
  <1>1. CASE cmd = "UNKNOWN" /\ \A i \in 1..Len(m) : ~Accepts(h, m[i])
    BY <1>1 DEF Requested
  <1>2. ASSUME NEW i \in 1..Len(m), Accepts(h, m[i]), cmd = TypeOf(m[i]),
               \A j \in i + 1 .. Len(m) : ~Accepts(h, m[j])
        PROVE  Requested(h, m) = cmd
    <2>1. i \in taken /\ \A j \in taken : j <= i
      BY <1>2
    <2>2. \A k \in taken : (\A j \in taken : j <= k) => k = i
      BY <2>1
    <2>3. (CHOOSE k \in taken : \A j \in taken : j <= k) = i
      <3> HIDE DEF taken
      <3> QED BY <2>1, <2>2
    <2>4. Requested(h, m) = TypeOf(m[CHOOSE k \in taken : \A j \in taken : j <= k])
      BY <2>1 DEF Requested
    <2> QED
      BY <1>2, <2>3, <2>4
  <1> QED
    BY <1>1, <1>2 DEF LastAccepted

-----------------------------------------------------------------------------
(* A lock obeys its own topic only.                                         *)

(* With one handler at a time, a handler that returns leaves none running.  *)
LEMMA ReturnEmpty ==
    ASSUME MaxDepth = 1, TypeOK, calls # <<>>, Return
    PROVE  calls' = <<>>
  <1>1. Len(calls) = 1
    <2>1. Len(calls) \in Nat \ {0}
      BY TopType DEF TypeOK
    <2>2. Len(calls) <= 1
      BY DEF TypeOK
    <2> DEFINE n == Len(calls)
    <2>3. n \in Nat \ {0} /\ n <= 1
      BY <2>1, <2>2
    <2> HIDE DEF n
    <2>4. n = 1
      BY <2>3
    <2> QED
      BY <2>4 DEF n
  <1> QED
    BY <1>1, ReturnType, DropTop DEF Return, TypeOK

(* What a handler does once its payload is parsed never parses again.       *)
LEMMA LeavesParsing ==
    ASSUME TypeOK, calls # <<>>, Top \in Call,
           ExecuteLock \/ ExecuteRefresh \/ UnknownCommand \/ RefreshSend \/ RefreshNext
    PROVE  Top'.pc \in {"last", "refresh", "refreshing"}
<1>1. \E c \in Call : SetTop(c) /\ c.pc \in {"last", "refresh", "refreshing"}
  <2>1. \A pc \in {"last", "refresh"} :
          [Top EXCEPT !.pc = pc] \in Call /\ [Top EXCEPT !.pc = pc].pc = pc
    BY DEF Call
  <2>2. CASE ExecuteLock \/ UnknownCommand
    <3>1. SetTop([Top EXCEPT !.pc = "last"])
      BY <2>2 DEF ExecuteLock, UnknownCommand, GoTo
    <3> QED
      BY <2>1, <3>1
  <2>3. CASE ExecuteRefresh
    <3>1. [Top EXCEPT !.pc = "refresh", !.idx = 0] \in Call
      BY LockFacts DEF Call
    <3>2. [Top EXCEPT !.pc = "refresh", !.idx = 0].pc = "refresh"
      BY DEF Call
    <3> QED
      BY <2>3, <3>1, <3>2 DEF ExecuteRefresh
  <2>4. CASE RefreshSend
    <3>1. PICK o \in Outcome :
            SetTop([Top EXCEPT !.pc = "refreshing", !.ok = o.ok])
      BY <2>4 DEF RefreshSend
    <3>2. [Top EXCEPT !.pc = "refreshing", !.ok = o.ok] \in Call
      BY DEF Call, Outcome
    <3>3. [Top EXCEPT !.pc = "refreshing", !.ok = o.ok].pc = "refreshing"
      BY DEF Call
    <3> QED
      BY <3>1, <3>2, <3>3
  <2>5. CASE RefreshNext
    <3>1. [Top EXCEPT !.pc = "refresh", !.idx = Top.idx + 1] \in Call
      BY <2>5, LockFacts DEF RefreshNext, Call
    <3>2. [Top EXCEPT !.pc = "refresh", !.idx = Top.idx + 1].pc = "refresh"
      BY DEF Call
    <3> QED
      BY <2>5, <3>1, <3>2 DEF RefreshNext
  <2> QED
    BY <2>2, <2>3, <2>4, <2>5
<1> QED
  BY <1>1, SetTopType DEF TypeOK

(* Every step keeps the running handler's command its own.                  *)
LEMMA StepOwn ==
    ASSUME MaxDepth = 1, TypeOK, CommandIsOwn, [Next]_vars
    PROVE  CommandIsOwn'
<1>1. ASSUME NEW h \in Handler, NEW m \in Messages, Deliver(h, m)
      PROVE CommandIsOwn'
  <2> DEFINE c == [h |-> h, msg |-> m, buf |-> m, pos |-> 0,
                   pc |-> "parse", idx |-> 0, ok |-> TRUE]
  <2>1. calls = <<>>
    <3>1. calls # <<>> => Len(calls) >= 1
      BY TopType DEF TypeOK
    <3> QED
      BY <1>1, <3>1 DEF Deliver, Dispatch, CanDispatch
  <2>2. calls' = Append(<<>>, c)
    <3>1. PICK b \in Messages :
            calls' = Append([i \in 1..Len(calls) |-> [calls[i] EXCEPT !.buf = b]], c)
      BY <1>1 DEF Deliver, Dispatch
    <3>2. [i \in 1..Len(calls) |-> [calls[i] EXCEPT !.buf = b]] = <<>>
      BY <2>1
    <3> HIDE DEF c
    <3> QED
      BY <3>1, <3>2
  <2>3. Top' = c /\ calls' # <<>>
    <3>1. c \in Call
      BY LockFacts DEF Call
    <3>2. <<>> \in Seq(Call) /\ Len(<<>>) = 0
      BY EmptySeq
    <3> HIDE DEF c
    <3>3. Len(calls') = 1 /\ calls'[1] = c /\ calls' # <<>>
      BY <2>2, <3>1, <3>2, AppendProperties
    <3> QED
      BY <3>3 DEF Top
  <2>4. command' = "UNKNOWN"
    BY <1>1 DEF Deliver, Dispatch
  <2>5. Len(m) \in Nat
    BY MessagesAssumption
  <2> QED
    BY <2>3, <2>4, <2>5 DEF CommandIsOwn, LastAccepted
<1>2. ASSUME HandlerStep PROVE CommandIsOwn'
  <2> calls # <<>> /\ calls \in Seq(Call)
    BY <1>2 DEF HandlerStep, AcceptItem, RefuseItem, ErrorReturn, ParseFail,
                NoCommand, ExecuteLock, ExecuteRefresh, UnknownCommand, LastReturn,
                RefreshSend, RefreshNext, RefreshDone, InHandler, Parsed, TypeOK
  <2>a. Top \in Call
    BY TopType
  <2>b. Len(Top.msg) \in Nat /\ Top.pos \in Nat
    BY <2>a, MessagesAssumption DEF Call
  <2>1. CASE AcceptItem \/ RefuseItem
    <3> DEFINE n == Top.pos
    <3>1. Top.pc = "parse" /\ n < Len(Top.msg) /\ Item = Top.msg[n + 1]
          /\ Item # "overlong"
      BY <2>1 DEF AcceptItem, RefuseItem, InHandler, HasItem, Item, CommandIsOwn
    <3>2. /\ Top.buf = Top.msg
          /\ \A i \in 1..n : Top.msg[i] # "overlong"
          /\ LastAccepted(command, Top.h, Top.msg, n)
      BY <3>1 DEF CommandIsOwn
    <3>3. /\ Top'.h = Top.h /\ Top'.msg = Top.msg /\ Top'.buf = Top.buf
          /\ Top'.pos = n + 1
      <4>1. CASE AcceptItem
        <5>1. SetTop([Top EXCEPT !.pos = Top.pos + 1])
          BY <4>1 DEF AcceptItem
        <5> QED
          BY <5>1, <2>a DEF SetTop, Top, Call
      <4>2. CASE RefuseItem
        <5>1. SetTop([Top EXCEPT !.pos = Top.pos + 1, !.pc = "error"])
          BY <4>2 DEF RefuseItem
        <5> QED
          BY <5>1, <2>a DEF SetTop, Top, Call
      <4> QED
        BY <2>1, <4>1, <4>2
    <3>4. n + 1 <= Len(Top.msg)
      BY <3>1, <2>b
    <3>5. \A i \in 1 .. n + 1 : Top.msg[i] # "overlong"
      <4>1. \A i \in 1 .. n + 1 : i \in 1..n \/ i = n + 1
        BY <2>b
      <4> QED
        BY <3>1, <3>2, <4>1
    <3>6. LastAccepted(command', Top.h, Top.msg, n + 1)
      <4>1. CASE AcceptItem
        <5>1. Accepts(Top.h, Top.msg[n + 1]) /\ command' = TypeOf(Top.msg[n + 1])
          BY <3>1, <4>1 DEF AcceptItem
        <5> QED
          BY <5>1, <2>b, LastAcceptedAccept
      <4>2. CASE RefuseItem
        <5>1. ~Accepts(Top.h, Top.msg[n + 1]) /\ command' = command
          BY <3>1, <4>2 DEF RefuseItem, device
        <5> QED
          BY <5>1, <3>2, <2>b, LastAcceptedRefuse
      <4> QED
        BY <2>1, <4>1, <4>2
    <3> HIDE DEF n
    <3> QED
      BY <3>2, <3>3, <3>4, <3>5, <3>6 DEF CommandIsOwn
  <2>2. CASE ErrorReturn
    <3>1. SetTop([Top EXCEPT !.pc = "parse"]) /\ command' = command
      BY <2>2 DEF ErrorReturn, GoTo, device
    <3>2. /\ Top'.h = Top.h /\ Top'.msg = Top.msg /\ Top'.buf = Top.buf
          /\ Top'.pos = Top.pos
      BY <3>1, <2>a DEF SetTop, Top, Call
    <3>3. Top.pc = "error"
      BY <2>2 DEF ErrorReturn, InHandler
    <3>4. /\ Top.buf = Top.msg
          /\ Top.pos <= Len(Top.msg)
          /\ \A i \in 1..Top.pos : Top.msg[i] # "overlong"
          /\ LastAccepted(command, Top.h, Top.msg, Top.pos)
      BY <3>3 DEF CommandIsOwn
    <3> QED
      BY <3>1, <3>2, <3>4 DEF CommandIsOwn
  <2>3. CASE ParseFail \/ NoCommand \/ LastReturn \/ RefreshDone
    <3>1. Return
      BY <2>3 DEF ParseFail, NoCommand, LastReturn, RefreshDone
    <3> QED
      BY <3>1, ReturnEmpty DEF CommandIsOwn
  <2>4. CASE ExecuteLock \/ ExecuteRefresh \/ UnknownCommand \/ RefreshSend \/ RefreshNext
    <3>2. Top'.pc \in {"last", "refresh", "refreshing"}
      BY <2>4, <2>a, LeavesParsing
    <3> QED
      BY <3>2 DEF CommandIsOwn
  <2> QED
    BY <1>2, <2>1, <2>2, <2>3, <2>4 DEF HandlerStep
<1>3. CASE MainStep \/ ConnectionLost \/ UNCHANGED vars
  <2>1. calls' = calls /\ command' = command
    BY <1>3 DEF MainStep, MainConnect, MainSubscribe, MainSubscribed, MainRead,
                MainSend, MainSent, MainReset, MainIdle, ConnectionLost, vars, device
  <2> QED
    BY <2>1 DEF CommandIsOwn, Top
<1>4. CASE Restart
  BY <1>4 DEF Restart, CommandIsOwn
<1> QED
  BY <1>1, <1>2, <1>3, <1>4 DEF Next

(* A step that releases a lock is its handler carrying out an unlock.       *)
LEMMA StepOpens ==
    ASSUME TypeOK, CommandIsOwn, [Next]_vars,
           NEW l \in Lock, pin[l], ~pin'[l]
    PROVE  calls # <<>> /\ Top.h = l /\ Requested(l, Top.msg) = "UNLOCK"
<1>1. ExecuteLock
  <2>1. ~(UNCHANGED pin)
    OBVIOUS
  <2>2. CASE Restart
    BY <2>2 DEF Restart
  <2> QED
    BY <2>1, <2>2 DEF Next, Deliver, Dispatch, HandlerStep, AcceptItem, RefuseItem, ErrorReturn,
       ParseFail, NoCommand, ExecuteRefresh, UnknownCommand, LastReturn, RefreshSend,
       RefreshNext, RefreshDone, MainStep, MainConnect, MainSubscribe, MainSubscribed,
       MainRead, MainSend, MainSent, MainReset, MainIdle, ConnectionLost, vars, device
<1>2. calls # <<>> /\ Top.pc = "parse" /\ Top.pos >= Len(Top.buf)
  <2>1. calls # <<>> /\ Top.pc = "parse" /\ ~(Top.pos < Len(Top.buf))
    BY <1>1 DEF ExecuteLock, Parsed, InHandler, HasItem
  <2>2. Top.pos \in Nat /\ Len(Top.buf) \in Nat
    BY <2>1, TopType, MessagesAssumption DEF TypeOK, Call
  <2> QED
    BY <2>1, <2>2
<1>3. Top.h = l /\ command = "UNLOCK"
  BY <1>1 DEF ExecuteLock, CommandLock, TypeOK
<1>4. Len(Top.msg) \in Nat /\ Top.pos \in Nat
  BY <1>2, TopType, MessagesAssumption DEF TypeOK, Call
<1>5. /\ Top.pos = Len(Top.msg)
      /\ \A i \in 1..Top.pos : Top.msg[i] # "overlong"
      /\ LastAccepted(command, Top.h, Top.msg, Top.pos)
  BY <1>2, <1>4 DEF CommandIsOwn
<1> QED
  BY <1>2, <1>3, <1>4, <1>5, RequestedIsLast

(* While a handler parses, the shared command object holds what it has read *)
(* itself, if the client never starts a handler inside a handler.           *)
THEOREM OwnCommand ==
    ASSUME MaxDepth = 1
    PROVE  Spec => []CommandIsOwn
<1>1. Init => TypeOK /\ CommandIsOwn
  BY InitType DEF Init, CommandIsOwn
<1>2. TypeOK /\ CommandIsOwn /\ [Next]_vars => (TypeOK /\ CommandIsOwn)'
  BY StepType, StepOwn
<1> QED
  BY <1>1, <1>2, PTL DEF Spec

(* A machine is released only by an unlock on its own topic, for any number *)
(* of locks, any payloads and any interleaving of the two tasks, if the     *)
(* client never starts a handler inside a handler.                          *)
THEOREM OpensOnOwnRequest ==
    ASSUME MaxDepth = 1
    PROVE  Spec => OpensOnlyOnOwnRequest
<1>1. TypeOK /\ CommandIsOwn /\ [Next]_vars =>
        [\A l \in Lock : pin[l] /\ ~pin'[l] =>
            calls # <<>> /\ Top.h = l /\ Requested(l, Top.msg) = "UNLOCK"]_vars
  BY StepOpens
<1> QED
  BY <1>1, TypeCorrect, OwnCommand, PTL DEF Spec, OpensOnlyOnOwnRequest
-----------------------------------------------------------------------------
(* A connection that is kept has every lock reported.                       *)

(* The locks before the main task's index were reported on this connection, *)
(* and the one at it if its publish succeeded.                              *)
ReportedSoFar ==
    connected =>
        /\ main.pc \in {"read", "send", "sending"} =>
              \A l \in Lock : l < main.idx => l \in reported
        /\ main.pc = "sending" /\ main.ok => main.idx \in reported
        /\ main.pc = "poll" => reported = Lock

(* Nothing is forgotten while a connection lasts: handlers only add.        *)
LEMMA ReportsGrow ==
    ASSUME TypeOK, [Next]_vars, ~MainConnect
    PROVE  reported \subseteq reported'
  BY DEF Next, Deliver, Dispatch, HandlerStep, AcceptItem, RefuseItem, ErrorReturn,
         ParseFail, NoCommand, ExecuteLock, CommandLock, ExecuteRefresh, UnknownCommand,
         LastReturn, RefreshSend, RefreshNext, RefreshDone, PublishStatus, PublishError,
         MainStep, MainSubscribe, MainSubscribed, MainRead, MainSend, MainSent,
         MainReset, MainIdle, ConnectionLost, Restart, vars, broker

(* Every step keeps the count of reported locks true.                       *)
LEMMA StepReported ==
    ASSUME TypeOK, TypeOK', ReportedSoFar, [Next]_vars
    PROVE  ReportedSoFar'
<1> USE DEF link
<1>1. CASE MainConnect
  BY <1>1 DEF MainConnect, ReportedSoFar, TypeOK, MainState
<1>2. CASE MainSubscribe \/ MainReset
  BY <1>2 DEF MainSubscribe, MainReset, ReportedSoFar, TypeOK, MainState
<1>3. CASE MainSubscribed
  <2>1. main'.pc = "subscribe" \/ (main'.pc = "read" /\ main'.idx = 0)
    <3> DEFINE next == main.idx + 1
    <3>1. \/ main' = [main EXCEPT !.pc = "subscribe", !.idx = next]
          \/ main' = [main EXCEPT !.pc = "read", !.idx = 0]
      BY <1>3 DEF MainSubscribed
    <3> HIDE DEF next
    <3> QED
      BY <3>1 DEF TypeOK, MainState
  <2>2. \A l \in Lock : ~(l < 0)
    BY LockCountAssumption DEF Lock
  <2> QED
    BY <2>1, <2>2 DEF ReportedSoFar
<1>4. CASE MainRead
  <2>1. main'.pc = "send" /\ main'.idx = main.idx /\ main.pc = "read"
    BY <1>4 DEF MainRead, TypeOK, MainState
  <2> QED
    BY <1>4, <2>1 DEF MainRead, ReportedSoFar, broker
<1>5. CASE MainSend
  <2>1. PICK o \in Outcome :
          /\ PublishStatus(main.idx, main.val, o)
          /\ main' = [main EXCEPT !.pc = "sending", !.ok = o.ok]
    BY <1>5 DEF MainSend
  <2>2. /\ main.pc = "send" /\ main'.pc = "sending"
        /\ main'.idx = main.idx /\ main'.ok = o.ok
    BY <1>5, <2>1 DEF MainSend, TypeOK, MainState
  <2>3. /\ reported \subseteq reported'
        /\ o.ok => main.idx \in reported'
    BY <2>1 DEF PublishStatus, Outcome
  <2> QED
    BY <1>5, <2>2, <2>3 DEF MainSend, ReportedSoFar
<1>6. CASE MainSent
  <2>1. connected' = connected /\ reported' = reported /\ main.pc = "sending"
    BY <1>6 DEF MainSent, broker
  <2>2. CASE ~main.ok
    <3>1. main'.pc = "reset"
      BY <1>6, <2>2 DEF MainSent, TypeOK, MainState
    <3> QED
      BY <3>1 DEF ReportedSoFar
  <2>3. CASE main.ok /\ main.idx + 1 < LockCount
    <3>1. main'.pc = "read" /\ main'.idx = main.idx + 1
      BY <1>6, <2>3 DEF MainSent, TypeOK, MainState
    <3>2. \A l \in Lock : l < main.idx + 1 => l < main.idx \/ l = main.idx
      BY LockCountAssumption DEF Lock, TypeOK, MainState
    <3> QED
      BY <2>1, <2>3, <3>1, <3>2 DEF ReportedSoFar
  <2>4. CASE main.ok /\ ~(main.idx + 1 < LockCount)
    <3>1. main'.pc = "poll"
      BY <1>6, <2>4 DEF MainSent, TypeOK, MainState
    <3>2. \A l \in Lock : l < main.idx \/ l = main.idx
      BY <2>4, LockCountAssumption DEF Lock, TypeOK, MainState
    <3>3. connected => Lock \subseteq reported
      BY <2>1, <2>4, <3>2 DEF ReportedSoFar
    <3> QED
      BY <2>1, <3>1, <3>3 DEF ReportedSoFar, TypeOK
  <2> QED
    BY <2>2, <2>3, <2>4
<1>7. CASE ConnectionLost \/ Restart
  BY <1>7 DEF ConnectionLost, Restart, ReportedSoFar
<1>8. ASSUME HandlerStep \/ (\E h \in Handler, m \in Messages : Deliver(h, m))
                \/ MainIdle \/ UNCHANGED vars
      PROVE ReportedSoFar'
  <2>1. main' = main /\ connected' = connected
    BY <1>8 DEF Deliver, Dispatch, HandlerStep, AcceptItem, RefuseItem, ErrorReturn,
       ParseFail, NoCommand, ExecuteLock, ExecuteRefresh, UnknownCommand, LastReturn,
       RefreshSend, RefreshNext, RefreshDone, MainIdle, vars
  <2>2. connected => ~MainConnect
    BY DEF MainConnect
  <2>3. connected => reported \subseteq reported'
    BY <2>2, ReportsGrow
  <2>4. reported' \subseteq Lock
    BY DEF TypeOK
  <2> QED
    BY <2>1, <2>3, <2>4 DEF ReportedSoFar
<1> QED
  BY <1>1, <1>2, <1>3, <1>4, <1>5, <1>6, <1>7, <1>8 DEF Next, MainStep

(* The main task keeps a connection only if the state of every lock reached *)
(* the broker on it, for any number of locks, faults and nested handlers.   *)
THEOREM KeptIsReported == Spec => []OnlineMeansReported
<1>1. Init => ReportedSoFar
  BY DEF Init, ReportedSoFar
<1>2. TypeOK /\ ReportedSoFar /\ [Next]_vars => ReportedSoFar'
  BY StepType, StepReported
<1>3. ReportedSoFar => OnlineMeansReported
  BY DEF ReportedSoFar, OnlineMeansReported
<1> QED
  BY <1>1, <1>2, <1>3, TypeCorrect, PTL DEF Spec

-----------------------------------------------------------------------------
(* The controller implements LockService.                                   *)

(* Asked, of any stack of handlers.                                         *)
AskedOf(s) ==
    {<<c.h, Requested(c.h, c.msg) = "LOCK">> :
        c \in {s[i] : i \in {j \in 1..Len(s) :
                  /\ s[j].pc \in {"parse", "error"}
                  /\ s[j].h \in Lock
                  /\ Requested(s[j].h, s[j].msg) # "UNKNOWN"}}}

Pending(c) ==
    /\ c.pc \in {"parse", "error"}
    /\ c.h \in Lock
    /\ Requested(c.h, c.msg) # "UNKNOWN"

(* Without a handler nothing is asked; with one, what its message asks.     *)
LEMMA AskedFacts ==
    /\ AskedOf(<<>>) = {}
    /\ \A s \in Seq(Call) : Len(s) = 1 =>
          AskedOf(s) = IF Pending(s[1])
                       THEN {<<s[1].h, Requested(s[1].h, s[1].msg) = "LOCK">>}
                       ELSE {}
<1>1. AskedOf(<<>>) = {}
  BY DEF AskedOf
<1>2. ASSUME NEW s \in Seq(Call), Len(s) = 1
      PROVE AskedOf(s) = IF Pending(s[1])
                       THEN {<<s[1].h, Requested(s[1].h, s[1].msg) = "LOCK">>}
                       ELSE {}
  <2>1. {s[i] : i \in {j \in 1..Len(s) : Pending(s[j])}} =
           IF Pending(s[1]) THEN {s[1]} ELSE {}
    BY <1>2
  <2>2. AskedOf(s) = {<<c.h, Requested(c.h, c.msg) = "LOCK">> :
                        c \in {s[i] : i \in {j \in 1..Len(s) : Pending(s[j])}}}
    BY DEF AskedOf, Pending
  <2> QED
    BY <2>1, <2>2
<1> QED
  BY <1>1, <1>2

(* A lock's pin follows its variable.                                       *)
PinFollows == pin = locked

(* No step separates them.                                                 *)
LEMMA StepPin ==
    ASSUME TypeOK, PinFollows, [Next]_vars
    PROVE  PinFollows'
<1>1. CASE ExecuteLock
  BY <1>1 DEF ExecuteLock, CommandLock, PinFollows
<1>2. CASE Restart
  BY <1>2 DEF Restart, PinFollows
<1>3. CASE ~ExecuteLock /\ ~Restart
  <2>1. pin' = pin /\ locked' = locked
    BY <1>3 DEF Next, Deliver, Dispatch, HandlerStep, AcceptItem, RefuseItem,
         ErrorReturn, ParseFail, NoCommand, ExecuteRefresh, UnknownCommand, LastReturn,
         RefreshSend, RefreshNext, RefreshDone, MainStep, MainConnect, MainSubscribe,
         MainSubscribed, MainRead, MainSend, MainSent, MainReset, MainIdle,
         ConnectionLost, vars, device
  <2> QED
    BY <2>1 DEF PinFollows
<1> QED
  BY <1>1, <1>2, <1>3

(* What a handler at work asks, and what it did: with one handler at a time,*)
(* the stack before and after a handler's step.                             *)
LEMMA AskedNow ==
    ASSUME MaxDepth = 1, TypeOK
    PROVE  Asked = IF calls # <<>> /\ Pending(Top)
                   THEN {<<Top.h, Requested(Top.h, Top.msg) = "LOCK">>}
                   ELSE {}
<1>1. Asked = AskedOf(calls)
  BY DEF Asked, AskedOf
<1>2. CASE calls = <<>>
  BY <1>1, <1>2, AskedFacts
<1>3. CASE calls # <<>>
  <2>1. Len(calls) = 1
    <3> DEFINE n == Len(calls)
    <3>1. n \in Nat \ {0} /\ n <= 1
      BY <1>3, TopType DEF TypeOK
    <3> HIDE DEF n
    <3>2. n = 1
      BY <3>1
    <3> QED
      BY <3>2 DEF n
  <2>2. Top = calls[1] /\ calls \in Seq(Call)
    BY <2>1 DEF Top, TypeOK
  <2> QED
    BY <1>1, <1>3, <2>1, <2>2, AskedFacts
<1> QED
  BY <1>2, <1>3

(* The same after a step.                                                  *)
LEMMA AskedThen ==
    ASSUME MaxDepth = 1, TypeOK'
    PROVE  Asked' = IF calls' # <<>> /\ Pending(Top')
                    THEN {<<Top'.h, Requested(Top'.h, Top'.msg) = "LOCK">>}
                    ELSE {}
<1>1. Asked' = AskedOf(calls')
  BY DEF Asked, AskedOf
<1>2. CASE calls' = <<>>
  BY <1>1, <1>2, AskedFacts
<1>3. CASE calls' # <<>>
  <2>1. Len(calls') = 1
    <3> DEFINE n == Len(calls')
    <3>1. calls' \in Seq(Call) /\ Len(calls') <= 1
      BY DEF TypeOK
    <3>2. n \in Nat \ {0} /\ n <= 1
      BY <1>3, <3>1, EmptySeq
    <3> HIDE DEF n
    <3>3. n = 1
      BY <3>2
    <3> QED
      BY <3>3 DEF n
  <2>2. Top' = calls'[1] /\ calls' \in Seq(Call)
    BY <2>1 DEF Top, TypeOK
  <2> QED
    BY <1>1, <1>3, <2>1, <2>2, AskedFacts
<1> QED
  BY <1>2, <1>3

(* A lock's handler asks for lock or unlock or for nothing.                 *)
LEMMA LockRequest ==
    ASSUME NEW h \in Lock, NEW m, NEW n \in Nat, NEW cmd, LastAccepted(cmd, h, m, n)
    PROVE  cmd \in {"UNKNOWN", "LOCK", "UNLOCK"}
<1>1. h # App
  BY LockCountAssumption DEF Lock, App
<1> QED
  BY <1>1 DEF LastAccepted, Accepts, TypeOf

(* An overlong pair anywhere makes a message ask for nothing.               *)
LEMMA OverlongAsksNothing ==
    ASSUME NEW h, NEW m, NEW i \in 1..Len(m), m[i] = "overlong"
    PROVE  Requested(h, m) = "UNKNOWN"
  BY DEF Requested

(* A payload that is parsed to its end asks for the command it left.        *)
LEMMA ParsedRequest ==
    ASSUME TypeOK, CommandIsOwn, Parsed
    PROVE  /\ Requested(Top.h, Top.msg) = command
           /\ Top.h \in Lock => command \in {"UNKNOWN", "LOCK", "UNLOCK"}
<1>1. calls # <<>> /\ Top.pc = "parse" /\ ~(Top.pos < Len(Top.buf)) /\ Top \in Call
  BY TopType DEF Parsed, InHandler, HasItem, TypeOK
<1>2. Top.pos \in Nat /\ Len(Top.msg) \in Nat
  BY <1>1, MessagesAssumption DEF Call
<1>3. /\ Top.pos = Len(Top.msg)
      /\ \A i \in 1..Top.pos : Top.msg[i] # "overlong"
      /\ LastAccepted(command, Top.h, Top.msg, Top.pos)
  BY <1>1, <1>2 DEF CommandIsOwn
<1> QED
  BY <1>2, <1>3, RequestedIsLast, LockRequest

(* Every step of the device is one of LockService or leaves its state alone.*)
LEMMA StepServes ==
    ASSUME MaxDepth = 1, TypeOK, TypeOK', CommandIsOwn, PinFollows, [Next]_vars
    PROVE  [Service!Next]_(Service!vars)
<1>1. ASSUME NEW h \in Handler, NEW m \in Messages, Deliver(h, m)
      PROVE  [Service!Next]_(Service!vars)
  <2>1. calls = <<>>
    <3>1. calls # <<>> => Len(calls) >= 1
      BY TopType DEF TypeOK
    <3> QED
      BY <1>1, <3>1 DEF Deliver, Dispatch, CanDispatch
  <2>2. Asked = {} /\ pin' = pin
    BY <1>1, <2>1, AskedNow DEF Deliver, Dispatch
  <2>3. CASE Asked' = {}
    BY <2>2, <2>3 DEF Service!vars
  <2>4. CASE calls' # <<>> /\ Pending(Top')
    <3> DEFINE l == Top'.h
               state == (Requested(Top'.h, Top'.msg) = "LOCK")
    <3>1. Asked' = {<<l, state>>} /\ l \in Lock /\ state \in BOOLEAN
      BY <2>4, AskedThen DEF Pending
    <3> HIDE DEF l, state
    <3>2. Service!Ask(l, state)
      BY <2>2, <3>1 DEF Service!Ask
    <3> QED
      BY <3>1, <3>2 DEF Service!Next
  <2> QED
    BY <2>3, <2>4, AskedThen
<1>2. ASSUME HandlerStep PROVE [Service!Next]_(Service!vars)
  <2>1. calls # <<>> /\ Top \in Call
    BY <1>2, TopType DEF HandlerStep, AcceptItem, RefuseItem, ErrorReturn, ParseFail,
                NoCommand, ExecuteLock, ExecuteRefresh, UnknownCommand, LastReturn,
                RefreshSend, RefreshNext, RefreshDone, InHandler, Parsed, TypeOK
  <2>2. CASE AcceptItem \/ RefuseItem \/ ErrorReturn
    <3>1. /\ Top.pc \in {"parse", "error"}
          /\ calls' # <<>> /\ Top'.pc \in {"parse", "error"}
          /\ Top'.h = Top.h /\ Top'.msg = Top.msg
      <4> DEFINE next == Top.pos + 1
      <4>1. next \in Nat
        BY <2>1 DEF Call
      <4> HIDE DEF next
      <4>2. \E d \in Call : /\ SetTop(d) /\ d.h = Top.h /\ d.msg = Top.msg
                            /\ d.pc \in {"parse", "error"}
        <5>1. CASE AcceptItem
          <6>1. SetTop([Top EXCEPT !.pos = next]) /\ Top.pc = "parse"
            BY <5>1 DEF AcceptItem, InHandler, next
          <6> QED
            BY <2>1, <4>1, <6>1 DEF Call
        <5>2. CASE RefuseItem
          <6>1. SetTop([Top EXCEPT !.pos = next, !.pc = "error"])
            BY <5>2 DEF RefuseItem, next
          <6> DEFINE d == [Top EXCEPT !.pos = next, !.pc = "error"]
          <6>2. d \in Call
            BY <2>1, <4>1 DEF Call
          <6>3. d.h = Top.h /\ d.msg = Top.msg /\ d.pc = "error"
            BY <2>1 DEF Call
          <6> HIDE DEF d
          <6> QED
            BY <6>1, <6>2, <6>3 DEF d
        <5>3. CASE ErrorReturn
          <6>1. SetTop([Top EXCEPT !.pc = "parse"])
            BY <5>3 DEF ErrorReturn, GoTo
          <6> QED
            BY <2>1, <6>1 DEF Call
        <5> QED
          BY <2>2, <5>1, <5>2, <5>3
      <4>3. /\ calls' # <<>> /\ Top'.pc \in {"parse", "error"}
            /\ Top'.h = Top.h /\ Top'.msg = Top.msg
        BY <2>1, <4>2, SetTopType DEF TypeOK
      <4>4. Top.pc \in {"parse", "error"}
        BY <2>2 DEF AcceptItem, RefuseItem, ErrorReturn, InHandler
      <4> QED
        BY <4>3, <4>4
    <3>2. Asked' = Asked
      BY <2>1, <3>1, AskedNow, AskedThen DEF Pending
    <3>3. pin' = pin
      BY <2>2 DEF AcceptItem, RefuseItem, ErrorReturn, device
    <3> QED
      BY <3>2, <3>3 DEF Service!vars
  <2>3. CASE ParseFail \/ NoCommand \/ LastReturn \/ RefreshDone
    <3>1. Return /\ pin' = pin
      BY <2>3 DEF ParseFail, NoCommand, LastReturn, RefreshDone, device
    <3>2. Asked' = {}
      BY <2>1, <3>1, ReturnEmpty, AskedThen
    <3>3. ~Pending(Top)
      <4>1. CASE ParseFail
        <5>1. /\ Top.pc = "parse" /\ Top.pos < Len(Top.buf)
              /\ Top.buf[Top.pos + 1] = "overlong"
          BY <4>1 DEF ParseFail, InHandler, HasItem, Item
        <5>2. Top.buf = Top.msg
          BY <2>1, <5>1 DEF CommandIsOwn
        <5>3. Top.pos + 1 \in 1 .. Len(Top.msg)
          BY <2>1, <5>1, <5>2, MessagesAssumption DEF Call
        <5> QED
          BY <5>1, <5>2, <5>3, OverlongAsksNothing DEF Pending
      <4>2. CASE NoCommand
        BY <4>2, ParsedRequest DEF NoCommand, Pending
      <4>3. CASE LastReturn \/ RefreshDone
        BY <4>3 DEF LastReturn, RefreshDone, InHandler, Pending
      <4> QED
        BY <2>3, <4>1, <4>2, <4>3
    <3> QED
      BY <3>1, <3>2, <3>3, AskedNow DEF Service!vars
  <2>4. CASE ExecuteLock \/ ExecuteRefresh \/ UnknownCommand \/ RefreshSend \/ RefreshNext
    <3>1. Asked' = {}
      <4>1. Top'.pc \in {"last", "refresh", "refreshing"}
        BY <2>1, <2>4, LeavesParsing
      <4> QED
        BY <4>1, AskedThen DEF Pending
    <3>2. CASE ExecuteLock
      <4> DEFINE l == Top.h
                 state == (command = "LOCK")
      <4>1. Parsed /\ l \in Lock /\ command \in {"LOCK", "UNLOCK"}
        BY <3>2 DEF ExecuteLock
      <4>2. Requested(Top.h, Top.msg) = command
        BY <4>1, ParsedRequest
      <4>3. Asked = {<<l, state>>}
        BY <2>1, <4>1, <4>2, AskedNow DEF Pending, Parsed, InHandler
      <4>4. pin' = [pin EXCEPT ![l] = state]
        <5>1. IF locked[l] = state THEN UNCHANGED <<locked, pin>>
              ELSE /\ locked' = [locked EXCEPT ![l] = state]
                   /\ pin' = [pin EXCEPT ![l] = state]
          BY <3>2 DEF ExecuteLock, CommandLock
        <5> HIDE DEF l, state
        <5> QED
          BY <4>1, <5>1 DEF PinFollows, TypeOK
      <4>5. l \in Lock /\ state \in BOOLEAN
        BY <4>1
      <4> HIDE DEF l, state
      <4>6. Service!Obey(l, state)
        BY <3>1, <4>3, <4>4 DEF Service!Obey
      <4> QED
        BY <4>5, <4>6 DEF Service!Next, Service!ObeySome
    <3>3. CASE ExecuteRefresh \/ UnknownCommand \/ RefreshSend \/ RefreshNext
      <4>1. ~Pending(Top)
        <5>1. CASE ExecuteRefresh
          <6>1. Top.h \notin Lock
            BY <5>1, LockCountAssumption DEF ExecuteRefresh, App, Lock
          <6> QED
            BY <6>1 DEF Pending
        <5>2. CASE UnknownCommand
          <6>1. Parsed /\ command # "UNKNOWN"
                /\ (Top.h # App => command = "REFRESH")
            BY <5>2 DEF UnknownCommand
          <6>2. Top.h \in Lock => Top.h # App
            BY LockCountAssumption DEF Lock, App
          <6> QED
            BY <6>1, <6>2, ParsedRequest DEF Pending
        <5>3. CASE RefreshSend \/ RefreshNext
          BY <5>3 DEF RefreshSend, RefreshNext, InHandler, Pending
        <5> QED
          BY <3>3, <5>1, <5>2, <5>3
      <4>2. pin' = pin
        BY <3>3 DEF ExecuteRefresh, UnknownCommand, RefreshSend, RefreshNext, device
      <4> QED
        BY <3>1, <4>1, <4>2, AskedNow DEF Service!vars
    <3> QED
      BY <2>4, <3>2, <3>3
  <2> QED
    BY <1>2, <2>2, <2>3, <2>4 DEF HandlerStep
<1>3. CASE MainStep \/ ConnectionLost \/ UNCHANGED vars
  <2>1. calls' = calls /\ pin' = pin
    BY <1>3 DEF MainStep, MainConnect, MainSubscribe, MainSubscribed, MainRead,
                MainSend, MainSent, MainReset, MainIdle, ConnectionLost, vars, device
  <2>2. Asked' = Asked
    BY <2>1 DEF Asked
  <2> QED
    BY <2>1, <2>2 DEF Service!vars
<1>4. CASE Restart
  <2>1. calls' = <<>> /\ pin' = [l \in Lock |-> TRUE]
    BY <1>4 DEF Restart
  <2>2. Asked' = {}
    BY <2>1, AskedThen
  <2> QED
    BY <2>1, <2>2 DEF Service!Next, Service!Restart
<1> QED
  BY <1>1, <1>2, <1>3, <1>4 DEF Next

(* With handlers that do not nest, outputs follow requests one by one and   *)
(* nothing else, for any number of locks, any payloads, faults and          *)
(* interleaving: the safety part of LockService.                            *)
THEOREM ImplementsService ==
    ASSUME MaxDepth = 1
    PROVE  Spec => Service!Init /\ [][Service!Next]_(Service!vars)
<1>1. Init => Service!Init
  BY DEF Init, Service!Init, Asked
<1>2. Init => PinFollows
  BY DEF Init, PinFollows
<1>3. TypeOK /\ PinFollows /\ [Next]_vars => PinFollows'
  BY StepPin
<1>4. /\ TypeOK /\ TypeOK' /\ CommandIsOwn /\ PinFollows /\ [Next]_vars
      => [Service!Next]_(Service!vars)
  BY StepServes
<1> QED
  BY <1>1, <1>2, <1>3, <1>4, TypeCorrect, OwnCommand, PTL DEF Spec

=============================================================================
