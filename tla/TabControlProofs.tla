-------------------------- MODULE TabControlProofs --------------------------
(***************************************************************************)
(* Theorems about TabControl, for any callers, tabs and numbers: the two   *)
(* tab lists stay sound, and a success that is reported has happened.      *)
(***************************************************************************)
EXTENDS TabControl, FiniteSetTheorems, SequenceTheorems, TLAPS

\* What SendCommand writes for a caller.
CommandOf(c) ==
    LET q == request[c] IN
    [op |-> q.op, id |-> q.id, number |-> q.number,
     fallback |-> IF q.op = "remove" THEN Fallback(q.id) ELSE None]

\* The callers behind #operation and the one whose command is pending are those
\* that wait for an answer, each once.
Chained ==
    /\ \A i \in DOMAIN waiting : waiting[i] \in Asking /\ waiting[i] # current
    /\ \A i, j \in DOMAIN waiting : waiting[i] = waiting[j] => i = j
    /\ current # None => current \in Asking

\* Open requests have numbers of their own, and creations ids of their own.
Asked ==
    \A c \in Asking :
        /\ request[c].op \in Ops /\ request[c].id \in TabIds /\ request[c].number \in Numbers
        /\ \A d \in Asking \ {c} : request[d].number # request[c].number
        /\ request[c].op = "create" =>
              /\ request[c].id \notin Listed
              /\ \A d \in Asking \ {c} :
                    request[d].op = "create" => request[d].id # request[c].id

\* What has been executed in the native runtime.
Performed(q) ==
    /\ q.op \in {"create", "activate"} => native.active = q.id
    /\ q.op = "remove" => q.id \notin native.tabs

\* Only the pending command is in the pipes, of all that an answer is waited for:
\* it is the last that was written, so when its reply is there nothing else can
\* have been executed since.
Piped ==
    \A c \in Asking :
        /\ \A i \in DOMAIN stdin : stdin[i].number = request[c].number =>
              c = current /\ i = Len(stdin)
        /\ \A i \in DOMAIN stdin : stdin[i].number = request[c].number => stdin[i] = CommandOf(c)
        /\ \A i \in DOMAIN stdout : stdout[i].number = request[c].number =>
              c = current /\ stdin = <<>> /\ (stdout[i].ok => Performed(request[c]))

\* The checks before a command still hold when its reply comes.
Admitted ==
    current # None =>
        LET q == request[current] IN
        ~Refuses(q.op, q.id) /\ ~(q.op = "activate" /\ q.id = activeTabId)

ListSound ==
    /\ Len(tabs) \in 1..MaximumTabs
    /\ IsInjective(tabs)
    /\ activeTabId \in Listed

NativeSound ==
    /\ IsFiniteSet(native.tabs) /\ Cardinality(native.tabs) \in 1..MaximumTabs
    /\ native.active \in native.tabs

\* While no command has been given up, the native runtime is where the controller
\* is, or one command ahead.
Same == Listed = native.tabs /\ activeTabId = native.active

Ahead(q) ==
    /\ native.tabs = CASE q.op = "create" -> Listed \union {q.id}
                       [] q.op = "remove" -> Listed \ {q.id}
                       [] OTHER           -> Listed
    /\ native.active = CASE q.op \in {"create", "activate"}       -> q.id
                         [] q.op = "remove" /\ q.id = activeTabId -> Fallback(q.id)
                         [] OTHER                                 -> activeTabId

Together ==
    ~missed =>
        /\ current = None => stdin = <<>> /\ stdout = <<>> /\ Same
        /\ current # None =>
              \/ stdout = <<>> /\ Same /\ (stdin = <<>> \/ stdin = <<CommandOf(current)>>)
              \/ /\ stdin = <<>> /\ Len(stdout) = 1
                 /\ stdout[1].number = request[current].number
                 /\ IF stdout[1].ok THEN Ahead(request[current]) ELSE Same

IInv ==
    /\ TypeOK
    /\ Chained /\ Asked /\ Piped /\ Admitted
    /\ ListSound /\ NativeSound /\ Together

-----------------------------------------------------------------------------
(* Lists                                                                   *)

Elements(s) == {s[i] : i \in DOMAIN s}

LEMMA RemoveAtIs ==
    ASSUME NEW S, NEW s \in Seq(S), NEW i \in 1..Len(s)
    PROVE  /\ RemoveAt(s, i) \in Seq(S) /\ Len(RemoveAt(s, i)) = Len(s) - 1
           /\ \A j \in 1..Len(s) - 1 : RemoveAt(s, i)[j] = s[IF j < i THEN j ELSE j + 1]
<1> DEFINE left == SubSeq(s, 1, i - 1)
           right == SubSeq(s, i + 1, Len(s))
<1>1. left \in Seq(S) /\ Len(left) = i - 1 /\ \A j \in 1..i - 1 : left[j] = s[j]
  OBVIOUS
<1>2. right \in Seq(S) /\ Len(right) = Len(s) - i /\ \A j \in 1..Len(s) - i : right[j] = s[i + j]
  OBVIOUS
<1>3. RemoveAt(s, i) = left \o right
  BY DEF RemoveAt
<1> HIDE DEF left, right
<1>4. /\ left \o right \in Seq(S) /\ Len(left \o right) = Len(left) + Len(right)
      /\ \A j \in 1..Len(left) + Len(right) :
            (left \o right)[j] = IF j <= Len(left) THEN left[j] ELSE right[j - Len(left)]
  BY <1>1, <1>2, ConcatProperties
<1>5. Len(s) \in Nat /\ i \in Nat /\ i >= 1 /\ Len(left) + Len(right) = Len(s) - 1
  BY <1>1, <1>2
<1>6. ASSUME NEW j \in 1..Len(s) - 1
      PROVE  (left \o right)[j] = s[IF j < i THEN j ELSE j + 1]
  <2>1. (left \o right)[j] = IF j <= i - 1 THEN left[j] ELSE right[j - (i - 1)]
    BY <1>1, <1>4, <1>5
  <2>2. CASE j < i
    BY <1>1, <1>5, <2>1, <2>2
  <2>3. CASE ~(j < i)
    <3>1. j - (i - 1) \in 1..Len(s) - i /\ i + (j - (i - 1)) = j + 1
      BY <1>5, <2>3
    <3>2. right[j - (i - 1)] = s[j + 1]
      BY <1>2, <3>1
    <3> QED
      BY <1>5, <2>1, <2>3, <3>2
  <2> QED
    BY <2>2, <2>3
<1> QED
  BY <1>3, <1>4, <1>5, <1>6

\* Map.delete of a key, on the keys in their order.
LEMMA WithoutIs ==
    ASSUME NEW id, tabs \in Seq(TabIds), IsInjective(tabs), id \in Listed
    PROVE  /\ Without(id) \in Seq(TabIds) /\ Len(Without(id)) = Len(tabs) - 1
           /\ IsInjective(Without(id)) /\ Elements(Without(id)) = Listed \ {id}
<1> DEFINE at == CHOOSE i \in DOMAIN tabs : tabs[i] = id
           rest == Without(id)
<1>1. at \in 1..Len(tabs) /\ tabs[at] = id
  BY DEF Listed
<1>2. rest = RemoveAt(tabs, at)
  BY DEF Without
<1> HIDE DEF at, rest
<1>3. /\ rest \in Seq(TabIds) /\ Len(rest) = Len(tabs) - 1
      /\ \A j \in 1..Len(tabs) - 1 : rest[j] = tabs[IF j < at THEN j ELSE j + 1]
  BY <1>1, <1>2, RemoveAtIs
<1>4. DOMAIN rest = 1..Len(tabs) - 1 /\ DOMAIN tabs = 1..Len(tabs) /\ Len(tabs) \in Nat
  BY <1>3
<1>5. ASSUME NEW i \in DOMAIN rest, NEW j \in DOMAIN rest, rest[i] = rest[j] PROVE i = j
  <2> DEFINE old(k) == IF k < at THEN k ELSE k + 1
  <2>1. rest[i] = tabs[old(i)] /\ rest[j] = tabs[old(j)]
    BY <1>3, <1>4
  <2>2. old(i) \in DOMAIN tabs /\ old(j) \in DOMAIN tabs
    BY <1>1, <1>4
  <2>3. old(i) = old(j)
    BY <1>5, <2>1, <2>2 DEF IsInjective
  <2> QED
    BY <1>1, <1>4, <2>3
<1>6. \A j \in DOMAIN rest : rest[j] \in Listed \ {id}
  BY <1>1, <1>3, <1>4 DEF IsInjective, Listed
<1>7. ASSUME NEW x \in Listed \ {id} PROVE x \in Elements(rest)
  <2>1. PICK i \in 1..Len(tabs) : tabs[i] = x
    BY <1>4 DEF Listed
  <2>2. CASE i < at
    <3>1. i \in DOMAIN rest /\ rest[i] = x
      BY <1>1, <1>3, <1>4, <2>1, <2>2
    <3> QED
      BY <3>1 DEF Elements
  <2>3. CASE i > at
    <3>1. i - 1 \in DOMAIN rest /\ ~(i - 1 < at) /\ (i - 1) + 1 = i
      BY <1>1, <1>4, <2>1, <2>3
    <3>2. rest[i - 1] = x
      BY <1>3, <1>4, <2>1, <3>1
    <3> QED
      BY <3>1, <3>2 DEF Elements
  <2> QED
    BY <1>1, <2>1, <2>2, <2>3
<1>8. Elements(rest) = Listed \ {id}
  BY <1>6, <1>7 DEF Elements
<1> QED
  BY <1>3, <1>5, <1>8 DEF rest, IsInjective

LEMMA AppendIs ==
    ASSUME NEW id \in TabIds, tabs \in Seq(TabIds), IsInjective(tabs), id \notin Listed
    PROVE  /\ Append(tabs, id) \in Seq(TabIds) /\ Len(Append(tabs, id)) = Len(tabs) + 1
           /\ IsInjective(Append(tabs, id)) /\ Elements(Append(tabs, id)) = Listed \union {id}
<1> DEFINE more == Append(tabs, id)
<1>1. /\ more \in Seq(TabIds) /\ Len(more) = Len(tabs) + 1 /\ Len(tabs) \in Nat
      /\ DOMAIN tabs = 1..Len(tabs) /\ DOMAIN more = 1..Len(tabs) + 1
      /\ \A i \in 1..Len(tabs) : more[i] = tabs[i]
      /\ more[Len(tabs) + 1] = id
  OBVIOUS
<1> HIDE DEF more
<1>2. IsInjective(more)
  BY <1>1 DEF IsInjective, Listed
<1>3. \A i \in DOMAIN more : more[i] \in Listed \union {id}
  BY <1>1 DEF Listed
<1>4. id \in Elements(more)
  <2>1. Len(tabs) + 1 \in DOMAIN more
    BY <1>1
  <2> QED
    BY <1>1, <2>1 DEF Elements
<1>5. ASSUME NEW x \in Listed PROVE x \in Elements(more)
  <2>1. PICK i \in 1..Len(tabs) : tabs[i] = x
    BY <1>1 DEF Listed
  <2>2. i \in DOMAIN more /\ more[i] = x
    BY <1>1, <2>1
  <2> QED
    BY <2>2 DEF Elements
<1>6. Elements(more) = Listed \union {id}
  BY <1>3, <1>4, <1>5 DEF Elements
<1> QED
  BY <1>1, <1>2, <1>6 DEF more

\* A list without repetitions has as many elements as it is long.
LEMMA ListedCardinality ==
    ASSUME tabs \in Seq(TabIds), IsInjective(tabs)
    PROVE  IsFiniteSet(Listed) /\ Cardinality(Listed) = Len(tabs)
<1>1. Len(tabs) \in Nat /\ DOMAIN tabs = 1..Len(tabs)
  OBVIOUS
<1>2. tabs \in Bijection(1..Len(tabs), Listed)
  BY <1>1 DEF Bijection, Injection, Surjection, IsInjective, Listed
<1>3. ExistsBijection(1..Len(tabs), Listed)
  BY <1>2 DEF ExistsBijection
<1> QED
  BY <1>1, <1>3, FS_CountingElements, FS_NatBijection

-----------------------------------------------------------------------------
(* The initial states                                                      *)

LEMMA InitHolds == Init => IInv
<1> SUFFICES ASSUME Init PROVE IInv
  OBVIOUS
<1>1. /\ tabs = <<InitialTab>> /\ activeTabId = InitialTab
      /\ native.tabs = {InitialTab} /\ native.active = InitialTab
      /\ request = [c \in Callers |-> Idle]
      /\ waiting = <<>> /\ current = None /\ stdin = <<>> /\ stdout = <<>>
      /\ Idle.state = "idle"
  BY DEF Init, Idle
<1>2. Asking = {}
  BY <1>1 DEF Asking
<1>3. Len(tabs) = 1 /\ DOMAIN tabs = {1} /\ Listed = {InitialTab} /\ MaximumTabs \in 1..8
  BY <1>1, MaximumTabsAssumption DEF Listed
<1>4. TypeOK
  <2>1. tabs \in Seq(TabIds) /\ native \in [tabs : SUBSET TabIds, active : TabIds]
    BY <1>1, InitialTabAssumption DEF Init
  <2>2. request \in [Callers -> Requests]
    BY <1>1 DEF Requests, Idle
  <2>3. /\ waiting \in Seq(Callers) /\ stdin \in Seq(Command) /\ stdout \in Seq(Reply)
        /\ current \in Callers \union {None} /\ activeTabId \in TabIds
    BY <1>1, InitialTabAssumption
  <2>4. {running, ended, exited, closing, missed} \subseteq BOOLEAN
    BY DEF Init
  <2> QED
    BY <2>1, <2>2, <2>3, <2>4 DEF TypeOK
<1>5. Chained /\ Asked /\ Piped /\ Admitted
  BY <1>1, <1>2 DEF Chained, Asked, Piped, Admitted
<1>6. ListSound
  BY <1>1, <1>3 DEF ListSound, IsInjective
<1>7. NativeSound
  <2>1. IsFiniteSet({InitialTab}) /\ Cardinality({InitialTab}) = 1
    BY FS_Singleton
  <2> QED
    BY <1>1, <1>3, <2>1 DEF NativeSound
<1>8. Together
  BY <1>1, <1>3 DEF Together, Same
<1> QED
  BY <1>4, <1>5, <1>6, <1>7, <1>8 DEF IInv

-----------------------------------------------------------------------------
(* Requests that are answered                                              *)

Settles(c) == \E v \in Requests : v.state # "asking" /\ request' = [request EXCEPT ![c] = v]

LEMMA AnswersSettle ==
    ASSUME NEW c
    PROVE  Succeed(c) \/ Reject(c) => Settles(c)
<1>1. Idle \in Requests /\ [Idle EXCEPT !.state = "ok"] \in Requests
  BY DEF Requests, Idle
<1>2. Idle.state # "asking" /\ [Idle EXCEPT !.state = "ok"].state # "asking"
  BY DEF Idle
<1> QED
  BY <1>1, <1>2 DEF Settles, Succeed, Reject

LEMMA SettledIs ==
    ASSUME TypeOK, NEW c \in Asking, Settles(c)
    PROVE  /\ request' \in [Callers -> Requests] /\ Asking' = Asking \ {c}
           /\ \A d \in Asking \ {c} : request'[d] = request[d]
BY DEF TypeOK, Asking, Settles

LEMMA SettledAsked ==
    ASSUME TypeOK, Asked, NEW c \in Asking, Settles(c),
           \A d \in Asking \ {c} : request[d].op = "create" => request[d].id \notin Listed'
    PROVE  Asked'
BY SettledIs DEF Asked

\* The pipes have nothing that a caller whose command is not pending waits for.
LEMMA OthersAreNotPiped ==
    ASSUME Piped, NEW c \in Asking, c # current
    PROVE  /\ \A i \in DOMAIN stdin : stdin[i].number # request[c].number
           /\ \A i \in DOMAIN stdout : stdout[i].number # request[c].number
BY DEF Piped

\* Nobody else is waited for once the pending command is settled, whatever of the
\* pipes remains.
LEMMA SettledPiped ==
    ASSUME TypeOK, Piped, NEW c \in Asking, Settles(c), current = c \/ current = None,
           \A i \in DOMAIN stdin' : \E j \in DOMAIN stdin : stdin'[i] = stdin[j],
           \A i \in DOMAIN stdout' : \E j \in DOMAIN stdout : stdout'[i] = stdout[j]
    PROVE  Piped'
<1>1. ASSUME NEW d \in Asking'
      PROVE  /\ \A i \in DOMAIN stdin' : stdin'[i].number # request'[d].number
             /\ \A i \in DOMAIN stdout' : stdout'[i].number # request'[d].number
  <2>1. d \in Asking /\ d # c /\ request'[d] = request[d]
    BY SettledIs
  <2>2. d # current
    BY <2>1, NoTabAssumption DEF Asking
  <2> QED
    BY <2>1, <2>2, OthersAreNotPiped
<1> QED
  BY <1>1 DEF Piped

LEMMA TailIs ==
    ASSUME NEW S, NEW s \in Seq(S), s # <<>>
    PROVE  /\ Head(s) \in S /\ Tail(s) \in Seq(S) /\ 1 \in DOMAIN s /\ Head(s) = s[1]
           /\ Len(Tail(s)) = Len(s) - 1
           /\ \A i \in DOMAIN Tail(s) : i + 1 \in DOMAIN s /\ Tail(s)[i] = s[i + 1]
           /\ \A i \in DOMAIN Tail(s) : \E j \in DOMAIN s : Tail(s)[i] = s[j]
OBVIOUS

\* Of the chain, the first leaves it.
LEMMA ChainTail ==
    ASSUME TypeOK, Chained, waiting # <<>>, waiting' = Tail(waiting)
    PROVE  /\ Operation \in Asking /\ Operation # current /\ waiting' \in Seq(Callers)
           /\ \A i \in DOMAIN waiting' :
                 waiting'[i] \in Asking /\ waiting'[i] # current /\ waiting'[i] # Operation
           /\ \A i, j \in DOMAIN waiting' : waiting'[i] = waiting'[j] => i = j
<1>1. /\ waiting \in Seq(Callers) /\ Len(waiting) \in Nat /\ 1 \in DOMAIN waiting
      /\ Operation = waiting[1] /\ waiting' \in Seq(Callers)
      /\ \A i \in DOMAIN waiting' : i \in Nat \ {0} /\ i + 1 \in DOMAIN waiting
                                      /\ waiting'[i] = waiting[i + 1]
  BY TailIs DEF TypeOK, Operation
<1>2. /\ \A i \in DOMAIN waiting : waiting[i] \in Asking /\ waiting[i] # current
      /\ \A i, j \in DOMAIN waiting : waiting[i] = waiting[j] => i = j
  BY DEF Chained
<1>3. \A i \in DOMAIN waiting' : waiting'[i] # Operation
  BY <1>1, <1>2
<1>4. \A i, j \in DOMAIN waiting' : waiting'[i] = waiting'[j] => i = j
  BY <1>1, <1>2
<1> QED
  BY <1>1, <1>2, <1>3, <1>4

LEMMA SameCommand ==
    ASSUME NEW c, tabs' = tabs, activeTabId' = activeTabId, request'[c] = request[c]
    PROVE  CommandOf(c)' = CommandOf(c)
<1>1. \A id : Without(id)' = Without(id)
  BY DEF Without
<1>2. \A id : Fallback(id)' = Fallback(id)
  BY <1>1 DEF Fallback
<1> QED
  BY <1>2 DEF CommandOf

-----------------------------------------------------------------------------
(* The supervisor                                                          *)

LEMMA AskHolds ==
    ASSUME IInv, NEW c \in Callers, NEW op \in Ops, NEW id \in TabIds, NEW n \in Numbers,
           Ask(c, op, id, n)
    PROVE  IInv'
<1> DEFINE q == [state |-> "asking", op |-> op, id |-> id, number |-> n]
<1>1. /\ TypeOK /\ c \notin Asking /\ FreshNumber(n) /\ (op = "create" => FreshId(id))
      /\ request' = [request EXCEPT ![c] = q] /\ waiting' = Append(waiting, c)
      /\ UNCHANGED <<tabs, activeTabId, current, stdin, stdout, native, running, ended, exited,
                     closing, missed>>
  BY DEF Ask, IInv, controller, pipes, process
<1>2. /\ q \in Requests /\ q.state = "asking" /\ q.op = op /\ q.id = id /\ q.number = n
      /\ request' \in [Callers -> Requests] /\ request'[c] = q
      /\ \A d \in Callers \ {c} : request'[d] = request[d]
  BY <1>1 DEF TypeOK, Requests
<1> HIDE DEF q
<1>3. Asking' = Asking \union {c} /\ Listed' = Listed
  BY <1>1, <1>2 DEF Asking, Listed
<1>4. /\ waiting' \in Seq(Callers)
      /\ \A i \in DOMAIN waiting' : \/ /\ waiting'[i] = c
                                       /\ i = Len(waiting) + 1
                                    \/ /\ i \in DOMAIN waiting
                                       /\ waiting'[i] = waiting[i]
  BY <1>1 DEF TypeOK
<1>5. TypeOK'
  BY <1>1, <1>2, <1>4 DEF TypeOK
<1>6. Chained'
  <2>1. Chained /\ current # c
    BY <1>1, NoTabAssumption DEF IInv, Chained
  <2>2. \A i \in DOMAIN waiting : waiting[i] # c
    BY <1>1, <2>1 DEF Chained
  <2> QED
    BY <1>1, <1>3, <1>4, <2>1, <2>2 DEF Chained
<1>7. Asked'
  <2>1. Asked /\ \A d \in Asking : d \in Callers /\ d # c
    BY <1>1 DEF IInv, Asking
  <2>2. \A d \in Asking : request[d].number # n
    BY <1>1 DEF FreshNumber
  <2>3. op = "create" => id \notin Listed /\ \A d \in Asking : request[d].id # id
    BY <1>1 DEF FreshId, InTabs, Listed
  <2> QED
    BY <1>2, <1>3, <2>1, <2>2, <2>3 DEF Asked
<1>8. Piped'
  <2>1. Piped /\ \A d \in Asking : d \in Callers /\ d # c
    BY <1>1 DEF IInv, Asking
  <2>2. /\ \A i \in DOMAIN stdin : stdin[i].number # n
        /\ \A i \in DOMAIN stdout : stdout[i].number # n
    BY <1>1 DEF FreshNumber
  <2>3. ASSUME NEW d \in Asking
        PROVE  CommandOf(d)' = CommandOf(d) /\ (Performed(request[d]) => Performed(request[d])')
    <3>1. request'[d] = request[d]
      BY <1>2, <2>1
    <3>2. CommandOf(d)' = CommandOf(d)
      BY <1>1, <3>1, SameCommand
    <3>3. Performed(request[d]) => Performed(request[d])'
      BY <1>1, <3>1 DEF Performed
    <3> QED
      BY <3>2, <3>3
  <2> QED
    BY <1>1, <1>2, <1>3, <2>1, <2>2, <2>3 DEF Piped
<1>9. ASSUME current # None
      PROVE  request'[current] = request[current] /\ CommandOf(current)' = CommandOf(current)
  <2>1. current \in Asking /\ current \in Callers /\ current # c
    BY <1>1, <1>9 DEF IInv, Chained, Asking
  <2> QED
    BY <1>1, <1>2, <2>1, SameCommand
<1>10. Admitted'
  BY <1>1, <1>9 DEF IInv, Admitted, Refuses, InTabs
<1>11. ListSound' /\ NativeSound'
  BY <1>1, <1>3 DEF IInv, ListSound, NativeSound
<1>12. Together'
  BY <1>1, <1>3, <1>9 DEF IInv, Together, Same, Ahead, Fallback, Without
<1> QED
  BY <1>5, <1>6, <1>7, <1>8, <1>10, <1>11, <1>12 DEF IInv

LEMMA EndsAtOnceHolds ==
    ASSUME IInv, EndsAtOnce
    PROVE  IInv'
<1>1. /\ TypeOK /\ Chained /\ Asked /\ Piped /\ current = None /\ waiting # <<>>
      /\ waiting' = Tail(waiting)
      /\ UNCHANGED <<tabs, activeTabId, current, stdin, stdout, native, running, ended, exited,
                     closing, missed>>
  BY DEF EndsAtOnce, IInv, controller, pipes, process
<1>2. Operation \in Asking /\ Settles(Operation)
  BY <1>1, ChainTail, AnswersSettle DEF EndsAtOnce
<1>3. TypeOK'
  BY <1>1, <1>2, SettledIs, ChainTail DEF TypeOK
<1>4. Chained'
  BY <1>1, <1>2, SettledIs, ChainTail DEF Chained
<1>5. Asked'
  BY <1>1, <1>2, SettledAsked DEF Asked, Listed
<1>6. Piped'
  BY <1>1, <1>2, SettledPiped
<1> QED
  BY <1>1, <1>3, <1>4, <1>5, <1>6
     DEF IInv, Admitted, ListSound, NativeSound, Together, Same, Listed

LEMMA SendCommandHolds ==
    ASSUME IInv, SendCommand
    PROVE  IInv'
<1>0. PICK c : c = Operation
  OBVIOUS
<1> DEFINE q == request[c]
           cmd == CommandOf(c)
<1>1. /\ TypeOK /\ Chained /\ Asked /\ Piped /\ ListSound
      /\ current = None /\ waiting # <<>> /\ waiting' = Tail(waiting) /\ current' = c
      /\ ~Refuses(q.op, q.id) /\ ~(q.op = "activate" /\ q.id = activeTabId)
      /\ stdin' = Append(stdin, cmd)
      /\ UNCHANGED <<tabs, activeTabId, request, stdout, native, running, ended, exited, closing, missed>>
  BY <1>0 DEF SendCommand, Writes, IInv, controller, process, CommandOf
<1>2. /\ c \in Asking /\ c \in Callers /\ waiting' \in Seq(Callers)
      /\ \A i \in DOMAIN waiting' : waiting'[i] \in Asking /\ waiting'[i] # c
      /\ \A i, j \in DOMAIN waiting' : waiting'[i] = waiting'[j] => i = j
  BY <1>0, <1>1, ChainTail DEF Asking
<1>3. Asking' = Asking /\ Listed' = Listed
  BY <1>1 DEF Asking, Listed
<1>4. q.op \in Ops /\ q.id \in TabIds /\ q.number \in Numbers
  BY <1>1, <1>2 DEF Asked
<1>5. cmd \in Command /\ cmd.number = q.number
  <2>1. q.op = "remove" => Fallback(q.id) \in TabIds
    <3> SUFFICES ASSUME q.op = "remove" PROVE Fallback(q.id) \in TabIds
      OBVIOUS
    <3>1. q.id \in Listed /\ Len(tabs) # 1 /\ tabs \in Seq(TabIds) /\ Len(tabs) \in 1..MaximumTabs
      BY <1>1 DEF Refuses, InTabs, Listed, TypeOK, ListSound
    <3>2. Without(q.id) \in Seq(TabIds) /\ Len(Without(q.id)) = Len(tabs) - 1
      BY <1>1, <3>1, WithoutIs DEF ListSound
    <3>3. Without(q.id) # <<>>
      BY <3>1, <3>2
    <3>4. Head(Without(q.id)) \in TabIds
      BY <3>2, <3>3
    <3> QED
      BY <1>1, <3>4 DEF Fallback, TypeOK
  <2> QED
    BY <1>4, <2>1 DEF CommandOf, Command
<1> HIDE DEF cmd
<1>6. /\ stdin' \in Seq(Command) /\ Len(stdin) \in Nat /\ DOMAIN stdin = 1..Len(stdin)
      /\ DOMAIN stdin' = 1..Len(stdin')
      /\ \A i \in DOMAIN stdin' : \/ /\ i \in DOMAIN stdin
                                     /\ stdin'[i] = stdin[i]
                                  \/ /\ i = Len(stdin')
                                     /\ stdin'[i] = cmd
  BY <1>1, <1>5 DEF TypeOK
<1>7. TypeOK'
  BY <1>1, <1>2, <1>6 DEF TypeOK
<1>8. Chained'
  BY <1>1, <1>2, <1>3 DEF Chained
<1>9. Asked'
  BY <1>1, <1>3 DEF Asked
<1>10. \A d \in Asking : /\ \A i \in DOMAIN stdin : stdin[i].number # request[d].number
                         /\ \A i \in DOMAIN stdout : stdout[i].number # request[d].number
  BY <1>1, OthersAreNotPiped, NoTabAssumption DEF Asking
<1>11. \A d \in Callers : CommandOf(d)' = CommandOf(d)
  BY <1>1, SameCommand
<1>12. Piped'
  <2>1. ASSUME NEW d \in Asking, NEW i \in DOMAIN stdin', stdin'[i].number = request[d].number
        PROVE  d = c /\ i = Len(stdin') /\ stdin'[i] = cmd
    <3>1. i = Len(stdin') /\ stdin'[i] = cmd
      BY <1>6, <1>10, <2>1
    <3>2. d = c
      BY <1>1, <1>2, <1>5, <2>1, <3>1 DEF Asked
    <3> QED
      BY <3>1, <3>2
  <2>2. CommandOf(c)' = cmd
    BY <1>2, <1>11 DEF cmd
  <2> QED
    BY <1>1, <1>3, <1>10, <2>1, <2>2 DEF Piped
<1>13. Admitted'
  BY <1>1 DEF Admitted, Refuses, InTabs
<1>14. ListSound' /\ NativeSound'
  BY <1>1, <1>3 DEF IInv, ListSound, NativeSound
<1>15. Together'
  <2> SUFFICES ASSUME ~missed PROVE Together'
    BY <1>1 DEF Together
  <2>1. stdin = <<>> /\ stdout = <<>> /\ Same
    BY <1>1 DEF IInv, Together
  <2>2. stdin' = <<>> \/ stdin' = <<cmd>>
    BY <1>1, <2>1
  <2>3. CommandOf(current)' = cmd /\ Same' /\ current' # None
    BY <1>1, <1>2, <1>3, <1>11, <2>1, NoTabAssumption DEF cmd, Same
  <2> QED
    BY <1>1, <2>1, <2>2, <2>3 DEF Together
<1> QED
  BY <1>7, <1>8, <1>9, <1>12, <1>13, <1>14, <1>15 DEF IInv

\* Steps that leave the tabs, the requests and the pipes alone.
LEMMA QuietHolds ==
    ASSUME IInv, TypeOK',
           UNCHANGED <<tabs, activeTabId, request, waiting, current, stdin, stdout, native, missed>>
    PROVE  IInv'
<1>1. Asking' = Asking /\ Listed' = Listed /\ \A c : CommandOf(c)' = CommandOf(c)
  BY SameCommand DEF Asking, Listed
<1>2. \A id : Fallback(id)' = Fallback(id)
  BY DEF Fallback, Without
<1>3. Chained' /\ Asked'
  BY <1>1 DEF IInv, Chained, Asked
<1>4. Piped'
  BY <1>1 DEF IInv, Piped, Performed
<1>5. Admitted' /\ ListSound' /\ NativeSound'
  BY <1>1 DEF IInv, Admitted, Refuses, InTabs, ListSound, NativeSound
<1>6. Together'
  BY <1>1, <1>2 DEF IInv, Together, Same, Ahead
<1> QED
  BY <1>3, <1>4, <1>5, <1>6 DEF IInv

\* The pending command is settled, and what remains in the pipes was there.
LEMMA CurrentSettledHolds ==
    ASSUME IInv, current # None, Settles(current), current' = None, waiting' = waiting,
           \A d \in Asking \ {current} : request[d].op = "create" => request[d].id \notin Listed',
           \A i \in DOMAIN stdin' : \E j \in DOMAIN stdin : stdin'[i] = stdin[j],
           \A i \in DOMAIN stdout' : \E j \in DOMAIN stdout : stdout'[i] = stdout[j]
    PROVE  request' \in [Callers -> Requests] /\ Chained' /\ Asked' /\ Piped' /\ Admitted'
<1>1. TypeOK /\ Chained /\ Asked /\ Piped /\ current \in Asking
  BY DEF IInv, Chained
<1>2. PICK c : c = current
  OBVIOUS
<1>3. c \in Asking /\ Settles(c)
  BY <1>1, <1>2
<1>4. /\ request' \in [Callers -> Requests] /\ Asking' = Asking \ {c}
      /\ \A d \in Asking \ {c} : request'[d] = request[d]
  BY <1>1, <1>3, SettledIs
<1>5. Chained'
  <2>1. \A i \in DOMAIN waiting : waiting[i] \in Asking /\ waiting[i] # c
    BY <1>1, <1>2 DEF Chained
  <2>2. \A i \in DOMAIN waiting : waiting[i] # None
    BY <2>1, NoTabAssumption DEF Asking
  <2> QED
    BY <1>1, <1>4, <2>1, <2>2 DEF Chained
<1>6. Asked'
  BY <1>1, <1>2, <1>3, SettledAsked
<1>7. Piped'
  BY <1>1, <1>2, <1>3, SettledPiped
<1> QED
  BY <1>4, <1>5, <1>6, <1>7 DEF Admitted

LEMMA CommandTimeoutHolds ==
    ASSUME IInv, CommandTimeout
    PROVE  IInv'
<1>1. /\ current # None /\ current' = None /\ waiting' = waiting /\ missed' = TRUE
      /\ UNCHANGED <<tabs, activeTabId, stdin, stdout, native, running, ended, exited, closing>>
  BY DEF CommandTimeout, GiveUp, controller, pipes, process
<1>2. Settles(current)
  BY AnswersSettle DEF CommandTimeout, GiveUp
<1>3. Asked /\ Listed' = Listed
  BY <1>1 DEF IInv, Listed
<1>4. request' \in [Callers -> Requests] /\ Chained' /\ Asked' /\ Piped' /\ Admitted'
  <2>1. \A d \in Asking \ {current} : request[d].op = "create" => request[d].id \notin Listed'
    BY <1>3 DEF Asked
  <2> QED
    BY <1>1, <1>2, <2>1, CurrentSettledHolds
<1>5. TypeOK' /\ ListSound' /\ NativeSound' /\ Together'
  BY <1>1, <1>3, <1>4 DEF IInv, TypeOK, ListSound, NativeSound, Together
<1> QED
  BY <1>4, <1>5 DEF IInv

LEMMA FailHolds ==
    ASSUME IInv, Fail
    PROVE  IInv'
<1>1. /\ waiting' = waiting /\ exited' = TRUE /\ closing' = TRUE
      /\ UNCHANGED <<tabs, activeTabId, stdin, stdout, native, running, ended>>
  BY DEF Fail, controller, pipes, process
<1>2. CASE current # None
  <2>1. current' = None /\ missed' = TRUE /\ Settles(current)
    BY <1>2, AnswersSettle DEF Fail
  <2>2. Asked /\ Listed' = Listed
    BY <1>1 DEF IInv, Listed
  <2>3. request' \in [Callers -> Requests] /\ Chained' /\ Asked' /\ Piped' /\ Admitted'
    <3>1. \A d \in Asking \ {current} : request[d].op = "create" => request[d].id \notin Listed'
      BY <2>2 DEF Asked
    <3> QED
      BY <1>1, <1>2, <2>1, <3>1, CurrentSettledHolds
  <2>4. TypeOK' /\ ListSound' /\ NativeSound' /\ Together'
    BY <1>1, <2>1, <2>2, <2>3 DEF IInv, TypeOK, ListSound, NativeSound, Together
  <2> QED
    BY <2>3, <2>4 DEF IInv
<1>3. CASE current = None
  <2>1. UNCHANGED <<request, current, missed>>
    BY <1>3 DEF Fail
  <2>2. TypeOK'
    BY <1>1, <2>1 DEF IInv, TypeOK
  <2> QED
    BY <1>1, <2>1, <2>2, QuietHolds
<1> QED
  BY <1>2, <1>3

LEMMA ShutdownHolds ==
    ASSUME IInv, Shutdown
    PROVE  IInv'
<1>1. /\ closing' = TRUE
      /\ UNCHANGED <<tabs, activeTabId, request, waiting, current, stdin, stdout, native,
                     running, ended, exited, missed>>
  BY DEF Shutdown, controller, pipes, process
<1>2. TypeOK'
  BY <1>1 DEF IInv, TypeOK
<1> QED
  BY <1>1, <1>2, QuietHolds

LEMMA WriteFailsHolds ==
    ASSUME IInv, WriteFails
    PROVE  IInv'
<1>1. /\ ended' = TRUE
      /\ UNCHANGED <<tabs, activeTabId, request, waiting, current, stdin, stdout, native,
                     running, exited, closing, missed>>
  BY DEF WriteFails, controller, pipes
<1>2. TypeOK'
  BY <1>1 DEF IInv, TypeOK
<1> QED
  BY <1>1, <1>2, QuietHolds

\* What the process had not read is lost with it.
LEMMA ProcessEndsHolds ==
    ASSUME IInv, StopNative \/ NativeExits
    PROVE  IInv'
<1>1. /\ running' = FALSE /\ stdin' = <<>>
      /\ UNCHANGED <<tabs, activeTabId, request, waiting, current, stdout, native, ended, exited,
                     closing, missed>>
  BY DEF StopNative, NativeExits, controller
<1>2. Asking' = Asking /\ Listed' = Listed /\ \A c : CommandOf(c)' = CommandOf(c)
  BY <1>1, SameCommand DEF Asking, Listed
<1>3. \A id : Fallback(id)' = Fallback(id)
  BY <1>1 DEF Fallback, Without
<1>4. TypeOK' /\ Chained' /\ Asked'
  <2>1. <<>> \in Seq(Command)
    OBVIOUS
  <2>2. TypeOK'
    BY <1>1, <2>1 DEF IInv, TypeOK
  <2> QED
    BY <1>1, <1>2, <2>2 DEF IInv, Chained, Asked
<1>5. Piped'
  BY <1>1, <1>2 DEF IInv, Piped, Performed
<1>6. Admitted' /\ ListSound' /\ NativeSound'
  BY <1>1, <1>2 DEF IInv, Admitted, Refuses, InTabs, ListSound, NativeSound
<1>7. Together'
  BY <1>1, <1>2, <1>3 DEF IInv, Together, Same, Ahead
<1> QED
  BY <1>4, <1>5, <1>6, <1>7 DEF IInv

-----------------------------------------------------------------------------
(* Replies                                                                 *)

\* What a completed operation makes of the controller's list.
LEMMA CompletedIs ==
    ASSUME NEW q, Complete(q), tabs \in Seq(TabIds), activeTabId \in TabIds, ListSound,
           q.op \in Ops, q.id \in TabIds, ~Refuses(q.op, q.id),
           q.op = "create" => q.id \notin Listed
    PROVE  /\ tabs' \in Seq(TabIds) /\ activeTabId' \in TabIds /\ ListSound'
           /\ Listed' = CASE q.op = "create" -> Listed \union {q.id}
                          [] q.op = "remove" -> Listed \ {q.id}
                          [] OTHER           -> Listed
           /\ activeTabId' = CASE q.op \in {"create", "activate"}       -> q.id
                               [] q.op = "remove" /\ q.id = activeTabId -> Fallback(q.id)
                               [] OTHER                                 -> activeTabId
<1>1. /\ tabs' = IF q.op = "create" THEN Append(tabs, q.id)
                 ELSE IF q.op = "remove" THEN Without(q.id) ELSE tabs
      /\ activeTabId' = CASE q.op \in {"create", "activate"}       -> q.id
                          [] q.op = "remove" /\ q.id = activeTabId -> Fallback(q.id)
                          [] OTHER                                 -> activeTabId
  BY DEF Complete
<1>2. /\ Len(tabs) \in 1..MaximumTabs /\ MaximumTabs \in 1..8 /\ IsInjective(tabs)
      /\ activeTabId \in Listed
  BY MaximumTabsAssumption DEF ListSound
<1>3. Listed' = Elements(tabs')
  BY DEF Listed, Elements
<1>4. CASE q.op = "create"
  <2>1. Len(tabs) < MaximumTabs /\ q.id \notin Listed
    BY <1>2, <1>4 DEF Refuses
  <2>2. tabs' = Append(tabs, q.id) /\ activeTabId' = q.id
    BY <1>1, <1>4
  <2>3. /\ tabs' \in Seq(TabIds) /\ Len(tabs') = Len(tabs) + 1 /\ IsInjective(tabs')
        /\ Listed' = Listed \union {q.id}
    BY <1>2, <1>3, <2>1, <2>2, AppendIs
  <2>4. Len(tabs') \in 1..MaximumTabs
    BY <1>2, <2>1, <2>3
  <2> QED
    BY <1>1, <1>4, <2>2, <2>3, <2>4 DEF ListSound
<1>5. CASE q.op = "remove"
  <2>1. q.id \in Listed /\ Len(tabs) # 1
    BY <1>5 DEF Refuses, InTabs, Listed
  <2>2. tabs' = Without(q.id)
    BY <1>1, <1>5
  <2>3. /\ tabs' \in Seq(TabIds) /\ Len(tabs') = Len(tabs) - 1 /\ IsInjective(tabs')
        /\ Listed' = Listed \ {q.id}
    BY <1>2, <1>3, <2>1, <2>2, WithoutIs
  <2>4. Len(tabs') \in 1..MaximumTabs
    BY <1>2, <2>1, <2>3
  <2>5. activeTabId' \in Listed' /\ activeTabId' \in TabIds
    <3>1. CASE q.id = activeTabId
      <4>1. activeTabId' = Head(tabs')
        BY <1>1, <1>5, <2>2, <3>1 DEF Fallback
      <4>2. 1 \in DOMAIN tabs' /\ Head(tabs') = tabs'[1] /\ tabs'[1] \in TabIds
        BY <2>3, <2>4
      <4> QED
        BY <1>3, <4>1, <4>2 DEF Elements
    <3>2. CASE q.id # activeTabId
      BY <1>1, <1>2, <1>5, <2>3, <3>2
    <3> QED
      BY <3>1, <3>2
  <2>6. Listed' = CASE q.op = "create" -> Listed \union {q.id}
                    [] q.op = "remove" -> Listed \ {q.id}
                    [] OTHER           -> Listed
    BY <1>5, <2>3
  <2> QED
    BY <1>1, <2>3, <2>4, <2>5, <2>6 DEF ListSound
<1>6. CASE q.op \in {"activate", "navigate"}
  <2>1. q.id \in Listed
    BY <1>6 DEF Refuses, InTabs, Listed
  <2>2. tabs' = tabs /\ activeTabId' \in {q.id, activeTabId}
    BY <1>1, <1>6
  <2>3. Listed' = Listed
    BY <2>2 DEF Listed
  <2>4. Listed' = CASE q.op = "create" -> Listed \union {q.id}
                    [] q.op = "remove" -> Listed \ {q.id}
                    [] OTHER           -> Listed
    BY <1>6, <2>3
  <2> QED
    BY <1>1, <1>2, <2>1, <2>2, <2>3, <2>4 DEF ListSound
<1> QED
  BY <1>4, <1>5, <1>6 DEF Ops

\* A reply that nobody waits for any more.
LEMMA DroppedHolds ==
    ASSUME IInv, stdout # <<>>, stdout' = Tail(stdout),
           ~(current # None /\ request[current].number = Head(stdout).number),
           UNCHANGED <<tabs, activeTabId, request, waiting, current, stdin, native, running,
                       ended, exited, closing, missed>>
    PROVE  IInv'
<1>1. Asking' = Asking /\ Listed' = Listed /\ \A c : CommandOf(c)' = CommandOf(c)
  BY SameCommand DEF Asking, Listed
<1>2. /\ stdout' \in Seq(Reply) /\ Head(stdout) = stdout[1]
      /\ \A i \in DOMAIN stdout' : \E j \in DOMAIN stdout : stdout'[i] = stdout[j]
  BY TailIs DEF IInv, TypeOK
<1>3. TypeOK' /\ Chained' /\ Asked'
  BY <1>1, <1>2 DEF IInv, TypeOK, Chained, Asked
<1>4. Piped'
  BY <1>1, <1>2 DEF IInv, Piped, Performed
<1>5. Admitted' /\ ListSound' /\ NativeSound'
  BY <1>1 DEF IInv, Admitted, Refuses, InTabs, ListSound, NativeSound
<1>6. missed
  BY <1>2 DEF IInv, Together
<1> QED
  BY <1>3, <1>4, <1>5, <1>6 DEF IInv, Together

LEMMA HandleLineHolds ==
    ASSUME IInv, HandleLine
    PROVE  IInv'
<1>1. /\ stdout # <<>> /\ stdout' = Tail(stdout)
      /\ UNCHANGED <<stdin, native, running, ended, exited, missed>>
  BY DEF HandleLine, process
<1>2. /\ stdout' \in Seq(Reply) /\ Head(stdout) = stdout[1] /\ 1 \in DOMAIN stdout
      /\ Len(stdout') = Len(stdout) - 1
      /\ \A i \in DOMAIN stdout' : \E j \in DOMAIN stdout : stdout'[i] = stdout[j]
  BY <1>1, TailIs DEF IInv, TypeOK
<1>3. ~missed => stdout' = <<>> \/ current = None
  BY <1>1, <1>2 DEF IInv, Together
<1>4. CASE ~(current # None /\ request[current].number = Head(stdout).number)
  <2>1. UNCHANGED <<tabs, activeTabId, request, waiting, current, closing>>
    BY <1>4 DEF HandleLine, controller
  <2> QED
    BY <1>1, <1>4, <2>1, DroppedHolds
<1>5. CASE current # None /\ request[current].number = Head(stdout).number
  <2>1. current' = None /\ UNCHANGED <<waiting, closing>> /\ Settles(current)
    BY <1>5, AnswersSettle DEF HandleLine, GiveUp
  <2>2. /\ TypeOK /\ Asked /\ Piped /\ ListSound /\ current \in Asking
        /\ request[current].op \in Ops /\ request[current].id \in TabIds
    BY <1>5 DEF IInv, Chained, Asked
  <2>3. CASE Head(stdout).ok
    <3> DEFINE q == request[current]
    <3>1. Complete(q)
      BY <1>5, <2>3 DEF HandleLine
    <3>2. ~Refuses(q.op, q.id) /\ (q.op = "create" => q.id \notin Listed)
      BY <1>5, <2>2 DEF IInv, Admitted, Asked
    <3>3. /\ tabs' \in Seq(TabIds) /\ activeTabId' \in TabIds /\ ListSound'
          /\ Listed' = CASE q.op = "create" -> Listed \union {q.id}
                         [] q.op = "remove" -> Listed \ {q.id}
                         [] OTHER           -> Listed
          /\ activeTabId' = CASE q.op \in {"create", "activate"}       -> q.id
                              [] q.op = "remove" /\ q.id = activeTabId -> Fallback(q.id)
                              [] OTHER                                 -> activeTabId
      <4> HIDE DEF q
      <4>1. tabs \in Seq(TabIds) /\ activeTabId \in TabIds /\ q.op \in Ops /\ q.id \in TabIds
        BY <2>2 DEF TypeOK, q
      <4> QED
        BY <2>2, <3>1, <3>2, <4>1, CompletedIs
    <3>4. \A d \in Asking \ {current} : request[d].op = "create" => request[d].id \notin Listed'
      <4>1. Listed' \in {Listed \union {q.id}, Listed} \/ Listed' = Listed \ {q.id}
        BY <3>3
      <4>2. q.op # "create" => Listed' \subseteq Listed
        BY <3>3
      <4>3. Listed' \subseteq Listed \union {q.id}
        BY <4>1
      <4> QED
        BY <2>2, <4>2, <4>3 DEF Asked
    <3>5. request' \in [Callers -> Requests] /\ Chained' /\ Asked' /\ Piped' /\ Admitted'
      BY <1>1, <1>2, <1>5, <2>1, <3>4, CurrentSettledHolds
    <3>6. TypeOK' /\ NativeSound'
      BY <1>1, <1>2, <2>1, <3>3, <3>5 DEF IInv, TypeOK, NativeSound
    <3>7. Together'
      <4> SUFFICES ASSUME ~missed PROVE Together'
        BY <1>1 DEF Together
      <4>1. stdin = <<>> /\ Ahead(q)
        BY <1>1, <1>2, <1>5, <2>3 DEF IInv, Together
      <4>2. Same'
        BY <1>1, <3>3, <4>1 DEF Same, Ahead
      <4> QED
        BY <1>1, <1>3, <1>5, <2>1, <4>1, <4>2 DEF Together
    <3> QED
      BY <3>3, <3>5, <3>6, <3>7 DEF IInv
  <2>4. CASE ~Head(stdout).ok
    <3>1. tabs' = tabs /\ activeTabId' = activeTabId
      BY <1>5, <2>4 DEF HandleLine, GiveUp, controller
    <3>2. Listed' = Listed
      BY <3>1 DEF Listed
    <3>3. \A d \in Asking \ {current} : request[d].op = "create" => request[d].id \notin Listed'
      BY <2>2, <3>2 DEF Asked
    <3>4. request' \in [Callers -> Requests] /\ Chained' /\ Asked' /\ Piped' /\ Admitted'
      BY <1>1, <1>2, <1>5, <2>1, <3>3, CurrentSettledHolds
    <3>5. TypeOK' /\ ListSound' /\ NativeSound'
      BY <1>1, <1>2, <2>1, <3>1, <3>2, <3>4 DEF IInv, TypeOK, ListSound, NativeSound
    <3>6. Together'
      <4> SUFFICES ASSUME ~missed PROVE Together'
        BY <1>1 DEF Together
      <4>1. stdin = <<>> /\ Same
        BY <1>1, <1>2, <1>5, <2>4 DEF IInv, Together
      <4> QED
        BY <1>1, <1>3, <1>5, <2>1, <3>1, <3>2, <4>1 DEF Together, Same
    <3> QED
      BY <3>4, <3>5, <3>6 DEF IInv
  <2> QED
    BY <2>3, <2>4
<1> QED
  BY <1>4, <1>5

-----------------------------------------------------------------------------
(* The native runtime                                                      *)

\* What an accepted command makes of the tabs of the native runtime.
LEMMA ExecutedIs ==
    ASSUME NEW cmd \in Command, TypeOK, NativeSound, Accepts(cmd), native' = Executed(cmd)
    PROVE  native' \in [tabs : SUBSET TabIds, active : TabIds] /\ NativeSound'
<1>1. /\ cmd.op \in Ops /\ cmd.id \in TabIds /\ native.tabs \subseteq TabIds
      /\ native.active \in native.tabs
      /\ IsFiniteSet(native.tabs) /\ Cardinality(native.tabs) \in 1..MaximumTabs
      /\ MaximumTabs \in 1..8 /\ Cardinality(native.tabs) \in Nat
  BY MaximumTabsAssumption, FS_CardinalityType DEF Command, TypeOK, NativeSound
<1>2. CASE cmd.op = "create"
  <2>1. native' = [tabs |-> native.tabs \union {cmd.id}, active |-> cmd.id]
    BY <1>2 DEF Executed
  <2>2. Cardinality(native.tabs) < MaximumTabs /\ cmd.id \notin native.tabs
    BY <1>2 DEF Accepts
  <2>3. /\ IsFiniteSet(native.tabs \union {cmd.id})
        /\ Cardinality(native.tabs \union {cmd.id}) = Cardinality(native.tabs) + 1
    BY <1>1, <2>2, FS_AddElement
  <2> QED
    BY <1>1, <2>1, <2>2, <2>3 DEF NativeSound
<1>3. CASE cmd.op = "remove"
  <2>1. /\ native'.tabs = native.tabs \ {cmd.id}
        /\ native'.active = IF native.active = cmd.id THEN cmd.fallback ELSE native.active
        /\ native' = [tabs |-> native.tabs \ {cmd.id},
                      active |-> IF native.active = cmd.id THEN cmd.fallback ELSE native.active]
    BY <1>3 DEF Executed
  <2>2. /\ cmd.id \in native.tabs /\ cmd.fallback \in native.tabs \ {cmd.id}
        /\ native.active \in {cmd.id, cmd.fallback}
    BY <1>3 DEF Accepts
  <2>3. native'.active = cmd.fallback /\ native'.active \in native'.tabs
    BY <2>1, <2>2
  <2>4. /\ IsFiniteSet(native.tabs \ {cmd.id})
        /\ Cardinality(native.tabs \ {cmd.id}) = Cardinality(native.tabs) - 1
    BY <1>1, <2>2, FS_RemoveElement
  <2>5. Cardinality(native.tabs \ {cmd.id}) # 0
    BY <2>2, <2>4, FS_EmptySet
  <2> QED
    BY <1>1, <2>1, <2>2, <2>3, <2>4, <2>5 DEF NativeSound
<1>4. CASE cmd.op \in {"activate", "navigate"}
  <2>1. cmd.id \in native.tabs
    BY <1>4 DEF Accepts
  <2>2. /\ native' \in {[native EXCEPT !.active = cmd.id], native}
    BY <1>4 DEF Executed
  <2>3. native'.tabs = native.tabs /\ native'.active \in native.tabs
    BY <1>1, <2>1, <2>2 DEF TypeOK
  <2>4. native' \in [tabs : SUBSET TabIds, active : TabIds]
    BY <1>1, <2>2 DEF TypeOK
  <2> QED
    BY <1>1, <2>3, <2>4 DEF NativeSound
<1> QED
  BY <1>1, <1>2, <1>3, <1>4 DEF Ops

LEMMA HandleCommandHolds ==
    ASSUME IInv, HandleCommand
    PROVE  IInv'
<1>0. PICK cmd : cmd = Head(stdin)
  OBVIOUS
<1>1. /\ TypeOK /\ Piped /\ NativeSound /\ stdin # <<>> /\ stdin' = Tail(stdin)
      /\ UNCHANGED <<tabs, activeTabId, request, waiting, current, running, ended, exited, closing,
                     missed>>
  BY DEF HandleCommand, IInv, controller
<1>2. PICK ok \in BOOLEAN :
        /\ stdout' = Append(stdout, [ok |-> ok, number |-> cmd.number])
        /\ ok => Accepts(cmd) /\ native' = Executed(cmd)
        /\ ~ok => native' = native
  BY <1>0 DEF HandleCommand
<1> DEFINE answer == [ok |-> ok, number |-> cmd.number]
<1>3. /\ cmd \in Command /\ cmd = stdin[1] /\ stdin' \in Seq(Command) /\ 1 \in DOMAIN stdin
      /\ Len(stdin') = Len(stdin) - 1 /\ Len(stdin) \in Nat
      /\ \A i \in DOMAIN stdin' : i + 1 \in DOMAIN stdin /\ stdin'[i] = stdin[i + 1]
  <2>1. stdin \in Seq(Command)
    BY <1>1 DEF TypeOK
  <2> QED
    BY <1>0, <1>1, <2>1, TailIs
<1>4. answer \in Reply /\ answer.ok = ok /\ answer.number = cmd.number
  BY <1>3 DEF Command, Reply
<1> HIDE DEF answer
<1>5. stdout' = Append(stdout, answer)
  BY <1>2 DEF answer
<1>6. /\ stdout' \in Seq(Reply)
      /\ \A i \in DOMAIN stdout' : \/ /\ i \in DOMAIN stdout
                                      /\ stdout'[i] = stdout[i]
                                   \/ stdout'[i] = answer
  BY <1>1, <1>4, <1>5 DEF TypeOK
<1>7. Asking' = Asking /\ Listed' = Listed /\ \A c : CommandOf(c)' = CommandOf(c)
  BY <1>1, SameCommand DEF Asking, Listed
<1>8. native' \in [tabs : SUBSET TabIds, active : TabIds] /\ NativeSound'
  <2>1. CASE ok
    BY <1>1, <1>2, <1>3, <2>1, ExecutedIs
  <2>2. CASE ~ok
    BY <1>1, <1>2, <2>2 DEF TypeOK, NativeSound
  <2> QED
    BY <2>1, <2>2
<1>9. TypeOK'
  BY <1>1, <1>3, <1>6, <1>8 DEF TypeOK
<1>10. Chained' /\ Asked' /\ Admitted' /\ ListSound'
  BY <1>1, <1>7 DEF IInv, Chained, Asked, Admitted, Refuses, InTabs, ListSound
<1>11. Piped'
  <2> SUFFICES ASSUME NEW c \in Asking
               PROVE  /\ \A i \in DOMAIN stdin' : stdin'[i].number = request[c].number =>
                            c = current /\ i = Len(stdin')
                      /\ \A i \in DOMAIN stdin' : stdin'[i].number = request[c].number =>
                            stdin'[i] = CommandOf(c)
                      /\ \A i \in DOMAIN stdout' : stdout'[i].number = request[c].number =>
                            /\ c = current /\ stdin' = <<>>
                            /\ stdout'[i].ok => Performed(request[c])'
    BY <1>1, <1>7 DEF Piped, Performed
  <2>1. ASSUME NEW i \in DOMAIN stdin', stdin'[i].number = request[c].number
        PROVE  c = current /\ i = Len(stdin') /\ stdin'[i] = CommandOf(c)
    <3>1. i + 1 = Len(stdin) /\ c = current /\ stdin[i + 1] = CommandOf(c)
      BY <1>1, <1>3, <2>1 DEF Piped
    <3> QED
      BY <1>3, <2>1, <3>1
  <2>2. ASSUME NEW i \in DOMAIN stdout', stdout'[i].number = request[c].number
        PROVE  c = current /\ stdin' = <<>> /\ (stdout'[i].ok => Performed(request[c])')
    <3>1. stdout'[i] = answer
      BY <1>1, <1>6, <2>2 DEF Piped
    <3>2. cmd.number = request[c].number
      BY <1>4, <2>2, <3>1
    <3>3. c = current /\ Len(stdin) = 1 /\ cmd = CommandOf(c)
      BY <1>1, <1>3, <3>2 DEF Piped
    <3>4. stdin' = <<>>
      BY <1>3, <3>3
    <3>5. cmd.op = request[c].op /\ cmd.id = request[c].id
      BY <3>3 DEF CommandOf
    <3>6. ok => Performed(request[c])'
      <4>1. ok => /\ cmd.op \in {"create", "activate"} => native'.active = cmd.id
                  /\ cmd.op = "remove" => cmd.id \notin native'.tabs
        BY <1>1, <1>2 DEF TypeOK, Executed
      <4> QED
        BY <1>1, <3>5, <4>1 DEF Performed
    <3> QED
      BY <1>4, <3>1, <3>3, <3>4, <3>6
  <2> QED
    BY <2>1, <2>2
<1>12. Together'
  <2> SUFFICES ASSUME ~missed PROVE Together'
    BY <1>1 DEF Together
  <2>1. current # None /\ stdout = <<>> /\ Same /\ stdin = <<CommandOf(current)>>
    BY <1>1 DEF IInv, Together
  <2>2. cmd = CommandOf(current) /\ stdin' = <<>>
    BY <1>3, <2>1
  <2>3. Len(stdout') = 1 /\ stdout'[1] = answer
    BY <1>5, <2>1
  <2>4. /\ cmd.op = request[current].op /\ cmd.id = request[current].id
        /\ cmd.number = request[current].number
        /\ cmd.op = "remove" => cmd.fallback = Fallback(cmd.id)
    BY <2>2 DEF CommandOf
  <2>5. ok => Ahead(request[current])'
    <3> SUFFICES ASSUME ok PROVE Ahead(request[current])'
      OBVIOUS
    <3> DEFINE q == request[current]
    <3>1. native' = Executed(cmd) /\ q.op \in Ops
      BY <1>2, <1>3, <2>4 DEF Command
    <3>2. native'.tabs = CASE q.op = "create" -> Listed \union {q.id}
                           [] q.op = "remove" -> Listed \ {q.id}
                           [] OTHER           -> Listed
      BY <1>1, <2>1, <2>4, <3>1 DEF Executed, Same, TypeOK, Ops
    <3>3. native'.active = CASE q.op \in {"create", "activate"}       -> q.id
                             [] q.op = "remove" /\ q.id = activeTabId -> Fallback(q.id)
                             [] OTHER                                 -> activeTabId
      BY <1>1, <2>1, <2>4, <3>1 DEF Executed, Same, TypeOK, Ops
    <3>4. \A id : Fallback(id)' = Fallback(id)
      BY <1>1 DEF Fallback, Without
    <3> QED
      BY <1>1, <1>7, <3>2, <3>3, <3>4 DEF Ahead
  <2>6. ~ok => Same'
    BY <1>1, <1>2, <1>7, <2>1 DEF Same
  <2> QED
    BY <1>1, <1>4, <2>1, <2>2, <2>3, <2>4, <2>5, <2>6 DEF Together
<1> QED
  BY <1>8, <1>9, <1>10, <1>11, <1>12 DEF IInv

-----------------------------------------------------------------------------
(* The theorems                                                            *)

LEMMA StepHolds ==
    ASSUME IInv, [Next]_vars
    PROVE  IInv'
<1>1. ASSUME NEW c \in Callers, NEW op \in Ops, NEW id \in TabIds, NEW n \in Numbers,
             Ask(c, op, id, n)
      PROVE  IInv'
  BY <1>1, AskHolds
<1>2. CASE Supervisor
  BY <1>2, EndsAtOnceHolds, SendCommandHolds, WriteFailsHolds, HandleLineHolds,
     CommandTimeoutHolds, FailHolds, ProcessEndsHolds DEF Supervisor
<1>3. CASE Shutdown
  BY <1>3, ShutdownHolds
<1>4. CASE HandleCommand
  BY <1>4, HandleCommandHolds
<1>5. CASE NativeExits
  BY <1>5, ProcessEndsHolds
<1>6. CASE UNCHANGED vars
  <2>1. UNCHANGED <<tabs, activeTabId, request, waiting, current, stdin, stdout, native, running,
                    ended, exited, closing, missed>>
    BY <1>6 DEF vars, controller, pipes, process
  <2>2. TypeOK'
    BY <2>1 DEF IInv, TypeOK
  <2> QED
    BY <2>1, <2>2, QuietHolds
<1> QED
  BY <1>1, <1>2, <1>3, <1>4, <1>5, <1>6 DEF Next

\* The inductive invariant holds in every state of every execution.
THEOREM IInvariance == Spec => []IInv
BY InitHolds, StepHolds, PTL DEF Spec

\* The state keeps the types of the two programs' variables and of the protocol.
THEOREM TypeCorrect == Spec => []TypeOK
<1>1. IInv => TypeOK
  BY DEF IInv
<1> QED
  BY <1>1, IInvariance, PTL

\* The tab lists of the controller and of the native runtime keep their bounds
\* and an active tab of their own, whatever commands are given up, rejected or
\* executed late, and are the same while none was given up.
THEOREM TabsStaySound == Spec => []TabsAreSound
<1>1. ASSUME IInv PROVE TabsAreSound
  <2>1. TypeOK /\ ListSound /\ NativeSound /\ Together
    BY <1>1 DEF IInv
  <2>2. Cardinality(Listed) = Len(tabs)
    BY <2>1, ListedCardinality DEF TypeOK, ListSound
  <2>3. OneToMaximumTabs
    BY <2>1, <2>2 DEF OneToMaximumTabs, ListSound, NativeSound
  <2>4. SameTabs
    BY <2>1 DEF SameTabs, Together, Same
  <2> QED
    BY <2>3, <2>4 DEF TabsAreSound
<1> QED
  BY <1>1, IInvariance, PTL

LEMMA SuccessIsPerformed ==
    ASSUME IInv, [Next]_vars, NEW c \in Callers, AnsweredOk(c)
    PROVE  \/ Performed(request[c])
           \/ request[c].op = "activate" /\ request[c].id = activeTabId
<1>1. /\ TypeOK /\ c \in Asking /\ request[c].state = "asking" /\ request'[c].state = "ok"
      /\ request \in [Callers -> Requests]
  BY DEF AnsweredOk, IInv, TypeOK, Asking
<1>2. \A d : Reject(d) => request'[c] = request[c] \/ request'[c].state = "idle"
  BY <1>1 DEF Reject, Idle
<1>3. \A d : Succeed(d) => request'[c] = request[c] \/ d = c
  BY <1>1 DEF Succeed
<1>4. request' # request /\ request'[c] # request[c]
  BY <1>1
<1>5. \A d : ~Reject(d)
  BY <1>1, <1>2, <1>4
<1>6. ASSUME NEW d \in Callers, NEW op \in Ops, NEW id \in TabIds, NEW n \in Numbers,
             Ask(d, op, id, n)
      PROVE  FALSE
  <2>1. request' = [request EXCEPT ![d] =
                       [state |-> "asking", op |-> op, id |-> id, number |-> n]]
    BY <1>6 DEF Ask
  <2> QED
    BY <1>1, <2>1
<1>7. CASE EndsAtOnce
  <2>1. /\ request[Operation].op = "activate" /\ request[Operation].id = activeTabId
        /\ Succeed(Operation)
    BY <1>5, <1>7 DEF EndsAtOnce
  <2> QED
    BY <1>3, <1>4, <2>1
<1>8. CASE HandleLine
  <2>1. /\ current # None /\ request[current].number = Head(stdout).number /\ Head(stdout).ok
        /\ Succeed(current) /\ stdout # <<>>
    BY <1>4, <1>5, <1>8 DEF HandleLine, GiveUp
  <2>2. c = current
    BY <1>3, <1>4, <2>1
  <2>3. Head(stdout) = stdout[1] /\ 1 \in DOMAIN stdout
    BY <1>1, <2>1, TailIs DEF TypeOK
  <2> QED
    BY <1>1, <2>1, <2>2, <2>3 DEF IInv, Piped
<1>9. CASE CommandTimeout \/ (Fail /\ current # None)
  BY <1>5, <1>9 DEF CommandTimeout, GiveUp, Fail
<1>10. CASE UNCHANGED request
  BY <1>4, <1>10
<1> QED
  BY <1>6, <1>7, <1>8, <1>9, <1>10
     DEF Next, Supervisor, SendCommand, WriteFails, Fail, StopNative, Shutdown, HandleCommand,
         NativeExits, vars

\* A creation, a removal and the activation of another tab than activeTabId, when
\* they are answered with success, have been executed by the native runtime, and
\* nothing has been executed since: a late reply is never taken for another command's.
THEOREM SuccessIsHonest == Spec => SuccessIsReal
<1>1. ASSUME IInv, [Next]_vars
      PROVE  \A c \in Callers : AnsweredOk(c) =>
                /\ \/ request[c].op = "create"
                   \/ request[c].op = "activate" /\ request[c].id # activeTabId
                   => native.active = request[c].id
                /\ request[c].op = "remove" => request[c].id \notin native.tabs
  BY <1>1, SuccessIsPerformed DEF Performed
<1> QED
  BY <1>1, IInvariance, PTL DEF Spec, SuccessIsReal
=============================================================================
