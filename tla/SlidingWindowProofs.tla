------------------------ MODULE SlidingWindowProofs ------------------------
(***************************************************************************)
(* Theorems about SlidingWindow, for any callers, limit, period, lifetime  *)
(* and timeouts: type correctness, the bound on concurrent calls of        *)
(* acquire(), that a refusal has its cause, and that the EXPIRE of the key *)
(* forgets no call but in one race.                                        *)
(***************************************************************************)
EXTENDS SlidingWindow, FiniteSetTheorems, TLAPS

Adding == {c \in Callers : doing[c] = "adding"}

(* Who adds itself has found room, and the room is used up by who adds     *)
(* itself.                                                                 *)
Room == Cardinality(window) + Cardinality(Adding)
          <= Limit - 1 + Cardinality(Callers)

(* The set holds what was added to it, and the recent times all.           *)
Faithful == Recent \subseteq window /\ window \subseteq admitted

(* The key outlives what it holds, but for what has no EXPIRE yet. *)
Outlives ==
  dies # Never =>
    \A s \in window : \/ dies > s + Period
                      \/ \E c \in Callers : doing[c] = "renewing" /\ asked[c] = s

(* A key without members has no EXPIRE, and an EXPIRE outlasts the period  *)
(* of each call that was let through.                                      *)
Keyless == window = {} => dies = Never

Late == dies # Never => \A k \in passed : k.at + Lifetime <= dies

Fresh == \A k \in passed : k.at > now - Period

(* A call asks after the one before it has returned.  While that one is    *)
(* recent, what the call added is still there.                             *)
Turns ==
  \A c \in Callers : doing[c] \in {"counting", "adding", "renewing"} =>
    \A k \in passed : k.caller = c =>
      k.at <= asked[c] /\ (doing[c] = "renewing" => asked[c] \in window)

After(k, m) == k.at <= m.asked /\ m.asked \in window

Apart ==
  \A k, m \in passed : k.caller = m.caller => k = m \/ After(k, m) \/ After(m, k)

History == Keyless /\ Late /\ Fresh /\ Turns /\ Apart

IInv == TypeOK /\ Room /\ Faithful /\ Outlives /\ History

-----------------------------------------------------------------------------
(* The sets whose elements are counted are finite. *)
LEMMA Finite ==
  ASSUME ConstantsOK, TypeOK
  PROVE  /\ IsFiniteSet(window) /\ Cardinality(window) \in Nat
         /\ IsFiniteSet(admitted)
         /\ IsFiniteSet(Adding) /\ Cardinality(Adding) \in Nat
         /\ Cardinality(Adding) <= Cardinality(Callers)
         /\ Cardinality(Callers) \in Nat
<1>1. IsFiniteSet(0..now)
  BY FS_Interval DEF TypeOK
<1>2. IsFiniteSet(window) /\ IsFiniteSet(admitted)
  BY <1>1, FS_Subset DEF TypeOK
<1>3. IsFiniteSet(Callers) /\ Adding \in SUBSET Callers
  BY DEF ConstantsOK, Adding
<1>4. IsFiniteSet(Adding) /\ Cardinality(Adding) <= Cardinality(Callers)
  BY <1>3, FS_Subset
<1> QED BY <1>2, <1>3, <1>4, FS_CardinalityType

(* A nap ends at a time. *)
LEMMA NapType ==
  ASSUME ConstantsOK, TypeOK, NEW c \in Callers
  PROVE  NapEnd(c) \in Nat
<1>1. Period \in Nat /\ Limit \in Nat \ {0} /\ now \in Nat /\ started[c] \in Nat
  BY DEF ConstantsOK, TypeOK
<1>2. ASSUME NEW a \in Nat, NEW b \in Nat \ {0} PROVE a \div b \in Nat
  OBVIOUS
<1>3. Period + Limit - 1 \in Nat
  BY <1>1
<1>4. (Period + Limit - 1) \div Limit \in Nat
  BY <1>1, <1>2, <1>3
<1>5. Timeout[c] # Never => Timeout[c] \in Nat
  BY DEF ConstantsOK
<1> QED BY <1>1, <1>4, <1>5 DEF NapEnd

LEMMA InitIInv == ASSUME ConstantsOK, Init PROVE IInv
<1>1. TypeOK
  BY DEF ConstantsOK, Init, TypeOK, Places
<1>2. Room
  <2>1. Adding = {} /\ window = {}
    BY DEF Init, Adding
  <2>2. Cardinality({}) = 0
    BY FS_EmptySet
  <2>3. Cardinality(Callers) \in Nat /\ Limit \in Nat \ {0}
    BY <1>1, Finite DEF ConstantsOK
  <2> QED BY <2>1, <2>2, <2>3 DEF Room
<1>3. Faithful
  BY DEF Init, Faithful, Recent
<1>4. Outlives
  BY DEF Init, Outlives
<1>5. History
  BY DEF Init, History, Keyless, Late, Fresh, Turns, Apart
<1> QED BY <1>1, <1>2, <1>3, <1>4, <1>5 DEF IInv

-----------------------------------------------------------------------------
LEMMA NextTypeOK == ASSUME ConstantsOK, TypeOK, [Next]_vars PROVE TypeOK'
<1> USE DEF TypeOK, Places, Calls
<1>1. ASSUME NEW c \in Callers, Ask(c) PROVE TypeOK'
  BY <1>1 DEF Ask
<1>2. ASSUME NEW c \in Callers, Count(c) PROVE TypeOK'
  BY <1>2 DEF Count, InWindow, KeyStays
<1>3. ASSUME NEW c \in Callers, GiveUp(c) PROVE TypeOK'
  BY <1>3 DEF GiveUp, RefusedWindow, InWindow, KeyStays
<1>4. ASSUME NEW c \in Callers, Nap(c) PROVE TypeOK'
  BY <1>4, NapType DEF Nap, RefusedWindow, InWindow, KeyStays
<1>5. ASSUME NEW c \in Callers, Add(c) PROVE TypeOK'
  BY <1>5 DEF Add
<1>6. ASSUME NEW c \in Callers, Renew(c) PROVE TypeOK'
  BY <1>6 DEF Renew, ConstantsOK
<1>7. CASE Expire \/ Reset
  BY <1>7 DEF Expire, Reset
<1>8. CASE Tick
  BY <1>8 DEF Tick
<1>9. CASE UNCHANGED vars
  BY <1>9 DEF vars
<1> QED BY <1>1, <1>2, <1>3, <1>4, <1>5, <1>6, <1>7, <1>8, <1>9 DEF Next

(* A trimmed set is no larger, and has lost nothing recent. *)
LEMMA Trim ==
  ASSUME ConstantsOK, IInv, NEW c \in Callers, window' = InWindow(c), TypeOK',
         UNCHANGED <<now, asked, admitted>>
  PROVE  /\ Cardinality(window') <= Cardinality(window)
         /\ window' \subseteq window
         /\ Faithful'
<1>1. window' \in SUBSET window
  BY DEF InWindow
<1>2. Cardinality(window') <= Cardinality(window)
  BY <1>1, Finite, FS_Subset DEF IInv
<1>3. asked[c] <= now /\ asked[c] \in Nat /\ now \in Nat /\ Period \in Nat
  BY DEF IInv, TypeOK, ConstantsOK
<1>4. \A s \in window : s \in Nat
  BY DEF IInv, TypeOK
<1>5. Recent' \subseteq window'
  BY <1>3, <1>4 DEF IInv, Faithful, Recent, InWindow
<1> QED BY <1>1, <1>2, <1>5 DEF IInv, Faithful

(* ... and a key that outlived its content still does, as long as nobody   *)
(* is through with its EXPIRE.                                             *)
LEMMA TrimOutlives ==
  ASSUME Outlives, window' \subseteq window, KeyStays, UNCHANGED asked,
         \A c \in Callers : doing[c] = "renewing" => doing'[c] = "renewing"
  PROVE  Outlives'
<1>1. dies' # Never => dies' = dies
  BY DEF KeyStays
<1> QED BY <1>1 DEF Outlives

(* Trimming takes nothing away that the history of the calls speaks of: a  *)
(* call that asked after a recent one had returned is recent.              *)
LEMMA TrimHistory ==
  ASSUME ConstantsOK, IInv, NEW c \in Callers, window' = InWindow(c), KeyStays,
         UNCHANGED <<now, asked, passed>>,
         \A k \in Callers : doing'[k] \in {"counting", "adding", "renewing"}
                            => /\ doing[k] \in {"counting", "adding", "renewing"}
                               /\ doing'[k] = "renewing" => doing[k] = "renewing"
  PROVE  History'
<1>1. /\ asked \in [Callers -> 0..now] /\ now \in Nat /\ Period \in Nat \ {0}
      /\ passed \subseteq Calls
      /\ Keyless /\ Late /\ Fresh /\ Turns /\ Apart
  BY DEF IInv, TypeOK, ConstantsOK, History
<1>2. Keyless' /\ Late' /\ Fresh'
  BY <1>1 DEF KeyStays, Keyless, Late, Fresh
<1>3. ASSUME NEW k \in passed, NEW s \in window, s \in Int, k.at <= s PROVE s \in window'
  <2>1. k.at \in Int /\ asked[c] \in Int /\ asked[c] <= now /\ k.at > now - Period
    BY <1>1 DEF Calls, Fresh
  <2>2. s > asked[c] - Period
    BY <1>1, <1>3, <2>1
  <2> QED BY <1>3, <2>2 DEF InWindow
<1>4. \A d \in Callers : asked[d] \in Int
  BY <1>1
<1>5. \A k \in passed : k.asked \in Int
  BY <1>1 DEF Calls
<1>6. Turns'
  BY <1>1, <1>3, <1>4 DEF Turns
<1>7. Apart'
  BY <1>1, <1>3, <1>5 DEF Apart, After
<1> QED BY <1>2, <1>6, <1>7 DEF History

(* The steps of a caller but its return, and of the clock and the key. *)
LEMMA NextHistory ==
  ASSUME ConstantsOK, IInv, [Next]_vars
  PROVE  History'
<1>1. /\ doing \in [Callers -> Places]
      /\ asked \in [Callers -> 0..now] /\ now \in Nat /\ Period \in Nat \ {0}
      /\ Lifetime \in Nat /\ Lifetime > Period /\ Never \notin Nat
      /\ dies \in Nat \cup {Never}
      /\ passed \subseteq Calls
      /\ Keyless /\ Late /\ Fresh /\ Turns /\ Apart
  BY DEF IInv, TypeOK, ConstantsOK, History
<1>2. \A k \in passed : k.at \in Nat /\ k.at <= now /\ k.asked \in Nat
  BY <1>1 DEF Calls
<1>3. ASSUME NEW c \in Callers, Ask(c) PROVE History'
  <2>1. Keyless' /\ Late' /\ Fresh' /\ Apart'
    BY <1>1, <1>3 DEF Ask, Keyless, Late, Fresh, Apart, After
  <2>2. /\ doing'[c] = "counting" /\ asked'[c] = now
        /\ \A d \in Callers \ {c} : doing'[d] = doing[d] /\ asked'[d] = asked[d]
        /\ UNCHANGED <<window, passed>>
    BY <1>1, <1>3 DEF Ask
  <2>3. Turns'
    BY <1>1, <1>2, <2>2 DEF Turns
  <2> QED BY <2>1, <2>3 DEF History
<1>4. ASSUME NEW c \in Callers, Count(c) \/ GiveUp(c) \/ Nap(c) PROVE History'
  <2>1. /\ window' = InWindow(c) /\ KeyStays /\ UNCHANGED <<now, asked, passed>>
        /\ doing[c] = "counting"
        /\ \E p \in {"adding", "out", "asleep"} : doing' = [doing EXCEPT ![c] = p]
    BY <1>4 DEF Count, GiveUp, Nap, RefusedWindow
  <2>2. \A k \in Callers : doing'[k] \in {"counting", "adding", "renewing"}
                            => /\ doing[k] \in {"counting", "adding", "renewing"}
                               /\ doing'[k] = "renewing" => doing[k] = "renewing"
    BY <1>1, <2>1
  <2> QED BY <2>1, <2>2, TrimHistory
<1>5. ASSUME NEW c \in Callers, Add(c) PROVE History'
  <2>1. /\ window' = window \cup {asked[c]} /\ UNCHANGED <<now, dies, asked, passed>>
        /\ doing[c] = "adding" /\ doing' = [doing EXCEPT ![c] = "renewing"]
    BY <1>5 DEF Add
  <2>2. Keyless' /\ Late' /\ Fresh' /\ Apart'
    BY <1>1, <2>1 DEF Keyless, Late, Fresh, Apart, After
  <2>3. Turns'
    BY <1>1, <2>1 DEF Turns
  <2> QED BY <2>2, <2>3 DEF History
<1>6. ASSUME NEW c \in Callers, Renew(c) PROVE History'
  <2> DEFINE new == [caller |-> c, asked |-> asked[c], at |-> now]
  <2>1. /\ doing[c] = "renewing" /\ doing' = [doing EXCEPT ![c] = "out"]
        /\ dies' = IF window = {} THEN dies ELSE now + Lifetime
        /\ passed' = passed \cup {new} /\ UNCHANGED <<now, window, asked>>
    BY <1>6 DEF Renew
  <2>2. new.caller = c /\ new.asked = asked[c] /\ new.at = now
    OBVIOUS
  <2> HIDE DEF new
  <2>3. Keyless'
    BY <1>1, <2>1 DEF Keyless
  <2>4. Late'
    <3>1. CASE window = {}
      BY <1>1, <2>1, <3>1 DEF Keyless, Late
    <3>2. CASE window # {}
      <4>1. \A k \in passed' : k.at \in Nat /\ k.at <= now
        BY <1>1, <1>2, <2>1, <2>2
      <4>2. dies' = now + Lifetime
        BY <2>1, <3>2
      <4> QED BY <1>1, <4>1, <4>2 DEF Late
    <3> QED BY <3>1, <3>2
  <2>5. Fresh'
    <3>1. now > now - Period
      BY <1>1
    <3> QED BY <1>1, <2>1, <2>2, <3>1 DEF Fresh
  <2>6. Turns'
    <3>1. \A d \in Callers : doing'[d] \in {"counting", "adding", "renewing"}
                              => d # c /\ doing'[d] = doing[d]
      BY <1>1, <2>1
    <3> QED BY <1>1, <2>1, <2>2, <3>1 DEF Turns
  <2>7. Apart'
    <3>1. \A k \in passed : k.caller = c => After(k, new)
      BY <1>1, <2>1, <2>2 DEF Turns, After
    <3>2. \A k, m \in passed \cup {new} :
            k.caller = m.caller => k = m \/ After(k, m) \/ After(m, k)
      BY <1>1, <2>2, <3>1 DEF Apart
    <3> QED BY <2>1, <3>2 DEF Apart, After
  <2> QED BY <2>3, <2>4, <2>5, <2>6, <2>7 DEF History
<1>7. CASE Expire
  <2>1. passed = {}
    <3>1. dies # Never /\ dies \in Nat /\ dies <= now
      BY <1>1, <1>7 DEF Expire, Dead
    <3>2. ASSUME NEW k \in passed PROVE FALSE
      <4>1. k.at \in Nat /\ k.at > now - Period /\ k.at + Lifetime <= dies
        BY <1>1, <1>2, <3>1 DEF Fresh, Late
      <4> QED BY <1>1, <3>1, <4>1
    <3> QED BY <3>2
  <2> QED BY <1>7, <2>1 DEF Expire, History, Keyless, Late, Fresh, Turns, Apart
<1>8. CASE Reset
  BY <1>8 DEF Reset, History, Keyless, Late, Fresh, Turns, Apart
<1>9. CASE Tick
  <2>1. /\ passed' \subseteq passed /\ \A k \in passed' : k.at > now' - Period
        /\ UNCHANGED <<window, dies, doing, asked>>
    BY <1>9 DEF Tick
  <2> QED BY <1>1, <2>1 DEF History, Keyless, Late, Fresh, Turns, Apart, After
<1>10. CASE UNCHANGED vars
  BY <1>1, <1>10 DEF vars, History, Keyless, Late, Fresh, Turns, Apart, After
<1> QED BY <1>3, <1>4, <1>5, <1>6, <1>7, <1>8, <1>9, <1>10 DEF Next

-----------------------------------------------------------------------------
LEMMA NextIInv == ASSUME ConstantsOK, IInv, [Next]_vars PROVE IInv'
<1>0. TypeOK /\ TypeOK' /\ History'
  BY NextTypeOK, NextHistory DEF IInv
<1>a. /\ Cardinality(window) \in Nat /\ Cardinality(window') \in Nat
      /\ Cardinality(Adding) \in Nat /\ Cardinality(Adding') \in Nat
      /\ Cardinality(Callers) \in Nat /\ Limit \in Nat \ {0}
      /\ Period \in Nat \ {0} /\ Lifetime \in Nat /\ Lifetime > Period
      /\ Never \notin Nat
      /\ IsFiniteSet(window) /\ IsFiniteSet(Adding) /\ IsFiniteSet(Callers)
  <2>1. now' \in Int /\ window' \in SUBSET (0..now')
    BY <1>0 DEF TypeOK
  <2>2. IsFiniteSet(0..now')
    BY <2>1, FS_Interval
  <2>3. IsFiniteSet(window') /\ Cardinality(window') \in Nat
    BY <2>1, <2>2, FS_Subset, FS_CardinalityType
  <2>4. IsFiniteSet(Callers) /\ Adding' \in SUBSET Callers
    BY DEF ConstantsOK, Adding
  <2>5. IsFiniteSet(Adding') /\ Cardinality(Adding') \in Nat
    BY <2>4, FS_Subset, FS_CardinalityType
  <2> QED BY <1>0, <2>3, <2>5, Finite DEF ConstantsOK
<1>1. ASSUME NEW c \in Callers, Ask(c) PROVE IInv'
  <2>1. Adding' = Adding
    BY <1>0, <1>1 DEF Ask, Adding, TypeOK
  <2>2. Room'
    BY <1>1, <2>1 DEF Ask, Room, IInv
  <2>3. Faithful'
    BY <1>1 DEF Ask, Faithful, Recent, IInv
  <2>4. \A k \in Callers : doing[k] = "renewing" => doing'[k] = "renewing" /\ asked'[k] = asked[k]
    BY <1>0, <1>1 DEF Ask, TypeOK
  <2>5. Outlives'
    BY <1>1, <2>4 DEF Ask, Outlives, IInv
  <2> QED BY <1>0, <2>2, <2>3, <2>5 DEF IInv
<1>2. ASSUME NEW c \in Callers, Count(c) PROVE IInv'
  <2>1. Faithful' /\ window' \subseteq window
    BY <1>0, <1>2, Trim DEF Count
  <2>2. Cardinality(window') <= Limit - 1
    BY <1>2, <1>a DEF Count, Pass
  <2>3. Cardinality(Adding') <= Cardinality(Callers)
    BY <1>a, FS_Subset DEF Adding
  <2>4. Room'
    BY <1>a, <2>2, <2>3 DEF Room
  <2>5. Outlives'
    <3>1. \A k \in Callers : doing[k] = "renewing" => doing'[k] = "renewing"
      BY <1>0, <1>2 DEF Count, TypeOK
    <3> QED BY <1>2, <2>1, <3>1, TrimOutlives DEF Count, IInv
  <2> QED BY <1>0, <2>1, <2>4, <2>5 DEF IInv
<1>3. ASSUME NEW c \in Callers, GiveUp(c) \/ Nap(c) PROVE IInv'
  <2>0. /\ window' = InWindow(c)
        /\ KeyStays /\ UNCHANGED <<now, asked, admitted>>
        /\ doing[c] = "counting"
        /\ \/ doing' = [doing EXCEPT ![c] = "out"]
           \/ doing' = [doing EXCEPT ![c] = "asleep"]
    BY <1>3 DEF GiveUp, Nap, RefusedWindow
  <2>1. Faithful' /\ window' \subseteq window /\ Cardinality(window') <= Cardinality(window)
    BY <1>0, <2>0, Trim
  <2>2. Adding' = Adding
    BY <1>0, <2>0 DEF Adding, TypeOK
  <2>3. Room'
    BY <1>a, <2>1, <2>2 DEF Room, IInv
  <2>4. Outlives'
    <3>1. \A k \in Callers : doing[k] = "renewing" => doing'[k] = "renewing"
      BY <1>0, <2>0 DEF TypeOK
    <3> QED BY <2>0, <2>1, <3>1, TrimOutlives DEF IInv
  <2> QED BY <1>0, <2>1, <2>3, <2>4 DEF IInv
<1>4. ASSUME NEW c \in Callers, Add(c) PROVE IInv'
  <2>1. Cardinality(window') <= Cardinality(window) + 1
    <3>1. window' = window \cup {asked[c]}
      BY <1>4 DEF Add
    <3>2. Cardinality(window \cup {asked[c]}) =
            IF asked[c] \in window THEN Cardinality(window) ELSE Cardinality(window) + 1
      BY <1>a, FS_AddElement
    <3> QED BY <1>a, <3>1, <3>2
  <2>2. Adding' = Adding \ {c} /\ c \in Adding
    BY <1>0, <1>4 DEF Add, Adding, TypeOK
  <2>3. Cardinality(Adding') = Cardinality(Adding) - 1
    BY <1>a, <2>2, FS_RemoveElement
  <2>4. Room'
    BY <1>a, <2>1, <2>3 DEF Room, IInv
  <2>5. Faithful'
    BY <1>4 DEF Add, Faithful, Recent, IInv
  <2>6. doing'[c] = "renewing" /\ \A k \in Callers : doing[k] = "renewing" => doing'[k] = "renewing"
    BY <1>0, <1>4 DEF Add, TypeOK
  <2>7. Outlives'
    BY <1>4, <2>6 DEF Add, Outlives, IInv
  <2> QED BY <1>0, <2>4, <2>5, <2>7 DEF IInv
<1>5. ASSUME NEW c \in Callers, Renew(c) PROVE IInv'
  <2>1. Adding' = Adding
    BY <1>0, <1>5 DEF Renew, Adding, TypeOK
  <2>2. Room'
    BY <1>5, <2>1 DEF Renew, Room, IInv
  <2>3. Faithful'
    BY <1>5 DEF Renew, Faithful, Recent, IInv
  <2>4. Outlives'
    <3>1. CASE window = {}
      BY <1>5, <3>1 DEF Renew, Outlives
    <3>2. CASE window # {}
      <4>1. dies' = now + Lifetime /\ window' = window
        BY <1>5, <3>2 DEF Renew
      <4>2. now \in Nat /\ \A s \in window : s \in Nat /\ s <= now
        BY <1>0 DEF TypeOK
      <4>3. \A s \in window' : dies' > s + Period
        BY <1>a, <4>1, <4>2
      <4> QED BY <4>3 DEF Outlives
    <3> QED BY <3>1, <3>2
  <2> QED BY <1>0, <2>2, <2>3, <2>4 DEF IInv
<1>6. CASE Expire \/ Reset
  <2>1. window' = {} /\ admitted' = {} /\ doing' = doing
    BY <1>6 DEF Expire, Reset
  <2>2. Cardinality(window') = 0 /\ Adding' = Adding
    BY <2>1, FS_EmptySet DEF Adding
  <2>3. Room'
    BY <1>0, <1>a, <2>2, Finite DEF Room
  <2>4. Faithful' /\ Outlives'
    BY <2>1 DEF Faithful, Recent, Outlives
  <2> QED BY <1>0, <2>3, <2>4 DEF IInv
<1>7. CASE Tick
  <2>1. Room' /\ Outlives'
    BY <1>7 DEF Tick, Room, Adding, Outlives, IInv
  <2>2. Faithful'
    <3>1. admitted \subseteq Nat /\ now \in Nat /\ now' = now + 1
      BY <1>0, <1>7 DEF TypeOK, Tick
    <3>2. window' = window /\ admitted' = admitted
      BY <1>7 DEF Tick
    <3>3. Recent' = {s \in admitted : s > (now + 1) - Period}
      BY <3>1, <3>2 DEF Recent
    <3>4. ASSUME NEW r \in admitted, r > (now + 1) - Period PROVE r > now - Period
      BY <1>a, <3>1, <3>4
    <3>5. Recent' \subseteq Recent
      BY <3>3, <3>4 DEF Recent
    <3> QED BY <3>2, <3>5 DEF Faithful, IInv
  <2> QED BY <1>0, <2>1, <2>2 DEF IInv
<1>8. CASE UNCHANGED vars
  BY <1>0, <1>8 DEF vars, IInv, Room, Adding, Faithful, Recent, Outlives
<1> QED BY <1>1, <1>2, <1>3, <1>4, <1>5, <1>6, <1>7, <1>8 DEF Next

(* The inductive invariant of RedisRateLimiter's window. *)
THEOREM Invariance == ASSUME ConstantsOK PROVE Spec => []IInv
<1>1. Init => IInv
  BY InitIInv
<1>2. IInv /\ [Next]_vars => IInv'
  BY NextIInv
<1> QED BY <1>1, <1>2, PTL DEF Spec

-----------------------------------------------------------------------------
(* Every variable keeps its type. *)
THEOREM TypeCorrect == ASSUME ConstantsOK PROVE Spec => []TypeOK
<1>1. IInv => TypeOK
  BY DEF IInv
<1> QED BY <1>1, Invariance, PTL

(* Of the recent calls of one caller, at most one is not in the set: each  *)
(* later one asked when the one before it had returned.                    *)
LEMMA OneGone ==
  ASSUME ConstantsOK, IInv, NEW k \in passed, NEW m \in passed, k.caller = m.caller,
         k.asked \notin window, m.asked \notin window
  PROVE  k = m
BY DEF IInv, History, Apart, After

(* What the invariant says of the calls let through in a period. *)
LEMMA RoomIsBound == ASSUME ConstantsOK, IInv PROVE WindowBound
<1> DEFINE Times == {k.asked : k \in passed}
           Lost(c) == CHOOSE s : \E k \in passed :
                        k.caller = c /\ k.asked = s /\ k.asked \notin window
           Losses == {Lost(c) : c \in Callers}
<1>1. Times \subseteq window \cup Losses
  <2> SUFFICES ASSUME NEW k \in passed, k.asked \notin window PROVE k.asked \in Losses
    OBVIOUS
  <2>1. k.caller \in Callers
    BY DEF IInv, TypeOK, Calls
  <2>2. PICK m \in passed : m.caller = k.caller /\ m.asked = Lost(k.caller)
                            /\ m.asked \notin window
    OBVIOUS
  <2>3. m = k
    BY <2>2, OneGone
  <2> QED BY <2>1, <2>2, <2>3
<1>2. IsFiniteSet(Losses) /\ Cardinality(Losses) <= Cardinality(Callers)
  <2> DEFINE lost == [c \in Callers |-> Lost(c)]
  <2>1. lost \in Surjection(Callers, Losses)
    <3> HIDE DEF Lost
    <3>1. lost \in [Callers -> Losses] /\ \A s \in Losses : \E c \in Callers : lost[c] = s
      OBVIOUS
    <3> QED BY <3>1 DEF Surjection
  <2>2. IsFiniteSet(Callers)
    BY DEF ConstantsOK
  <2> HIDE DEF lost, Losses
  <2> QED BY <2>1, <2>2, FS_Surjection
<1>3. /\ IsFiniteSet(window) /\ Cardinality(window) \in Nat
      /\ Cardinality(Adding) \in Nat /\ Cardinality(Callers) \in Nat
  BY Finite DEF IInv
<1> HIDE DEF Losses, Times
<1>4. /\ IsFiniteSet(window \cup Losses)
      /\ Cardinality(window \cup Losses)
           = Cardinality(window) + Cardinality(Losses) - Cardinality(window \cap Losses)
  BY <1>2, <1>3, FS_Union
<1>5. /\ Cardinality(Losses) \in Nat
      /\ Cardinality(window \cup Losses) \in Nat
      /\ Cardinality(window \cap Losses) \in Nat
  BY <1>2, <1>3, <1>4, FS_CardinalityType, FS_Intersection
<1>6. Cardinality(Times) <= Cardinality(window \cup Losses) /\ Cardinality(Times) \in Nat
  BY <1>1, <1>4, FS_Subset, FS_CardinalityType
<1>7. Limit \in Nat
  BY DEF ConstantsOK
<1>8. Cardinality(window) + Cardinality(Adding) <= Limit - 1 + Cardinality(Callers)
  BY DEF IInv, Room
<1>9. Cardinality(Times) <= Limit - 1 + 2 * Cardinality(Callers)
  BY <1>2, <1>3, <1>4, <1>5, <1>6, <1>7, <1>8
<1> QED BY <1>9 DEF WindowBound, Times

(* However the round trips interleave, the calls let through in a period   *)
(* have read at most Limit - 1 different times and two more for each       *)
(* caller (acquire).                                                       *)
THEOREM WindowBounded == ASSUME ConstantsOK PROVE Spec => []WindowBound
<1>1. IInv => WindowBound
  BY RoomIsBound
<1> QED BY <1>1, Invariance, PTL

(* Whoever is refused has counted calls that were admitted. *)
LEMMA CauseIsThere ==
  ASSUME ConstantsOK, IInv, NEW c \in Callers, GiveUp(c) \/ Nap(c)
  PROVE  Cardinality({s \in admitted : s > asked[c] - Period}) >= Limit
<1> DEFINE Cause == {s \in admitted : s > asked[c] - Period}
<1>1. ~(Cardinality(InWindow(c)) < Limit)
  BY DEF GiveUp, Nap, Pass
<1>2. InWindow(c) \in SUBSET Cause
  BY DEF IInv, Faithful, InWindow
<1>3. IsFiniteSet(Cause)
  <2>1. Cause \in SUBSET admitted /\ IsFiniteSet(admitted)
    BY Finite DEF IInv
  <2> QED BY <2>1, FS_Subset
<1>4. /\ IsFiniteSet(InWindow(c))
      /\ Cardinality(InWindow(c)) <= Cardinality(Cause)
  BY <1>2, <1>3, FS_Subset
<1>5. Cardinality(Cause) \in Nat /\ Cardinality(InWindow(c)) \in Nat
  BY <1>3, <1>4, FS_CardinalityType
<1>6. Limit \in Nat
  BY DEF ConstantsOK
<1> QED BY <1>1, <1>4, <1>5, <1>6

(* A caller is refused only when Limit calls were admitted since a         *)
(* period before it asked: refusals leave no mark (acquire).               *)
THEOREM RefusalsHaveCause == ASSUME ConstantsOK PROVE Spec => RefusedForCause
<1>1. IInv /\ [Next]_vars =>
        [\A c \in Callers :
           GiveUp(c) \/ Nap(c)
             => Cardinality({s \in admitted : s > asked[c] - Period}) >= Limit]_vars
  BY CauseIsThere
<1> QED BY <1>1, Invariance, PTL DEF Spec, RefusedForCause

(* A dead key holds only what has no EXPIRE of its own yet. *)
LEMMA OutlivingIsSafe == ASSUME ConstantsOK, IInv PROVE ExpiryIsSafe
<1> SUFFICES ASSUME Dead
             PROVE  /\ passed = {}
                    /\ \A s \in Recent :
                         \E c \in Callers : doing[c] = "renewing" /\ asked[c] = s
  BY DEF ExpiryIsSafe
<1>1. /\ dies # Never /\ dies <= now /\ dies \in Nat /\ now \in Nat
      /\ Period \in Nat /\ Lifetime \in Nat /\ Lifetime > Period
  BY DEF Dead, IInv, TypeOK, ConstantsOK
<1>2. ASSUME NEW k \in passed PROVE FALSE
  <2>1. k.at \in Nat /\ k.at > now - Period /\ k.at + Lifetime <= dies
    BY <1>1 DEF IInv, TypeOK, Calls, History, Fresh, Late
  <2> QED BY <1>1, <2>1
<1>3. ASSUME NEW s \in Recent
      PROVE  \E c \in Callers : doing[c] = "renewing" /\ asked[c] = s
  <2>1. s \in window /\ s \in Nat /\ s > now - Period
    BY DEF IInv, Faithful, Recent, TypeOK
  <2> QED BY <1>1, <2>1 DEF IInv, Outlives
<1> QED BY <1>2, <1>3

(* When the key dies, no call was let through in the last period, and what *)
(* it held of that period is between its zadd and its expire (acquire).    *)
THEOREM ExpirySafe == ASSUME ConstantsOK PROVE Spec => []ExpiryIsSafe
<1>1. IInv => ExpiryIsSafe
  BY OutlivingIsSafe
<1> QED BY <1>1, Invariance, PTL
=============================================================================
