----------------------------- MODULE Grpc_proofs -----------------------------
(* Proofs about GrpcChannels for any number of coroutines, contexts and options, and *)
(* about GrpcConnection for every longest wait and whatever callbacks raise.         *)
EXTENDS GrpcChannels, GrpcConnection, FiniteSetTheorems, TLAPS

-----------------------------------------------------------------------------
(* Cardinality of the users inside a channel, when one enters or leaves.   *)

LEMMA InsideFinite == \A c : IsFiniteSet(Inside(c)) /\ Cardinality(Inside(c)) \in Nat
<1> TAKE c
<1>1. Inside(c) \subseteq User
  BY DEF Inside
<1>2. IsFiniteSet(Inside(c))
  BY <1>1, FS_Subset, ChannelsAssumption
<1> QED  BY <1>2, FS_CardinalityType

\* A user that comes or goes changes the number by one.
LEMMA OneMore ==
    ASSUME NEW S, NEW T, NEW u, IsFiniteSet(S), u \notin S, T = S \cup {u}
    PROVE  Cardinality(T) = Cardinality(S) + 1
  BY FS_AddElement

LEMMA OneLess ==
    ASSUME NEW S, NEW T, NEW u, IsFiniteSet(S), u \in S, T = S \ {u}
    PROVE  Cardinality(T) = Cardinality(S) - 1
  BY FS_RemoveElement

\* A counter that goes up or down.
LEMMA CountUp ==
    ASSUME NEW S, NEW f \in [S -> Nat], NEW c \in S
    PROVE  [f EXCEPT ![c] = @ + 1] \in [S -> Nat]
  OBVIOUS

LEMMA CountDown ==
    ASSUME NEW S, NEW f \in [S -> Int], NEW c \in S
    PROVE  [f EXCEPT ![c] = @ - 1] \in [S -> Int]
  OBVIOUS

-----------------------------------------------------------------------------
(***************************************************************************)
(* Types.  How many channels and instances there are is left open.         *)
(***************************************************************************)
Types ==
    /\ wish \in [User -> [persistent : BOOLEAN, option : Option \cup {NoOption}]]
    /\ table \in Channel \cup {None}
    /\ channels \in Nat /\ instances \in Nat
    /\ persistent \in [Channel -> BOOLEAN]
    /\ option \in [Channel -> Option \cup {NoOption}]
    /\ instance \in [Channel -> Nat]
    /\ connections \in [Channel -> Int]
    /\ stub \in [Channel -> Nat]
    /\ pc \in [User -> {"idle", "recreate", "inside", "closing", "failed"}]
    /\ chan \in [User -> Channel \cup {None}] /\ used \in [User -> Nat]
    /\ leaked \in [Channel -> Nat]
    /\ \A u \in User : pc[u] \in {"inside", "recreate"} => chan[u] \in Channel

(* The reference count of a Channel is the number of the contexts inside it and of those *)
(* that an exception ended (a lemma: what follows from it is stated below).              *)
Counted == \A c \in Channel : connections[c] = Cardinality(Inside(c)) + leaked[c]

CInv == Types /\ Counted

LEMMA NoneApart == Channel \subseteq Nat \ {0} /\ None = 0
<1>1. MaxUses * Cardinality(User) \in Nat
  BY FS_CardinalityType, ChannelsAssumption
<1> QED  BY <1>1 DEF Channel, None

LEMMA InitCInv == Init => CInv
<1> SUFFICES ASSUME Init PROVE CInv
  OBVIOUS
<1>1. Types
  BY NoneApart, ChannelsAssumption DEF Init, Types
<1>2. ASSUME NEW c \in Channel PROVE connections[c] = Cardinality(Inside(c)) + leaked[c]
  <2>1. Inside(c) = {}
    BY DEF Init, Inside
  <2>2. Cardinality(Inside(c)) = 0
    BY <2>1, FS_EmptySet
  <2> QED  BY <2>2 DEF Init
<1> QED  BY <1>1, <1>2 DEF CInv, Counted

\* A user enters channel c.
LEMMA EnterCounts ==
    ASSUME CInv, NEW u \in User, NEW c \in Channel, pc[u] # "inside",
           pc' = [pc EXCEPT ![u] = "inside"], chan' = [chan EXCEPT ![u] = c],
           connections' = [connections EXCEPT ![c] = @ + 1], leaked' = leaked
    PROVE  Counted'
<1> SUFFICES ASSUME NEW d \in Channel
             PROVE  connections'[d] = Cardinality(Inside(d)') + leaked'[d]
  BY DEF Counted
<1>1. connections[d] = Cardinality(Inside(d)) + leaked[d] /\ Cardinality(Inside(d)) \in Nat
  BY InsideFinite DEF CInv, Counted
<1>2. leaked[d] \in Nat /\ connections[d] \in Int
  BY DEF CInv, Types
<1>3. CASE d = c
  <2>1. u \notin Inside(d) /\ Inside(d)' = Inside(d) \cup {u}
    BY <1>3 DEF Inside, CInv, Types
  <2>2. Cardinality(Inside(d)') = Cardinality(Inside(d)) + 1
    BY <2>1, InsideFinite, OneMore
  <2>3. connections'[d] = connections[d] + 1
    BY <1>3 DEF CInv, Types
  <2> QED  BY <1>1, <1>2, <2>2, <2>3
<1>4. CASE d # c
  <2>1. Inside(d)' = Inside(d)
    BY <1>4 DEF Inside, CInv, Types
  <2>2. connections'[d] = connections[d]
    BY <1>4 DEF CInv, Types
  <2> QED  BY <1>1, <2>1, <2>2
<1> QED  BY <1>3, <1>4

\* A user leaves its channel: the connection is given back, or it is leaked.
LEMMA LeaveCounts ==
    ASSUME CInv, NEW u \in User, pc[u] = "inside", NEW to, to # "inside",
           pc' = [pc EXCEPT ![u] = to], chan' = chan,
           \/ /\ connections' = [connections EXCEPT ![chan[u]] = @ - 1]
              /\ leaked' = leaked
           \/ /\ connections' = connections
              /\ leaked' = [leaked EXCEPT ![chan[u]] = @ + 1]
    PROVE  Counted'
<1> SUFFICES ASSUME NEW d \in Channel
             PROVE  connections'[d] = Cardinality(Inside(d)') + leaked'[d]
  BY DEF Counted
<1>1. connections[d] = Cardinality(Inside(d)) + leaked[d] /\ Cardinality(Inside(d)) \in Nat
  BY InsideFinite DEF CInv, Counted
<1>2. leaked[d] \in Nat /\ connections[d] \in Int
  BY DEF CInv, Types
<1>3. CASE d = chan[u]
  <2>1. u \in Inside(d) /\ Inside(d)' = Inside(d) \ {u}
    BY <1>3 DEF Inside, CInv, Types
  <2>2. Cardinality(Inside(d)') = Cardinality(Inside(d)) - 1
    BY <2>1, InsideFinite, OneLess
  <2>3. \/ connections'[d] = connections[d] - 1 /\ leaked'[d] = leaked[d]
        \/ connections'[d] = connections[d] /\ leaked'[d] = leaked[d] + 1
    BY <1>3 DEF CInv, Types
  <2> QED  BY <1>1, <1>2, <2>2, <2>3
<1>4. CASE d # chan[u]
  <2>1. Inside(d)' = Inside(d)
    BY <1>4 DEF Inside, CInv, Types
  <2>2. connections'[d] = connections[d] /\ leaked'[d] = leaked[d]
    BY <1>4 DEF CInv, Types
  <2> QED  BY <1>1, <2>1, <2>2
<1> QED  BY <1>3, <1>4

\* Nobody enters or leaves.
LEMMA SameCounts ==
    ASSUME CInv, NEW u \in User, pc[u] # "inside", NEW to, to # "inside",
           pc' = [pc EXCEPT ![u] = to], \A v \in User : v # u => chan'[v] = chan[v],
           connections' = connections, leaked' = leaked
    PROVE  Counted'
<1>1. \A d \in Channel : Inside(d)' = Inside(d)
  BY DEF Inside, CInv, Types
<1> QED  BY <1>1 DEF Counted, CInv

-----------------------------------------------------------------------------
(* The steps.                                                              *)

\* The types after the first half of opening a context.
LEMMA LookupTypes ==
    ASSUME CInv, NEW u \in User, NEW c \in Channel, Lookup(u, c)
    PROVE  /\ table' = c /\ channels' \in Nat
           /\ persistent' \in [Channel -> BOOLEAN]
           /\ option' \in [Channel -> Option \cup {NoOption}]
           /\ chan' = [chan EXCEPT ![u] = c] /\ chan' \in [User -> Channel \cup {None}]
<1>1. wish[u].persistent \in BOOLEAN /\ wish[u].option \in Option \cup {NoOption}
  BY DEF CInv, Types
<1>2. persistent' \in [Channel -> BOOLEAN]
  BY <1>1, Zenon DEF Lookup, CInv, Types
<1>3. option' \in [Channel -> Option \cup {NoOption}]
  BY <1>1 DEF Lookup, CInv, Types
<1> QED  BY <1>2, <1>3, NoneApart DEF Lookup, CInv, Types

\* The types after the second half.
LEMMA EnterTypes ==
    ASSUME CInv, NEW u \in User, NEW c \in Channel, NEW i \in Nat, Enter(u, c, i)
    PROVE  /\ instances' \in Nat /\ instance' \in [Channel -> Nat]
           /\ connections' \in [Channel -> Int] /\ stub' \in [Channel -> Nat]
           /\ used' \in [User -> Nat] /\ pc' = [pc EXCEPT ![u] = "inside"]
           /\ connections' = [connections EXCEPT ![c] = @ + 1]
<1>1. stub[c] \in Nat /\ instances + 1 \in Nat /\ connections[c] + 1 \in Int
  BY DEF CInv, Types
<1> QED  BY <1>1 DEF Enter, CInv, Types

LEMMA StepCInv == CInv /\ [Next]_vars => CInv'
<1> SUFFICES ASSUME CInv, [Next]_vars PROVE CInv'
  OBVIOUS
<1> USE NoneApart
<1>1. CASE UNCHANGED vars
  BY <1>1 DEF vars, CInv, Types, Counted, Inside
<1>2. ASSUME NEW u \in User, NEW c \in Channel, Open(u, c) PROVE CInv'
  <2>1. Lookup(u, c) /\ Enter(u, c, instance[c]) /\ UNCHANGED <<wish, leaked>>
    BY <1>2 DEF Open
  <2>2. instance[c] \in Nat /\ pc[u] # "inside"
    BY <2>1 DEF CInv, Types, Lookup
  <2>3. Counted'
    BY <2>1, <2>2, LookupTypes, EnterTypes, EnterCounts
  <2>4. Types'
    <3>1. chan'[u] = c /\ \A v \in User : v # u => chan'[v] = chan[v] /\ pc'[v] = pc[v]
      BY <2>1, <2>2, LookupTypes, EnterTypes DEF CInv, Types
    <3>2. pc' \in [User -> {"idle", "recreate", "inside", "closing", "failed"}]
      BY <2>1, <2>2, EnterTypes DEF CInv, Types
    <3>3. \A v \in User : pc'[v] \in {"inside", "recreate"} => chan'[v] \in Channel
      BY <3>1 DEF CInv, Types
    <3> QED  BY <2>1, <2>2, <3>2, <3>3, LookupTypes, EnterTypes DEF CInv, Types
  <2> QED  BY <2>3, <2>4 DEF CInv
<1>3. ASSUME NEW u \in User, NEW c \in Channel, OpenRecreating(u, c) PROVE CInv'
  <2>1. Lookup(u, c) /\ pc' = [pc EXCEPT ![u] = "recreate"] /\ pc[u] # "inside"
    BY <1>3 DEF OpenRecreating, Lookup
  <2>2. Types'
    BY <1>3, <2>1, LookupTypes DEF OpenRecreating, CInv, Types
  <2>3. \A v \in User : v # u => chan'[v] = chan[v]
    BY <2>1, LookupTypes DEF CInv, Types
  <2>4. connections' = connections /\ leaked' = leaked
    BY <1>3 DEF OpenRecreating
  <2>5. Counted'
    BY <2>1, <2>3, <2>4, SameCounts
  <2> QED  BY <2>2, <2>5 DEF CInv
<1>4. ASSUME NEW u \in User, Recreated(u) PROVE CInv'
  <2>1. chan[u] \in Channel /\ pc[u] = "recreate" /\ Enter(u, chan[u], None)
    BY <1>4 DEF Recreated, CInv, Types
  <2>2. chan' = [chan EXCEPT ![u] = chan[u]] /\ leaked' = leaked
    BY <1>4 DEF Recreated, CInv, Types
  <2>3. Counted'
    BY <2>1, <2>2, EnterTypes, EnterCounts
  <2>4. Types'
    <3> DEFINE PC == {"idle", "recreate", "inside", "closing", "failed"}
    <3>0. pc \in [User -> PC] /\ pc' = [pc EXCEPT ![u] = "inside"]
      BY <2>1, EnterTypes, NoneApart DEF CInv, Types, None
    <3>1. pc' \in [User -> PC]
      BY <3>0
    <3>2. \A v \in User : pc'[v] \in {"inside", "recreate"} => chan'[v] \in Channel
      <4>1. \A v \in User : pc[v] \in {"inside", "recreate"} => chan[v] \in Channel
        BY DEF CInv, Types
      <4> QED  BY <2>1, <2>2, <3>0, <4>1
    <3>3. UNCHANGED <<wish, table, channels, persistent, option, chan, leaked>>
      BY <1>4 DEF Recreated
    <3> QED  BY <2>1, <3>1, <3>2, <3>3, EnterTypes DEF CInv, Types
  <2> QED  BY <2>3, <2>4 DEF CInv
<1>5. ASSUME NEW u \in User, CancelledInClose(u) \/ Closed(u) PROVE CInv'
  <2>1. Types'
    BY <1>5 DEF CancelledInClose, Closed, fields, CInv, Types
  <2>2. Counted'
    BY <1>5, SameCounts DEF CancelledInClose, Closed, fields
  <2> QED  BY <2>1, <2>2 DEF CInv
<1>6. ASSUME NEW u \in User, Leave(u) PROVE CInv'
  <2>1. PICK to \in {"closing", "failed", "idle"} : pc' = [pc EXCEPT ![u] = to]
    BY <1>6 DEF Leave
  <2>2. pc[u] = "inside" /\ connections' = [connections EXCEPT ![chan[u]] = @ - 1]
        /\ chan' = chan /\ leaked' = leaked /\ chan[u] \in Channel
    BY <1>6 DEF Leave, CInv, Types
  <2>3. Counted'
    BY <2>1, <2>2, LeaveCounts
  <2>4. table' \in Channel \cup {None}
    BY <1>6 DEF Leave, CInv, Types
  <2>5. connections' \in [Channel -> Int]
    <3>1. connections \in [Channel -> Int]
      BY DEF CInv, Types
    <3> QED  BY <2>2, <3>1, CountDown, Zenon
  <2>6. Types'
    BY <1>6, <2>1, <2>2, <2>4, <2>5 DEF Leave, CInv, Types
  <2> QED  BY <2>3, <2>6 DEF CInv
<1>7. ASSUME NEW u \in User, LeaveByException(u) PROVE CInv'
  <2>1. chan[u] \in Channel /\ pc[u] = "inside"
    BY <1>7 DEF LeaveByException, CInv, Types
  <2>2. Types'
    <3>1. leaked \in [Channel -> Nat]
      BY DEF CInv, Types
    <3>2. leaked' \in [Channel -> Nat]
      <4>1. leaked' = [leaked EXCEPT ![chan[u]] = @ + 1] /\ chan[u] \in Channel
        BY <1>7, <2>1 DEF LeaveByException
      <4> QED  BY <3>1, <4>1, CountUp, Zenon
    <3>3. stub' \in [Channel -> Nat]
      BY <1>7, <2>1 DEF LeaveByException, CInv, Types
    <3> QED  BY <1>7, <2>1, <3>2, <3>3 DEF LeaveByException, CInv, Types
  <2>3. /\ pc' = [pc EXCEPT ![u] = "idle"] /\ chan' = chan /\ connections' = connections
        /\ leaked' = [leaked EXCEPT ![chan[u]] = @ + 1]
    BY <1>7 DEF LeaveByException
  <2>4. Counted'
    BY <2>1, <2>3, LeaveCounts
  <2> QED  BY <2>2, <2>4 DEF CInv
<1> QED
  BY <1>1, <1>2, <1>3, <1>4, <1>5, <1>6, <1>7 DEF Next, Rest

-----------------------------------------------------------------------------
(***************************************************************************)
(* Callers that agree.  Every Channel with an instance is as they wish, so *)
(* no instance is ever replaced; the table has the only Channel whose      *)
(* instance is open, and everybody who is inside a context uses it.        *)
(***************************************************************************)
Suits(c, w) == persistent[c] = w.persistent /\ (w.option # NoOption => option[c] = w.option)

AsWished ==
    \A c \in Channel : instance[c] # None => c <= channels /\ \A u \in User : Suits(c, wish[u])
Cached == \A c \in Channel : stub[c] = instance[c]
OneOpen == open = IF table = None THEN {} ELSE {instance[table]}
InTable ==
    \A u \in User :
       /\ pc[u] \notin {"recreate", "failed"}
       /\ pc[u] = "inside" => chan[u] = table /\ used[u] = instance[table]
Kept ==
    table # None => /\ instance[table] # None
                    /\ persistent[table] \/ Inside(table) # {} \/ leaked[table] > 0
Agreed == AsWished /\ Cached /\ OneOpen /\ InTable /\ Kept

AInv == CInv /\ (Agreeing => Agreed)

LEMMA InitAInv == Init => AInv
<1> SUFFICES ASSUME Init PROVE Agreed
  BY InitCInv DEF AInv
<1> QED  BY DEF Init, Agreed, AsWished, Cached, OneOpen, InTable, Kept, None

\* Nobody is inside a context when the table has no Channel.
LEMMA NobodyInside ==
    ASSUME CInv, Agreed, table = None
    PROVE  \A u \in User : pc[u] # "inside"
  BY NoneApart DEF CInv, Types, Agreed, InTable

\* The first context of an address creates a Channel and its instance.
LEMMA FirstOpen ==
    ASSUME CInv, Agreeing, Agreed, NEW u \in User, NEW c \in Channel, Open(u, c), table = None, CInv'
    PROVE  Agreed'
<1>1. /\ c = channels + 1 /\ channels' = c /\ table' = c
      /\ persistent' = [persistent EXCEPT ![c] = wish[u].persistent]
      /\ option' = [option EXCEPT ![c] = IF wish[u].option = NoOption THEN @ ELSE wish[u].option]
      /\ chan' = [chan EXCEPT ![u] = c]
      /\ wish' = wish /\ Enter(u, c, instance[c])
  BY DEF Open, Lookup
<1>2. c # None /\ channels \in Nat /\ instances \in Nat /\ c \in Nat
  BY NoneApart DEF CInv, Types
<1>3. instance[c] = None /\ stub[c] = None
  BY <1>1, <1>2 DEF Agreed, AsWished, Cached
<1> DEFINE j == instances + 1
<1>4. /\ instance' = [instance EXCEPT ![c] = j] /\ stub' = [stub EXCEPT ![c] = j]
      /\ used' = [used EXCEPT ![u] = j] /\ open' = open \cup {j}
      /\ pc' = [pc EXCEPT ![u] = "inside"]
  BY <1>1, <1>3 DEF Enter
<1>5. j # None
  BY <1>2, NoneApart
<1> HIDE DEF j
<1>6. /\ instance'[c] = j /\ stub'[c] = j /\ persistent'[c] = wish[u].persistent
      /\ wish[u].option # NoOption => option'[c] = wish[u].option
      /\ \A d \in Channel \ {c} : /\ instance'[d] = instance[d] /\ stub'[d] = stub[d]
                                  /\ persistent'[d] = persistent[d] /\ option'[d] = option[d]
  BY <1>1, <1>4 DEF CInv, Types
<1>7. /\ pc'[u] = "inside" /\ chan'[u] = c /\ used'[u] = j
      /\ \A v \in User \ {u} : pc'[v] = pc[v] /\ chan'[v] = chan[v] /\ used'[v] = used[v]
  BY <1>1, <1>4 DEF CInv, Types
<1>8. AsWished'
  <2>1. ASSUME NEW d \in Channel, instance'[d] # None
        PROVE  d <= channels' /\ \A v \in User : Suits(d, wish[v])'
    <3>1. CASE d = c
      <4>1. \A v \in User : wish'[v] = wish[u]
        BY <1>1 DEF Agreeing
      <4> QED  BY <1>1, <1>2, <1>6, <3>1, <4>1 DEF Suits
    <3>2. CASE d # c
      <4>1. d <= channels /\ \A v \in User : Suits(d, wish[v])
        BY <1>6, <2>1, <3>2 DEF Agreed, AsWished
      <4>2. d <= channels'
        BY <1>1, <1>2, <4>1, NoneApart
      <4>3. persistent'[d] = persistent[d] /\ option'[d] = option[d]
        BY <1>6, <3>2
      <4> QED  BY <1>1, <4>1, <4>2, <4>3 DEF Suits
    <3> QED  BY <3>1, <3>2
  <2> QED  BY <2>1 DEF AsWished
<1>9. Cached'
  BY <1>6 DEF Agreed, Cached
<1>10. OneOpen'
  BY <1>1, <1>2, <1>4, <1>6 DEF Agreed, OneOpen
<1>11. InTable'
  <2>1. \A v \in User : pc[v] # "inside"
    BY NobodyInside
  <2> QED  BY <1>1, <1>6, <1>7, <2>1 DEF Agreed, InTable
<1>12. Kept'
  <2>1. u \in Inside(c)'
    BY <1>7 DEF Inside
  <2> QED  BY <1>1, <1>5, <1>6, <2>1 DEF Kept
<1> QED  BY <1>8, <1>9, <1>10, <1>11, <1>12 DEF Agreed

\* Another context uses the Channel of the table as it is.
LEMMA NextOpen ==
    ASSUME CInv, Agreeing, Agreed, NEW u \in User, NEW c \in Channel, Open(u, c), table # None
    PROVE  Agreed'
<1>1. /\ c = table /\ channels' = channels /\ table' = table /\ persistent' = persistent
      /\ option' = [option EXCEPT ![c] = IF wish[u].option = NoOption THEN @ ELSE wish[u].option]
      /\ chan' = [chan EXCEPT ![u] = c]
      /\ wish' = wish /\ leaked' = leaked /\ Enter(u, c, instance[c])
  BY DEF Open, Lookup
<1>2. instance[c] # None /\ stub[c] = instance[c] /\ Suits(c, wish[u])
  BY <1>1 DEF Agreed, Kept, Cached, AsWished
<1>3. /\ instance' = [instance EXCEPT ![c] = instance[c]] /\ stub' = [stub EXCEPT ![c] = stub[c]]
      /\ used' = [used EXCEPT ![u] = instance[c]] /\ open' = open
      /\ pc' = [pc EXCEPT ![u] = "inside"]
  BY <1>1, <1>2, Zenon DEF Enter
<1>4. instance' = instance /\ stub' = stub
  BY <1>3 DEF CInv, Types
<1>5. option' = option
  BY <1>1, <1>2 DEF Suits, CInv, Types
<1>6. /\ pc'[u] = "inside" /\ chan'[u] = c /\ used'[u] = instance[c]
      /\ \A v \in User \ {u} : pc'[v] = pc[v] /\ chan'[v] = chan[v] /\ used'[v] = used[v]
  BY <1>1, <1>3 DEF CInv, Types
<1>7. AsWished' /\ Cached' /\ OneOpen'
  BY <1>1, <1>3, <1>4, <1>5 DEF Agreed, AsWished, Cached, OneOpen, Suits
<1>8. InTable'
  BY <1>1, <1>4, <1>6 DEF Agreed, InTable
<1>9. Kept'
  <2>1. u \in Inside(c)'
    BY <1>6 DEF Inside
  <2> QED  BY <1>1, <1>2, <1>4, <2>1 DEF Kept
<1> QED  BY <1>7, <1>8, <1>9 DEF Agreed

\* No instance is found unsuitable.
LEMMA NoRecreating ==
    ASSUME CInv, Agreed, NEW u \in User, NEW c \in Channel, OpenRecreating(u, c)
    PROVE  FALSE
<1>1. instance[c] # None /\ ~Suits(c, wish[u])
  <2>1. wish[u].persistent \in BOOLEAN /\ persistent[c] \in BOOLEAN
    BY DEF CInv, Types
  <2> QED  BY <2>1 DEF OpenRecreating, Recreates, Suits
<1> QED  BY <1>1 DEF Agreed, AsWished

\* The one that leaves as the last was the only one, and no exception ended a context.
LEMMA LastAlone ==
    ASSUME CInv, NEW u \in User, pc[u] = "inside", connections[chan[u]] <= 1
    PROVE  Inside(chan[u]) = {u} /\ leaked[chan[u]] = 0
<1> DEFINE c == chan[u]
           S == Inside(c)
           R == S \ {u}
<1>1. c \in Channel /\ leaked[c] \in Nat
  BY DEF CInv, Types
<1>2. u \in S
  BY DEF Inside
<1>3. connections[c] = Cardinality(S) + leaked[c]
  BY <1>1 DEF CInv, Counted
<1>4. IsFiniteSet(S) /\ Cardinality(S) \in Nat
  BY InsideFinite
<1>5. IsFiniteSet(R) /\ Cardinality(R) = Cardinality(S) - 1
  BY <1>2, <1>4, FS_RemoveElement
<1>6. Cardinality(R) \in Nat
  BY <1>5, FS_CardinalityType
<1>7. Cardinality(R) = 0 /\ leaked[c] = 0
  BY <1>1, <1>3, <1>4, <1>5, <1>6
<1>8. R = {}
  BY <1>5, <1>7, FS_EmptySet
<1> QED  BY <1>2, <1>7, <1>8

\* Whoever closes the instance of a Channel on leaving is the last one inside, whatever
\* callers ask for and however contexts end: an exception in a context makes the count
\* only too large.
THEOREM LastClosesHolds == Spec => LastCloses
<1> DEFINE LastStep == \A u \in User : pc[u] = "inside" /\ pc'[u] = "closing" => Inside(chan[u]) = {u}
<1>1. CInv /\ [Next]_vars => [LastStep]_vars
  <2> SUFFICES ASSUME CInv, Next, NEW u \in User, pc[u] = "inside", pc'[u] = "closing"
               PROVE  Inside(chan[u]) = {u}
    OBVIOUS
  <2>1. ASSUME NEW v \in User, NEW c \in Channel, Open(v, c) PROVE FALSE
    <3>1. pc[v] = "idle" /\ pc' = [pc EXCEPT ![v] = "inside"]
      BY <2>1 DEF Open, Lookup, Enter
    <3> QED  BY <3>1 DEF CInv, Types
  <2>2. ASSUME NEW v \in User, NEW c \in Channel, OpenRecreating(v, c) PROVE FALSE
    BY <2>2 DEF OpenRecreating, CInv, Types
  <2>3. ASSUME NEW v \in User, Recreated(v) PROVE FALSE
    BY <2>3 DEF Recreated, Enter, CInv, Types
  <2>4. ASSUME NEW v \in User, CancelledInClose(v) \/ Closed(v) \/ LeaveByException(v) PROVE FALSE
    BY <2>4 DEF CancelledInClose, Closed, LeaveByException, CInv, Types
  <2>5. ASSUME NEW v \in User, Leave(v) PROVE Inside(chan[u]) = {u}
    <3>1. PICK to \in {"closing", "failed", "idle"} :
             /\ pc' = [pc EXCEPT ![v] = to]
             /\ to = "closing" => connections[chan[v]] <= 1
      BY <2>5 DEF Leave
    <3>2. u = v /\ to = "closing"
      BY <3>1 DEF CInv, Types
    <3> QED  BY <3>1, <3>2, LastAlone
  <2>6. CASE Rest
    BY <2>6 DEF Rest, vars
  <2> QED  BY <2>1, <2>2, <2>3, <2>4, <2>5, <2>6 DEF Next
<1> QED  BY <1>1, InitCInv, StepCInv, PTL DEF Spec, LastCloses

\* Somebody else is inside or an exception ended a context, if there are more connections.
LEMMA NotLast ==
    ASSUME CInv, NEW u \in User, pc[u] = "inside", connections[chan[u]] > 1
    PROVE  Inside(chan[u]) \ {u} # {} \/ leaked[chan[u]] > 0
<1> DEFINE c == chan[u]
           S == Inside(c)
<1>1. c \in Channel /\ leaked[c] \in Nat
  BY DEF CInv, Types
<1>2. SUFFICES ASSUME S \ {u} = {}, leaked[c] = 0 PROVE FALSE
  BY <1>1
<1>3. connections[c] = Cardinality(S) + leaked[c]
  BY <1>1 DEF CInv, Counted
<1>4. S = {u}
  BY <1>2 DEF Inside
<1>5. Cardinality(S) = 1
  BY <1>4, FS_Singleton
<1> QED  BY <1>2, <1>3, <1>5

LEMMA LeaveAgreed ==
    ASSUME CInv, Agreed, NEW u \in User, Leave(u)
    PROVE  Agreed'
<1> DEFINE c == chan[u]
           last == ~persistent[c] /\ connections[c] <= 1
<1>1. /\ pc[u] = "inside"
      /\ UNCHANGED <<wish, channels, persistent, option, instance, stub, instances, chan, used,
                     leaked>>
  BY DEF Leave
<1>2. c \in Channel /\ c = table /\ table # None /\ connections[c] \in Int
  BY <1>1, NoneApart DEF Agreed, InTable, CInv, Types
<1>3. AsWished' /\ Cached'
  BY <1>1 DEF Agreed, AsWished, Cached, Suits
<1>4. CASE last
  <2>1. table' = None /\ open' = open \ {instance[c]} /\ pc' = [pc EXCEPT ![u] = "closing"]
    BY <1>2, <1>4 DEF Leave
  <2>2. OneOpen'
    BY <1>2, <2>1 DEF Agreed, OneOpen
  <2>3. Inside(c) = {u}
    BY <1>1, <1>4, LastAlone
  <2>4. InTable'
    <3>1. \A v \in User \ {u} : pc'[v] = pc[v] /\ pc[v] # "inside"
      BY <1>2, <2>1, <2>3 DEF Agreed, InTable, Inside, CInv, Types
    <3>2. pc'[u] = "closing"
      BY <2>1 DEF CInv, Types
    <3> QED  BY <3>1, <3>2 DEF Agreed, InTable
  <2>5. Kept'
    BY <2>1 DEF Kept
  <2> QED  BY <1>3, <2>2, <2>4, <2>5 DEF Agreed
<1>5. CASE ~last
  <2>1. table' = table /\ open' = open /\ pc' = [pc EXCEPT ![u] = "idle"]
    BY <1>5 DEF Leave
  <2>2. OneOpen'
    BY <1>1, <2>1 DEF Agreed, OneOpen
  <2>3. /\ pc'[u] = "idle"
        /\ \A v \in User \ {u} : pc'[v] = pc[v]
    BY <2>1 DEF CInv, Types
  <2>4. InTable'
    BY <1>1, <2>1, <2>3 DEF Agreed, InTable
  <2>5. Inside(c)' = Inside(c) \ {u}
    BY <1>1, <2>3 DEF Inside
  <2>6. persistent[c] \/ Inside(c)' # {} \/ leaked[c] > 0
    BY <1>1, <1>2, <1>5, <2>5, NotLast
  <2>7. Kept'
    BY <1>1, <1>2, <2>1, <2>6 DEF Agreed, Kept
  <2> QED  BY <1>3, <2>2, <2>4, <2>7 DEF Agreed
<1> QED  BY <1>4, <1>5

LEMMA ExceptionAgreed ==
    ASSUME CInv, Agreed, NEW u \in User, LeaveByException(u)
    PROVE  Agreed'
<1>1. /\ pc[u] = "inside" /\ pc' = [pc EXCEPT ![u] = "idle"]
      /\ leaked' = [leaked EXCEPT ![chan[u]] = @ + 1]
      /\ UNCHANGED <<wish, table, channels, persistent, option, instance, instances, open, chan, used>>
  BY DEF LeaveByException
<1>2. chan[u] = table /\ table \in Channel /\ leaked[table] \in Nat
  BY <1>1 DEF Agreed, InTable, CInv, Types
<1>3. leaked'[table] = leaked[table] + 1
  BY <1>1, <1>2 DEF CInv, Types
<1>4. /\ pc'[u] = "idle"
      /\ \A v \in User \ {u} : pc'[v] = pc[v]
  BY <1>1 DEF CInv, Types
<1>5. AsWished' /\ OneOpen'
  BY <1>1 DEF Agreed, AsWished, OneOpen, Suits
<1>6. InTable' /\ Cached'
  <2>1. stub' = stub
    <3>1. stub[chan[u]] = instance[chan[u]]
      BY <1>2 DEF Agreed, Cached
    <3> QED  BY <3>1 DEF LeaveByException, CInv, Types
  <2> QED  BY <1>1, <1>4, <2>1 DEF Agreed, InTable, Cached
<1>7. leaked'[table'] > 0
  BY <1>1, <1>2, <1>3
<1>8. Kept'
  BY <1>1, <1>7 DEF Agreed, Kept
<1> QED  BY <1>5, <1>6, <1>8 DEF Agreed

LEMMA StepAInv == AInv /\ [Next]_vars => AInv'
<1> SUFFICES ASSUME AInv, [Next]_vars PROVE AInv'
  OBVIOUS
<1>1. CInv /\ CInv'
  BY StepCInv DEF AInv
<1>2. wish' = wish
  BY DEF Next, Rest, vars, Open, OpenRecreating, Recreated, CancelledInClose, Leave, Closed,
         LeaveByException
<1>3. SUFFICES ASSUME Agreeing' PROVE Agreed'
  BY <1>1 DEF AInv
<1>4. Agreeing /\ Agreed
  BY <1>2, <1>3 DEF AInv, Agreeing
<1>5. CASE UNCHANGED vars
  BY <1>4, <1>5 DEF vars, Agreed, AsWished, Cached, OneOpen, InTable, Kept, Suits, Inside
<1>6. ASSUME NEW u \in User, NEW c \in Channel, Open(u, c) PROVE Agreed'
  BY <1>1, <1>4, <1>6, FirstOpen, NextOpen
<1>7. ASSUME NEW u \in User, NEW c \in Channel, OpenRecreating(u, c) PROVE Agreed'
  BY <1>1, <1>4, <1>7, NoRecreating
<1>8. ASSUME NEW u \in User, Recreated(u) PROVE Agreed'
  BY <1>4, <1>8 DEF Recreated, Agreed, InTable
<1>9. ASSUME NEW u \in User, CancelledInClose(u) \/ Closed(u) PROVE Agreed'
  <2>1. /\ pc[u] # "inside" /\ pc' = [pc EXCEPT ![u] = "idle"]
        /\ UNCHANGED <<wish, table, channels, fields, instances, open, chan, used, leaked>>
    BY <1>9 DEF CancelledInClose, Closed
  <2>2. /\ pc'[u] = "idle"
        /\ \A v \in User \ {u} : pc'[v] = pc[v]
    BY <1>1, <2>1 DEF CInv, Types
  <2>3. \A c : Inside(c)' = Inside(c)
    BY <2>1, <2>2 DEF Inside
  <2>4. AsWished' /\ Cached' /\ OneOpen'
    BY <1>4, <2>1 DEF Agreed, AsWished, Cached, OneOpen, Suits, fields
  <2>5. InTable' /\ Kept'
    BY <1>4, <2>1, <2>2, <2>3 DEF Agreed, InTable, Kept, fields
  <2> QED  BY <2>4, <2>5 DEF Agreed
<1>10. ASSUME NEW u \in User, Leave(u) PROVE Agreed'
  BY <1>1, <1>4, <1>10, LeaveAgreed
<1>11. ASSUME NEW u \in User, LeaveByException(u) PROVE Agreed'
  BY <1>1, <1>4, <1>11, ExceptionAgreed
<1> QED
  BY <1>5, <1>6, <1>7, <1>8, <1>9, <1>10, <1>11 DEF Next, Rest

\* However many callers there are: those that agree never close an instance under each
\* other.
THEOREM InUseHolds == Spec => []InUse
<1>1. AInv => InUse
  <2> SUFFICES ASSUME AInv, Agreeing, NEW u \in User, pc[u] = "inside"
               PROVE  used[u] \in open /\ used[u] = instance[chan[u]] /\ chan[u] = table
    BY DEF InUse
  <2>1. chan[u] = table /\ used[u] = instance[table] /\ chan[u] \in Channel
    BY DEF AInv, Agreed, InTable, CInv, Types
  <2> QED  BY <2>1, NoneApart DEF AInv, Agreed, OneOpen
<1> QED  BY <1>1, InitAInv, StepAInv, PTL DEF Spec

\* Callers that agree leave no instance open that nobody needs, and the last one to
\* leave always finds the entry of the table.
THEOREM NothingLeftHolds == Spec => []NothingLeft
<1>1. AInv => NothingLeft
  BY DEF AInv, Agreed, OneOpen, Kept, InTable, NothingLeft
<1> QED  BY <1>1, InitAInv, StepAInv, PTL DEF Spec

-----------------------------------------------------------------------------
(* Callers that all want a persistent channel.                             *)

AllPersistent == \A u \in User : wish[u].persistent
Created == table <= channels /\ \A u \in User : chan[u] <= channels
MadePersistent == AllPersistent => \A c \in Channel : c <= channels => persistent[c]
PInv == CInv /\ Created /\ MadePersistent

LEMMA InitPInv == Init => PInv
<1> SUFFICES ASSUME Init PROVE Created /\ MadePersistent
  BY InitCInv DEF PInv
<1> QED  BY NoneApart DEF Init, Created, MadePersistent

\* Opening a context creates no Channel that is not persistent.
LEMMA LookupPersistent ==
    ASSUME PInv, NEW u \in User, NEW c \in Channel, Lookup(u, c), wish' = wish
    PROVE  Created' /\ MadePersistent'
<1>1. /\ c = IF table = None THEN channels + 1 ELSE table
      /\ table' = c
      /\ channels' = IF table = None THEN c ELSE channels
      /\ persistent' = IF table = None THEN [persistent EXCEPT ![c] = wish[u].persistent]
                                       ELSE persistent
      /\ chan' = [chan EXCEPT ![u] = c]
  BY DEF Lookup
<1>2. table \in Nat /\ channels \in Nat /\ c \in Nat /\ \A v \in User : chan[v] \in Nat
  <2>1. /\ table \in Channel \cup {None} /\ channels \in Nat
        /\ chan \in [User -> Channel \cup {None}]
    BY DEF PInv, CInv, Types
  <2>2. Channel \cup {None} \subseteq Nat
    BY NoneApart
  <2>3. \A v \in User : chan[v] \in Channel \cup {None}
    BY <2>1
  <2> QED  BY <2>1, <2>2, <2>3
<1>3. channels <= channels' /\ c <= channels' /\ channels' \in Nat
  BY <1>1, <1>2 DEF PInv, Created
<1>4. \A v \in User : chan'[v] = chan[v] \/ chan'[v] = c
  BY <1>1 DEF PInv, CInv, Types
<1>5. Created'
  BY <1>1, <1>2, <1>3, <1>4 DEF PInv, Created
<1>6. ASSUME AllPersistent', NEW d \in Channel, d <= channels' PROVE persistent'[d]
  <2>1. AllPersistent /\ wish[u].persistent
    BY <1>6 DEF AllPersistent
  <2>2. CASE table # None
    BY <1>1, <1>6, <2>1, <2>2 DEF PInv, MadePersistent
  <2>3. CASE table = None /\ d = c
    BY <1>1, <2>1, <2>3 DEF PInv, CInv, Types
  <2>4. CASE table = None /\ d # c
    <3>1. d <= channels
      BY <1>1, <1>2, <1>6, <2>4, NoneApart
    <3>2. persistent[d]
      BY <2>1, <3>1 DEF PInv, MadePersistent
    <3> QED  BY <1>1, <2>4, <3>2 DEF PInv, CInv, Types
  <2> QED  BY <2>2, <2>3, <2>4
<1> QED  BY <1>5, <1>6 DEF MadePersistent

\* The channel that is left by the last one is not persistent.
LEMMA LeavePersistent ==
    ASSUME PInv, AllPersistent, NEW u \in User, Leave(u)
    PROVE  table' = table
<1>1. chan[u] \in Channel
  BY DEF PInv, CInv, Types, Leave
<1>2. persistent[chan[u]]
  BY <1>1 DEF PInv, Created, MadePersistent
<1> QED  BY <1>2 DEF Leave

LEMMA StepPInv == PInv /\ [Next]_vars => PInv'
<1> SUFFICES ASSUME PInv, [Next]_vars PROVE Created' /\ MadePersistent'
  BY StepCInv DEF PInv
<1>1. CASE UNCHANGED vars
  BY <1>1 DEF vars, PInv, Created, MadePersistent, AllPersistent
<1>2. ASSUME NEW u \in User, NEW c \in Channel, Open(u, c) \/ OpenRecreating(u, c)
      PROVE  Created' /\ MadePersistent'
  BY <1>2, LookupPersistent DEF Open, OpenRecreating
<1>3. ASSUME NEW u \in User, \/ Recreated(u) \/ CancelledInClose(u) \/ Leave(u)
                             \/ Closed(u) \/ LeaveByException(u)
      PROVE  Created' /\ MadePersistent'
  <2>1. UNCHANGED <<wish, channels, persistent, chan>>
    BY <1>3 DEF Recreated, CancelledInClose, Leave, Closed, LeaveByException, fields
  <2>2. table' = table \/ table' = None
    BY <1>3 DEF Recreated, CancelledInClose, Leave, Closed, LeaveByException
  <2>3. channels \in Nat
    BY DEF PInv, CInv, Types
  <2>4. Created'
    BY <2>1, <2>2, <2>3, NoneApart DEF PInv, Created
  <2>5. MadePersistent'
    <3>1. AllPersistent' => AllPersistent
      BY <2>1 DEF AllPersistent
    <3>2. \A c \in Channel : persistent'[c] = persistent[c]
      BY <2>1
    <3>3. AllPersistent => \A c \in Channel : c <= channels => persistent[c]
      BY DEF PInv, MadePersistent
    <3>4. channels' = channels
      BY <2>1
    <3> QED  BY <3>1, <3>2, <3>3, <3>4 DEF MadePersistent
  <2> QED  BY <2>4, <2>5
<1> QED  BY <1>1, <1>2, <1>3 DEF Next, Rest

\* Persistent callers keep their Channel whatever options they ask for: its instance may
\* be replaced, but the entry of the table stays.
THEOREM PersistentStaysHolds == Spec => PersistentStays
<1>1. PInv /\ [Next]_vars => [AllPersistent /\ table # None => table' = table]_vars
  <2> SUFFICES ASSUME PInv, Next, AllPersistent, table # None
               PROVE  table' = table \/ UNCHANGED vars
    OBVIOUS
  <2>1. ASSUME NEW u \in User, NEW c \in Channel, Open(u, c) \/ OpenRecreating(u, c)
        PROVE  table' = table
    BY <2>1 DEF Open, OpenRecreating, Lookup
  <2>2. ASSUME NEW u \in User,
               Recreated(u) \/ CancelledInClose(u) \/ Closed(u) \/ LeaveByException(u)
        PROVE  table' = table
    BY <2>2 DEF Recreated, CancelledInClose, Closed, LeaveByException
  <2>3. ASSUME NEW u \in User, Leave(u) PROVE table' = table
    BY <2>3, LeavePersistent
  <2> QED  BY <2>1, <2>2, <2>3 DEF Next, Rest
<1> QED  BY <1>1, InitPInv, StepPInv, PTL DEF Spec, PersistentStays, AllPersistent

-----------------------------------------------------------------------------
(* The connection to another agent (GrpcConnection).                       *)

Streaming == {"connect", "process", "stream"}

(***************************************************************************)
(* The agent has heard of the connection as the flag says; while the       *)
(* connection is established, or once a response came, the wait is reset.  *)
(***************************************************************************)
Heard ==
    /\ announced = connected
    /\ stage \in Streaming /\ (connected \/ answered) => wait = 0
    /\ stage \in {"connect", "process"} \/ (stage = "stream" /\ answered) => connected
    /\ stage = "disconnect" => ~connected /\ wait = 0
    /\ stage = "sleep" => ~connected
    /\ PromptRetry

ConnectionInv == ConnectionTypeOK /\ Heard

LEMMA Waits == /\ 0 \in 0 .. WaitCap /\ WaitCap \in 0 .. WaitCap
               /\ \A w \in 0 .. WaitCap : w < WaitCap => w + 1 \in 0 .. WaitCap
  BY ConnectionAssumption

LEMMA ConnectionBegin == ConnectionInit => ConnectionInv
<1>1. ConnectionInit => ConnectionTypeOK
  BY Waits, ZenonT(30)
      DEF ConnectionInit, ConnectionTypeOK, Running, Interruptible, Callbacks
<1> QED BY <1>1 DEF ConnectionInit, ConnectionInv, Heard, PromptRetry, Streaming

LEMMA ConnectionTypes == ConnectionTypeOK /\ [ConnectionNext]_connectionVars => ConnectionTypeOK'
<1> SUFFICES ASSUME ConnectionTypeOK, [ConnectionNext]_connectionVars PROVE ConnectionTypeOK'
  OBVIOUS
<1> USE Waits DEF ConnectionTypeOK, Running, Interruptible, Callbacks, ghosts
<1>1. CASE UNCHANGED connectionVars \/ StreamEnds
  <2>1. UNCHANGED connectionVars
    BY <1>1, Zenon DEF StreamEnds
  <2> QED  BY <2>1, Zenon DEF connectionVars
<1>2. CASE CallCreates
  BY <1>2, Zenon DEF CallCreates
<1>3. CASE CallIgnored \/ Stop \/ StopIgnored
  <2>1. CASE CallIgnored
    BY <2>1, Zenon DEF CallIgnored
  <2>2. CASE Stop
    BY <2>2, Zenon DEF Stop
  <2>3. CASE StopIgnored
    BY <2>3, Zenon DEF StopIgnored
  <2> QED  BY <1>3, <2>1, <2>2, <2>3
<1>4. CASE ServerChanges
  BY <1>4, Zenon DEF ServerChanges
<1>5. CASE Begins
  BY <1>5, Zenon DEF Begins
<1>6. CASE CallbackReturns
  BY <1>6, Zenon DEF CallbackReturns
<1>7. Sleep => stage' \in Running /\ wait' \in 0 .. WaitCap
  BY Zenon DEF Sleep
<1>8. Fails => /\ stage' \in Running /\ wait' \in 0 .. WaitCap
               /\ connected' \in BOOLEAN /\ announced' \in BOOLEAN
  BY <1>7, Zenon DEF Fails
<1>9. CASE StreamFails \/ CallbackRpcError
  BY <1>8, <1>9, Zenon DEF StreamFails, CallbackRpcError
<1>10. CASE Disconnected
  BY <1>7, <1>10, Zenon DEF Disconnected
<1>11. CASE Wakes
  BY <1>11, Zenon DEF Wakes
<1>12. CASE Interrupted \/ Dropped
  BY <1>12, Zenon DEF Interrupted, Dropped
<1>13. CASE CleanupReturns \/ CallbackError \/ ChannelClosed
  <2>1. CASE CleanupReturns
    BY <2>1, Zenon DEF CleanupReturns
  <2>2. CASE CallbackError
    BY <2>2, Zenon DEF CallbackError
  <2>3. CASE ChannelClosed
    BY <2>3, Zenon DEF ChannelClosed
  <2> QED  BY <1>13, <2>1, <2>2, <2>3
<1>14. CASE Response
  BY <1>14, Zenon DEF Response
<1> QED  BY <1>1, <1>2, <1>3, <1>4, <1>5, <1>6, <1>9, <1>10, <1>11, <1>12, <1>13, <1>14
    DEF ConnectionNext, TaskStep, Environment

LEMMA ConnectionStep == ConnectionInv /\ [ConnectionNext]_connectionVars => ConnectionInv'
<1> SUFFICES ASSUME ConnectionTypeOK, Heard, [ConnectionNext]_connectionVars PROVE Heard'
  BY ConnectionTypes DEF ConnectionInv, Heard
<1>0. wait \in Nat /\ WaitCap > 0 /\ WaitCap \in Nat
  BY ConnectionAssumption DEF ConnectionTypeOK
<1> USE <1>0
    DEF Heard, PromptRetry, Streaming, Running, Interruptible, Callbacks,
        ghosts
<1>1. CASE UNCHANGED connectionVars \/ StreamEnds
  BY <1>1 DEF connectionVars, StreamEnds
<1>2. CASE CallCreates
  BY <1>2 DEF CallCreates
<1>3. CASE CallIgnored \/ Stop \/ StopIgnored
  BY <1>3 DEF CallIgnored, Stop, StopIgnored
<1>4. CASE ServerChanges
  BY <1>4 DEF ServerChanges
<1>5. CASE Begins
  BY <1>5 DEF Begins
<1>6. CASE CallbackReturns
  BY <1>6 DEF CallbackReturns
<1>7. ASSUME Sleep, ~connected, ~connected', answered => wait = 0,
             announced' = connected', answered' = answered
      PROVE Heard'
  BY <1>7 DEF Sleep
<1>8. ASSUME Fails, stage \in Streaming, answered' = answered
      PROVE Heard'
  <2>1. CASE connected
    BY <1>8, <2>1 DEF Fails
  <2>2. CASE ~connected
    BY <1>7, <1>8, <2>2 DEF Fails
  <2> QED BY <2>1, <2>2
<1>9. CASE StreamFails \/ CallbackRpcError
  BY <1>8, <1>9 DEF StreamFails, CallbackRpcError
<1>10. CASE Disconnected
  BY <1>7, <1>10 DEF Disconnected
<1>11. CASE Wakes
  BY <1>11 DEF Wakes
<1>12. CASE Interrupted \/ Dropped
  BY <1>12 DEF Interrupted, Dropped
<1>13. CASE CleanupReturns \/ CallbackError \/ ChannelClosed
  BY <1>13 DEF CleanupReturns, CallbackError, ChannelClosed
<1>14. CASE Response
  BY <1>14 DEF Response
<1> QED  BY <1>1, <1>2, <1>3, <1>4, <1>5, <1>6, <1>9, <1>10, <1>11, <1>12, <1>13, <1>14
    DEF ConnectionNext, TaskStep, Environment

\* The variables of the connection coroutine keep their types: no wait between two attempts
\* is longer than the longest one, and only a coroutine that runs is cancelled.
THEOREM ConnectionTypeCorrect == ConnectionSpec => []ConnectionTypeOK
<1>1. ConnectionInv => ConnectionTypeOK
  BY DEF ConnectionInv
<1> QED BY <1>1, ConnectionBegin, ConnectionStep, PTL DEF ConnectionSpec

\* After a connection that was established the next attempt follows the shortest wait,
\* for every longest wait and whatever the callbacks raise.
THEOREM PromptRetryHolds == ConnectionSpec => []PromptRetry
<1>1. ConnectionInv => PromptRetry
  BY DEF ConnectionInv, Heard
<1> QED BY <1>1, ConnectionBegin, ConnectionStep, PTL DEF ConnectionSpec

\* The agent hears of connections and their loss alternately, across errors, stops and
\* restarts at any time.
THEOREM AlternatingHolds == ConnectionSpec => Alternating
<1>1. ConnectionInv /\ [ConnectionNext]_connectionVars =>
        [/\ stage' = "connect" /\ stage # "connect" => ~announced
         /\ stage' = "disconnect" /\ stage # "disconnect" => announced]_connectionVars
  <2> SUFFICES ASSUME ConnectionInv, ConnectionNext
               PROVE  /\ stage' = "connect" /\ stage # "connect" => ~announced
                      /\ stage' = "disconnect" /\ stage # "disconnect" => announced
    OBVIOUS
  <2>1. announced = connected
    BY DEF ConnectionInv, Heard
  <2>2. stage' = "connect" /\ stage # "connect" => Response
    BY Zenon
        DEF ConnectionNext, TaskStep, Environment, CallCreates, CallIgnored,
            Stop, StopIgnored, Begins, CallbackReturns, StreamFails,
            Disconnected, Wakes, Interrupted, Dropped, CleanupReturns,
            StreamEnds, connectionVars, CallbackRpcError, CallbackError,
            ChannelClosed, ServerChanges, Fails, Sleep
  <2>3. stage' = "disconnect" /\ stage # "disconnect" => Fails
    BY Zenon
        DEF ConnectionNext, TaskStep, Environment, CallCreates, CallIgnored,
            Stop, StopIgnored, Begins, CallbackReturns, StreamFails,
            Disconnected, Wakes, Interrupted, Dropped, CleanupReturns,
            StreamEnds, connectionVars, CallbackRpcError, CallbackError,
            ChannelClosed, ServerChanges, Response, Sleep
  <2> QED BY <2>1, <2>2, <2>3 DEF Response, Fails, Sleep
<1> QED BY <1>1, ConnectionBegin, ConnectionStep, PTL DEF ConnectionSpec, Alternating
==============================================================================
