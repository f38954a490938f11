--------------------------- MODULE RevisionsProofs ---------------------------
(***************************************************************************)
(* Machine-checked proofs about Revisions, for every set of structures,    *)
(* every kernel and every order of registration.                           *)
(***************************************************************************)
EXTENDS Revisions, TLAPS

IInv ==
    /\ compatible \subseteq Structs /\ waiting \subseteq Structs
    /\ serving \in [Names -> Structs \cup {NULL}]
    /\ BestServes

\* The comparison of xtables_mt_prefer is a strict order of the structures of a name.
LEMMA PreferOrders ==
  ASSUME NEW a \in Structs, NEW b \in Structs, NEW c \in Structs,
         Desc[a].name = Desc[b].name, Desc[b].name = Desc[c].name
  PROVE  /\ a = b \/ Prefer(a, b) \/ Prefer(b, a)
         /\ Prefer(a, b) /\ Prefer(b, c) => Prefer(a, c)
  <1>1. \A x \in {a, b, c} : Desc[x].alias \in BOOLEAN /\ Desc[x].revision \in Nat /\ Desc[x].specific \in BOOLEAN
    BY StructsAssumption
  <1>2. a = b \/ Prefer(a, b) \/ Prefer(b, a)
    <2>1. CASE Desc[a].alias # Desc[b].alias BY <2>1, <1>1 DEF Prefer
    <2>2. CASE Desc[a].alias = Desc[b].alias /\ Desc[a].revision # Desc[b].revision BY <2>2, <1>1 DEF Prefer
    <2>3. CASE Desc[a].alias = Desc[b].alias /\ Desc[a].revision = Desc[b].revision
      <3>1. Desc[a].specific = Desc[b].specific => a = b BY <2>3, DistinctAssumption
      <3>2. Desc[a].specific # Desc[b].specific => Prefer(a, b) \/ Prefer(b, a) BY <2>3, <1>1 DEF Prefer
      <3> QED BY <3>1, <3>2
    <2> QED BY <2>1, <2>2, <2>3
  <1>3. Prefer(a, b) /\ Prefer(b, c) => Prefer(a, c)
    BY <1>1 DEF Prefer
  <1> QED BY <1>2, <1>3

\* Of two structures of a name the code keeps one, a compatible one if there is one,
\* and the better one if both are.
LEMMA ChosenIsBetter ==
  ASSUME NEW old \in Structs, NEW me \in Structs, Desc[old].name = Desc[me].name
  PROVE  /\ Chosen(old, me) \in {old, me}
         /\ old \in compatible \/ me \in compatible => Chosen(old, me) \in compatible
         /\ old \in compatible => Chosen(old, me) = old \/ Prefer(Chosen(old, me), old)
         /\ me \in compatible => Chosen(old, me) = me \/ Prefer(Chosen(old, me), me)
  <1>1. old = me \/ Prefer(old, me) \/ Prefer(me, old) BY PreferOrders
  <1>2. CASE Prefer(old, me) /\ old \in compatible
    <2>1. Chosen(old, me) = old BY <1>2 DEF Chosen
    <2> QED BY <2>1, <1>2
  <1>3. CASE ~(Prefer(old, me) /\ old \in compatible) /\ me \in compatible
    <2>1. Chosen(old, me) = me BY <1>3 DEF Chosen
    <2> QED BY <2>1, <1>1, <1>3
  <1>4. CASE ~(Prefer(old, me) /\ old \in compatible) /\ me \notin compatible
    <2>1. Chosen(old, me) = old BY <1>4 DEF Chosen
    <2> QED BY <2>1, <1>4
  <1> QED BY <1>2, <1>3, <1>4

\* One more structure considered.
LEMMA RegisterKeeps ==
  ASSUME IInv, NEW me \in Structs, me \in waiting, Register(me)
  PROVE  IInv'
  <1> DEFINE n0 == Desc[me].name
             new == IF serving[n0] = NULL THEN me ELSE Chosen(serving[n0], me)
  <1>1. n0 \in Names BY DEF Names
  <1>2. /\ compatible' = compatible /\ waiting' = waiting \ {me}
        /\ serving' = [serving EXCEPT ![n0] = new]
    BY DEF Register
  <1>3. /\ compatible \subseteq Structs /\ waiting \subseteq Structs
        /\ serving \in [Names -> Structs \cup {NULL}]
    BY DEF IInv
  <1>4. /\ serving[n0] \in Considered(n0) \cup {NULL}
        /\ serving[n0] = NULL => Considered(n0) = {}
        /\ \A s \in Considered(n0) \cap compatible :
              serving[n0] \in compatible /\ (s = serving[n0] \/ Prefer(serving[n0], s))
    BY <1>1 DEF IInv, BestServes
  <1>5. Considered(n0)' = Considered(n0) \cup {me}
    BY <1>2 DEF Considered
  <1>6. \A n \in Names \ {n0} : Considered(n)' = Considered(n)
    BY <1>2 DEF Considered
  <1>7. new \in Considered(n0)'
    <2>1. CASE serving[n0] = NULL BY <2>1, <1>5
    <2>2. CASE serving[n0] # NULL
      <3>1. serving[n0] \in Structs /\ Desc[serving[n0]].name = n0 /\ serving[n0] \in Considered(n0)
        BY <2>2, <1>4 DEF Considered
      <3>2. Chosen(serving[n0], me) \in {serving[n0], me} BY <3>1, ChosenIsBetter
      <3> QED BY <3>1, <3>2, <2>2, <1>5
    <2> QED BY <2>1, <2>2
  <1>8. new \in Structs /\ new # NULL /\ Desc[new].name = n0
    BY <1>7, <1>5, StructsAssumption DEF Considered
  <1>9. \A s \in Considered(n0)' \cap compatible : new \in compatible /\ (s = new \/ Prefer(new, s))
    <2> SUFFICES ASSUME NEW s \in Considered(n0)', s \in compatible
                 PROVE  new \in compatible /\ (s = new \/ Prefer(new, s))
      OBVIOUS
    <2>1. CASE serving[n0] = NULL
      <3>1. s = me BY <2>1, <1>4, <1>5
      <3> QED BY <3>1, <2>1
    <2>2. CASE serving[n0] # NULL
      <3> DEFINE old == serving[n0]
      <3>1. old \in Structs /\ Desc[old].name = n0 BY <2>2, <1>4 DEF Considered
      <3>2. new = Chosen(old, me) BY <2>2
      <3>3. CASE s = me BY <3>1, <3>2, <3>3, ChosenIsBetter
      <3>4. CASE s # me
        <4>1. s \in Considered(n0) BY <3>4, <1>5
        <4>2. s \in Structs /\ Desc[s].name = n0 BY <4>1 DEF Considered
        <4>3. old \in compatible /\ (s = old \/ Prefer(old, s)) BY <4>1, <1>4
        <4>4. new \in compatible /\ (new = old \/ Prefer(new, old))
          BY <3>1, <3>2, <4>3, ChosenIsBetter
        <4> HIDE DEF new, old
        <4>5. Prefer(new, old) /\ Prefer(old, s) => Prefer(new, s)
          BY <1>8, <3>1, <4>2, PreferOrders
        <4> QED BY <4>3, <4>4, <4>5
      <3> QED BY <3>3, <3>4
    <2> QED BY <2>1, <2>2
  <1> HIDE DEF new
  <1>10. serving' \in [Names -> Structs \cup {NULL}]
    BY <1>2, <1>3, <1>8
  <1>11. BestServes'
    <2> SUFFICES ASSUME NEW n \in Names
                 PROVE  /\ serving'[n] \in Considered(n)' \cup {NULL}
                        /\ serving'[n] = NULL => Considered(n)' = {}
                        /\ \A s \in Considered(n)' \cap compatible' :
                              serving'[n] \in compatible' /\ (s = serving'[n] \/ Prefer(serving'[n], s))
      BY DEF BestServes, Names, Prefer
    <2>1. CASE n = n0
      <3>1. serving'[n] = new BY <2>1, <1>1, <1>2, <1>3
      <3> QED BY <3>1, <2>1, <1>2, <1>7, <1>8, <1>9
    <2>2. CASE n # n0
      <3>1. serving'[n] = serving[n] BY <2>2, <1>2, <1>3
      <3>2. Considered(n)' = Considered(n) BY <2>2, <1>6
      <3> QED BY <3>1, <3>2, <1>2 DEF IInv, BestServes
    <2> QED BY <2>1, <2>2
  <1> QED BY <1>2, <1>3, <1>10, <1>11 DEF IInv

\* Whatever revisions a name has, whichever of them the kernel knows and in whatever
\* order they register, the best that the kernel knows serves the name.
THEOREM BestRevision == Spec => []BestServes
  <1>1. Init => IInv
    <2> SUFFICES ASSUME Init PROVE IInv OBVIOUS
    <2>1. /\ compatible \subseteq Structs /\ waiting = Structs
          /\ serving = [n \in Names |-> NULL]
      BY DEF Init
    <2>2. \A n \in Names : serving[n] = NULL /\ Considered(n) = {}
      BY <2>1 DEF Considered
    <2> QED BY <2>1, <2>2 DEF IInv, BestServes
  <1>2. IInv /\ [Next]_rvars => IInv'
    <2> SUFFICES ASSUME IInv, [Next]_rvars PROVE IInv' OBVIOUS
    <2>1. CASE Next BY <2>1, RegisterKeeps DEF Next, IInv
    <2>2. CASE UNCHANGED rvars BY <2>2 DEF rvars, IInv, BestServes, Considered, Names, Prefer
    <2> QED BY <2>1, <2>2
  <1>3. IInv => BestServes BY DEF IInv
  <1> QED BY <1>1, <1>2, <1>3, PTL DEF Spec
=============================================================================
