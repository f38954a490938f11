------------------------- MODULE ChainSearchProofs --------------------------
(***************************************************************************)
(* Proofs about ChainSearch, for every set of names and every size of the  *)
(* index.                                                                  *)
(***************************************************************************)
EXTENDS ChainSearch, TLAPS

\* What the loop keeps: pos is below end, and end is either the size of the array or a
\* slot whose name is greater than the one searched.  The jump forward relies on it:
\* pos + 1 is then below end, so that halfway between pos and end is beyond pos.
IInv ==
    /\ TypeOK
    /\ Ascending(key, sz)
    /\ pc = "loop" => /\ pos < end
                      /\ end < sz => name < key[end]
    /\ RightSection

\* Names are integers, so that two of them compare one way.
LEMMA KeyFacts ==
  ASSUME TypeOK
  PROVE  /\ sz \in Int /\ sz >= 1 /\ name \in Int
         /\ \A i \in 0 .. sz - 1 : key[i] \in Int
  <1>1. \A i \in 0 .. sz - 1 : key[i] \in Keys
    BY DEF TypeOK
  <1>2. sz \in Int /\ sz >= 1 /\ name \in Keys
    BY ChainSearchAssumption DEF TypeOK
  <1> QED BY <1>1, <1>2, ChainSearchAssumption

LEMMA InitIInv == SearchInit => IInv
  <1> SUFFICES ASSUME SearchInit PROVE IInv
    OBVIOUS
  <1>1. sz \in Int /\ sz >= 1 /\ sz \div 2 \in 0 .. sz - 1
    BY ChainSearchAssumption DEF SearchInit
  <1> QED BY <1>1 DEF SearchInit, IInv, TypeOK, RightSection

\* A search that stops at slot p, which is slot 0 or not greater than name, while the
\* slot behind it is greater or missing, has found the right section.
LEMMA StopStep ==
  ASSUME IInv, pc = "loop", NEW p \in 0 .. sz - 1, Found(p), UNCHANGED <<sz, key, name>>,
         p = 0 \/ key[p] <= name,
         p < sz - 1 => name < key[p + 1]
  PROVE  IInv'
  <1>1. sz \in Int /\ name \in Int /\ \A i \in 0 .. sz - 1 : key[i] \in Int
    BY KeyFacts DEF IInv
  <1>2. TypeOK'
    BY DEF IInv, TypeOK, Found
  <1>3. \A i \in p + 1 .. sz - 1 : name < key[i]
    <2> SUFFICES ASSUME NEW i \in p + 1 .. sz - 1 PROVE name < key[i]
      OBVIOUS
    <2>1. name < key[p + 1] /\ p + 1 \in 0 .. sz - 1 /\ i \in 0 .. sz - 1
      BY <1>1
    <2>2. i = p + 1 \/ key[p + 1] < key[i]
      BY <1>1, <2>1 DEF IInv, Ascending
    <2>3. key[i] \in Int /\ key[p + 1] \in Int
      BY <1>1, <2>1
    <2> QED BY <1>1, <2>1, <2>2, <2>3
  <1>4. RightSection'
    BY <1>3 DEF RightSection, Found
  <1> QED BY <1>2, <1>4 DEF IInv, Found, Ascending

LEMMA TurnStep == IInv /\ SearchTurn => IInv'
  <1> SUFFICES ASSUME IInv, SearchTurn PROVE IInv'
    OBVIOUS
  <1>0. sz \in Int /\ name \in Int /\ \A i \in 0 .. sz - 1 : key[i] \in Int
    BY KeyFacts DEF IInv
  <1>1. /\ pc = "loop" /\ sz \in Int /\ name \in Int /\ UNCHANGED <<sz, key, name>>
        /\ pos \in 0 .. sz - 1 /\ end \in 1 .. sz /\ pos < end
        /\ \A i \in 0 .. sz - 1 : key[i] \in Int
    BY <1>0 DEF IInv, TypeOK, SearchTurn
  <1>2. CASE DirectHit
    <2>1. name = key[pos] /\ Found(pos)
      BY <1>2 DEF DirectHit
    <2>2. pos < sz - 1 => name < key[pos + 1]
      BY <1>1, <2>1 DEF IInv, Ascending
    <2> QED BY <1>1, <2>1, <2>2, StopStep
  <1>3. CASE SearchBack
    <2>1. CASE pos = 0 /\ Found(pos)
      <3>1. name < key[0]
        BY <1>3, <2>1 DEF SearchBack
      <3>2. 0 < sz - 1 => name < key[1]
        <4> SUFFICES ASSUME 0 < sz - 1 PROVE name < key[1]
          OBVIOUS
        <4>1. key[0] < key[1] /\ key[0] \in Int /\ key[1] \in Int
          BY <1>1 DEF IInv, Ascending
        <4> QED BY <1>1, <3>1, <4>1
      <3> QED BY <1>1, <2>1, <3>2, StopStep
    <2>2. CASE pos # 0 /\ end' = pos /\ pos' = Back(pos) /\ UNCHANGED pc
      <3>1. pos' \in 0 .. sz - 1 /\ end' \in 1 .. sz /\ pos' < end'
        BY <1>1, <2>2 DEF Back
      <3>2. name < key[end']
        BY <1>3, <2>2 DEF SearchBack
      <3> QED BY <1>1, <2>2, <3>1, <3>2 DEF IInv, TypeOK, RightSection, Ascending
    <2> QED BY <1>3, <2>1, <2>2 DEF SearchBack
  <1>4. CASE SearchForward
    <2>0. key[pos] \in Int /\ key[pos] <= name
      BY <1>1, <1>4 DEF SearchForward
    <2>1. CASE pos = sz - 1 /\ Found(pos)
      BY <1>1, <2>0, <2>1, StopStep
    <2>2. CASE pos # sz - 1 /\ Between(pos) /\ Found(pos)
      BY <1>1, <2>0, <2>2, StopStep DEF Between
    <2>3. CASE pos # sz - 1 /\ ~Between(pos) /\ pos' = Ahead(pos, end) /\ UNCHANGED <<end, pc>>
      <3>1. pos + 1 # end
        BY <1>1, <2>3 DEF Between, IInv
      <3>2. pos' \in 0 .. sz - 1 /\ pos' < end
        BY <1>1, <2>3, <3>1 DEF Ahead
      <3> QED BY <1>1, <2>3, <3>2 DEF IInv, TypeOK, RightSection, Ascending
    <2> QED BY <1>4, <2>1, <2>2, <2>3 DEF SearchForward
  <1> QED BY <1>2, <1>3, <1>4 DEF SearchTurn

LEMMA IInvInvariant == SearchSpec => []IInv
  <1>1. IInv /\ [SearchTurn]_searchvars => IInv'
    <2>1. ASSUME IInv, UNCHANGED searchvars PROVE IInv'
      BY <2>1 DEF IInv, TypeOK, RightSection, Ascending, searchvars
    <2> QED BY <2>1, TurnStep DEF SearchTurn
  <1> QED BY InitIInv, <1>1, PTL DEF SearchSpec

\* The search never leaves the array, whatever its size and contents.
THEOREM SearchInArray == SearchSpec => []TypeOK
  <1>1. IInv => TypeOK
    BY DEF IInv
  <1> QED BY IInvInvariant, <1>1, PTL

\* The slot returned begins the section of the list the name belongs to, for every size
\* of the index and every name, present or not.
THEOREM SearchRight == SearchSpec => []RightSection
  <1>1. IInv => RightSection
    BY DEF IInv
  <1> QED BY IInvInvariant, <1>1, PTL
=============================================================================
