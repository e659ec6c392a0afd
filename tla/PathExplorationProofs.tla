----------------------- MODULE PathExplorationProofs -----------------------
(***************************************************************************)
(* Proofs about PathExploration, for any set of inputs and any program.    *)
(***************************************************************************)
EXTENDS PathExploration, TLAPS

\* The inductive invariant.
IInv ==
    /\ TypeOK
    /\ LevelsMatch
    /\ PathsDisjoint
    /\ InputsAccountedFor
    /\ PendingFeasible
    /\ SavedIntact

\* Two sequences in one.
LEMMA ConcatAt ==
    ASSUME NEW R, NEW s \in Seq(R), NEW t \in Seq(R)
    PROVE  \A k \in 1..(Len(s) + Len(t)) : (s \o t)[k] = IF k <= Len(s) THEN s[k] ELSE t[k - Len(s)]
BY SMTT(30)

\* The first elements of a sequence.
LEMMA FirstOnes ==
    ASSUME NEW R, NEW s \in Seq(R), NEW n \in 0..Len(s)
    PROVE  /\ SubSeq(s, 1, n) \in Seq(R) /\ Len(SubSeq(s, 1, n)) = n
           /\ \A k \in 1..n : SubSeq(s, 1, n)[k] = s[k]
BY SMTT(30)

\* What the engine's stacks look like after saving a backtracking point for
\* each element of cs and going on under c.
LEMMA ForkFacts ==
    ASSUME TypeOK, LevelsMatch,
           NEW c \in SUBSET Inputs, NEW cs \in Seq(SUBSET Inputs),
           Fork(c, cs)
    PROVE  LET n == Len(solver)
               m == Len(cs)
           IN  /\ n \in Nat /\ n > 0 /\ m \in Nat
               /\ solver' \in Seq(SUBSET Inputs)
               /\ Len(solver') = n + m
               /\ \A k \in 1..(n-1) : solver'[k] = solver[k]
               /\ \A k \in n..(n+m-1) : solver'[k] = solver[n]
               /\ solver'[n+m] = solver[n] \cap c
               /\ backtrack_points' \in Seq(BacktrackPoint)
               /\ Len(backtrack_points') = n - 1 + m
               /\ \A k \in 1..(n-1) : backtrack_points'[k] = backtrack_points[k]
               /\ \A k \in n..(n+m-1) : /\ backtrack_points'[k].constraint = cs[k-n+1]
                                        /\ backtrack_points'[k].path_len = Len(path)
               /\ saved' \in Seq([region : SUBSET Inputs, path : Seq(Blocks)])
               /\ Len(saved') = n - 1 + m
               /\ \A k \in 1..(n-1) : saved'[k] = saved[k]
               /\ \A k \in n..(n+m-1) : /\ saved'[k].region = solver[n]
                                        /\ saved'[k].path = path
               /\ UNCHANGED <<path, mode, yielded, excluded>>
<1> DEFINE n == Len(solver)
           m == Len(cs)
           B == [j \in 1..m |-> [constraint |-> cs[j], path_len |-> Len(path)]]
           S == [j \in 1..m |-> [region |-> Top(solver), path |-> path]]
<1>1. n \in Nat /\ n > 0 /\ m \in Nat /\ solver[n] \in SUBSET Inputs /\ Len(path) \in Nat
      /\ Len(backtrack_points) = n - 1 /\ Len(saved) = n - 1
  BY SMTT(30) DEF TypeOK, LevelsMatch
<1>2. /\ B \in Seq(BacktrackPoint) /\ Len(B) = m
  <2>1. \A j \in 1..m : [constraint |-> cs[j], path_len |-> Len(path)] \in BacktrackPoint
    BY <1>1, SMTT(30) DEF BacktrackPoint
  <2> QED BY <1>1, <2>1, SMTT(30)
<1>3. /\ S \in Seq([region : SUBSET Inputs, path : Seq(Blocks)]) /\ Len(S) = m
  BY <1>1, SMTT(30) DEF TypeOK, Top
<1>4. /\ solver' \in Seq(SUBSET Inputs)
      /\ Len(solver') = n + m
      /\ \A k \in 1..(n-1) : solver'[k] = solver[k]
      /\ \A k \in n..(n+m-1) : solver'[k] = solver[n]
      /\ solver'[n+m] = solver[n] \cap c
  <2>1. solver' = [k \in 1..(n + m) |->
                         IF k < n THEN solver[k]
                         ELSE IF k < n + m THEN solver[n]
                         ELSE solver[n] \cap c]
    BY Zenon DEF Fork, Top
  <2>2. \A k \in 1..(n+m) : solver'[k] \in SUBSET Inputs
    BY <1>1, <2>1, SMTT(30) DEF TypeOK
  <2> QED BY <1>1, <2>1, <2>2, SMTT(30)
<1>5. backtrack_points' = backtrack_points \o B /\ saved' = saved \o S
      /\ UNCHANGED <<path, mode, yielded, excluded>>
  BY Zenon DEF Fork
<1>6. /\ backtrack_points' \in Seq(BacktrackPoint)
      /\ Len(backtrack_points') = n - 1 + m
      /\ \A k \in 1..(n-1) : backtrack_points'[k] = backtrack_points[k]
      /\ \A k \in n..(n+m-1) :
            backtrack_points'[k] = [constraint |-> cs[k-n+1], path_len |-> Len(path)]
  <2>1. backtrack_points \in Seq(BacktrackPoint) BY Zenon DEF TypeOK
  <2>2. \A k \in n..(n+m-1) :
            k - (n-1) \in 1..m /\ k - (n-1) = k-n+1 
    BY <1>1, SMTT(30)
  <2>3. \A k \in n..(n+m-1) :
            B[k - (n-1)] = [constraint |-> cs[k-n+1], path_len |-> Len(path)]
    BY <2>2, Zenon
  <2> HIDE DEF B, n, m
  <2>4. /\ backtrack_points \o B \in Seq(BacktrackPoint)
        /\ Len(backtrack_points \o B) = (n-1) + m
        /\ \A k \in 1..(n-1) : (backtrack_points \o B)[k] = backtrack_points[k]
        /\ \A k \in (n-1+1)..(n-1+m) : (backtrack_points \o B)[k] = B[k - (n-1)]
    <3> DEFINE a == n - 1
    <3>1. a \in Nat /\ m \in Nat /\ Len(backtrack_points) = a BY <1>1, SMTT(30)
    <3> HIDE DEF a
    <3>2. backtrack_points \o B \in Seq(BacktrackPoint)
      BY <1>2, <2>1, SMTT(30)
    <3>3. Len(backtrack_points \o B) = a + m
      BY <1>2, <2>1, <3>1, SMTT(30)
    <3>4. \A k \in 1..a : (backtrack_points \o B)[k] = backtrack_points[k]
      BY <1>2, <2>1, <3>1, SMTT(30)
    <3>5. ASSUME NEW k \in (a + 1)..(a + m)
          PROVE  (backtrack_points \o B)[k] = B[k - a]
      <4>1. k \in 1..(a + m) /\ ~(k <= a) BY <3>1, <3>5, SMTT(30)
      <4> QED BY <1>2, <2>1, <3>1, <4>1, ConcatAt, Zenon
    <3> QED BY <3>2, <3>3, <3>4, <3>5, Zenon DEF a
  <2>5. \A k \in n..(n+m-1) : k \in (n-1+1)..(n-1+m)
    BY <1>1, SMTT(30)
  <2> QED BY <1>1, <1>5, <2>3, <2>4, <2>5, Zenon
<1>7. /\ saved' \in Seq([region : SUBSET Inputs, path : Seq(Blocks)])
      /\ Len(saved') = n - 1 + m
      /\ \A k \in 1..(n-1) : saved'[k] = saved[k]
      /\ \A k \in n..(n+m-1) : saved'[k] = [region |-> solver[n], path |-> path]
  <2> DEFINE R == [region : SUBSET Inputs, path : Seq(Blocks)]
  <2> HIDE DEF S, R
  <2>1. saved \in Seq(R) BY Zenon DEF TypeOK, R
  <2>2. S \in Seq(R) /\ Len(S) = m BY <1>3, Zenon DEF R
  <2>3. \A k \in n..(n+m-1) : k - (n-1) \in 1..m
    BY <1>1, SMTT(30)
  <2>4. \A k \in n..(n+m-1) : S[k - (n-1)] = [region |-> solver[n], path |-> path]
    BY <2>3, Zenon DEF S, Top
  <2> HIDE DEF n, m
  <2>5. /\ saved' \in Seq(R)
        /\ Len(saved') = n - 1 + m
        /\ \A k \in 1..(n-1) : saved'[k] = saved[k]
        /\ \A k \in n..(n+m-1) : saved'[k] = S[k-(n-1)]
    <3>1. /\ saved \o S \in Seq(R)
          /\ Len(saved \o S) = (n-1) + m
          /\ \A k \in 1..(n-1) : (saved \o S)[k] = saved[k]
          /\ \A k \in (n-1+1)..(n-1+m) : (saved \o S)[k] = S[k - (n-1)]
      <4> DEFINE a == n - 1
      <4>1. a \in Nat /\ m \in Nat /\ Len(saved) = a BY <1>1, SMTT(30)
      <4> HIDE DEF a
      <4>2. saved \o S \in Seq(R)
        BY <2>1, <2>2, SMTT(30)
      <4>3. Len(saved \o S) = a + m
        BY <2>1, <2>2, <4>1, SMTT(30)
      <4>4. \A k \in 1..a : (saved \o S)[k] = saved[k]
        BY <2>1, <2>2, <4>1, SMTT(30)
      <4>5. ASSUME NEW k \in (a + 1)..(a + m)
            PROVE  (saved \o S)[k] = S[k - a]
        <5>1. k \in 1..(a + m) /\ ~(k <= a) BY <4>1, <4>5, SMTT(30)
        <5> QED BY <2>1, <2>2, <4>1, <5>1, ConcatAt, Zenon
      <4> QED BY <4>2, <4>3, <4>4, <4>5, Zenon DEF a
    <3>2. \A k \in n..(n+m-1) : k \in (n-1+1)..(n-1+m)
      BY <1>1, SMTT(30)
    <3> QED BY <1>1, <1>5, <3>1, <3>2, Zenon
  <2> QED BY <1>1, <2>4, <2>5, Zenon DEF R
<1> HIDE DEF n, m
<1>8. \A k \in n..(n+m-1) : /\ backtrack_points'[k].constraint = cs[k-n+1]
                            /\ backtrack_points'[k].path_len = Len(path)
  <2> TAKE k \in n..(n+m-1)
  <2>1. backtrack_points'[k] = [constraint |-> cs[k-n+1], path_len |-> Len(path)]
    BY <1>6, Zenon
  <2> QED BY <2>1, SMTT(30)
<1>9. \A k \in n..(n+m-1) : /\ saved'[k].region = solver[n]
                            /\ saved'[k].path = path
  BY <1>7, SMTT(30)
<1> QED BY <1>1, <1>4, <1>5, <1>6, <1>7, <1>8, <1>9, Zenon DEF n, m

\* What is pending, input by input.
LEMMA PendingMembers ==
    \A i : i \in Pending <=> \E k \in 1..Len(backtrack_points) : i \in Region(k)
  BY Zenon DEF Pending

\* Saving backtracking points that divide the inputs of the current path keeps
\* the invariant, and loses no input.
LEMMA ForkKeeps ==
    ASSUME IInv, mode = "running",
           NEW c \in SUBSET Inputs, NEW cs \in Seq(SUBSET Inputs),
           \A j \in 1..Len(cs) : Top(solver) \cap cs[j] # {},
           \A j \in 1..Len(cs) : Top(solver) \cap c \cap cs[j] = {},
           \A j, k \in 1..Len(cs) : j # k => Top(solver) \cap cs[j] \cap cs[k] = {},
           \A i \in Top(solver) : i \in c \/ \E j \in 1..Len(cs) : i \in cs[j],
           Fork(c, cs)
    PROVE  IInv' /\ Remaining' = Remaining
<1> DEFINE n == Len(solver)
           m == Len(cs)
<1>0. TypeOK /\ LevelsMatch /\ PathsDisjoint /\ InputsAccountedFor /\ PendingFeasible
      /\ SavedIntact
  BY Zenon DEF IInv
<1>1. /\ n \in Nat /\ n > 0 /\ m \in Nat
      /\ solver' \in Seq(SUBSET Inputs)
      /\ Len(solver') = n + m
      /\ \A k \in 1..(n-1) : solver'[k] = solver[k]
      /\ \A k \in n..(n+m-1) : solver'[k] = solver[n]
      /\ solver'[n+m] = solver[n] \cap c
  BY <1>0, ForkFacts, ZenonT(40)
<1>2. /\ backtrack_points' \in Seq(BacktrackPoint)
      /\ Len(backtrack_points') = n - 1 + m
      /\ \A k \in 1..(n-1) : backtrack_points'[k] = backtrack_points[k]
      /\ \A k \in n..(n+m-1) : /\ backtrack_points'[k].constraint = cs[k-n+1]
                               /\ backtrack_points'[k].path_len = Len(path)
  BY <1>0, ForkFacts, ZenonT(40)
<1>3. /\ saved' \in Seq([region : SUBSET Inputs, path : Seq(Blocks)])
      /\ Len(saved') = n - 1 + m
      /\ \A k \in 1..(n-1) : saved'[k] = saved[k]
      /\ \A k \in n..(n+m-1) : /\ saved'[k].region = solver[n]
                               /\ saved'[k].path = path
      /\ path' = path /\ mode' = mode /\ yielded' = yielded /\ excluded' = excluded
  BY <1>0, ForkFacts, ZenonT(40)
<1>4. /\ Len(backtrack_points) = n - 1 /\ Len(saved) = n - 1
      /\ \A j, k \in 1..n : j <= k => solver[k] \subseteq solver[j]
      /\ path \in Seq(Blocks) /\ Len(path) \in Nat
  BY <1>0, SMTT(30) DEF LevelsMatch, TypeOK
<1>5. /\ \A j \in 1..m : solver[n] \cap cs[j] # {}
      /\ \A j \in 1..m : (solver[n] \cap cs[j]) \cap (solver[n] \cap c) = {}
      /\ \A j, k \in 1..m : j # k => (solver[n] \cap cs[j]) \cap (solver[n] \cap cs[k]) = {}
      /\ \A i \in solver[n] : i \in c \/ \E j \in 1..m : i \in cs[j]
  BY Zenon DEF Top
<1> HIDE DEF n, m
<1>6. \A k \in 1..(n-1) : Region(k)' = Region(k)
  BY <1>1, <1>2, Zenon DEF Region
<1>7. \A k \in n..(n+m-1) : k-n+1 \in 1..m /\ Region(k)' = solver[n] \cap cs[k-n+1]
  <2>1. \A k \in n..(n+m-1) : k-n+1 \in 1..m
    BY <1>1, SMTT(30)
  <2> QED BY <1>1, <1>2, <2>1, Zenon DEF Region
<1>8. \A k \in 1..(n-1+m) : k \in 1..(n-1) \/ k \in n..(n+m-1)
  BY <1>1, SMTT(30)
<1>9. Top(solver)' = solver[n] \cap c /\ Top(solver) = solver[n]
  BY <1>1, Zenon DEF Top, n
<1>10. \A k \in 1..(n-1) : Region(k) \cap solver[n] = {} /\ Region(k) # {}
  BY <1>0, <1>4, <1>9, Zenon DEF PathsDisjoint, PendingFeasible
<1>11. TypeOK'
  BY <1>0, <1>1, <1>2, <1>3, Zenon DEF TypeOK
<1>12. LevelsMatch'
  <2>1. ASSUME NEW j \in 1..(n+m), NEW k \in 1..(n+m), j <= k
        PROVE  solver'[k] \subseteq solver'[j]
    <3>1. CASE k \in 1..(n-1)
      <4>1. j \in 1..(n-1) /\ j \in 1..n /\ k \in 1..n BY <1>1, <2>1, <3>1, SMTT(30)
      <4>2. solver[k] \subseteq solver[j] BY <1>4, <2>1, <4>1, Zenon
      <4> QED BY <1>1, <3>1, <4>1, <4>2, Zenon
    <3>2. CASE j \in 1..(n-1) /\ k \in n..(n+m)
      <4>1. solver[n] \subseteq solver[j]
        BY <1>1, <1>4, <3>2, SMTT(30)
      <4>2. solver'[k] \subseteq solver[n]
        <5>1. CASE k = n+m BY <1>1, <5>1, Zenon
        <5>2. CASE k \in n..(n+m-1) BY <1>1, <5>2, Zenon
        <5> QED BY <1>1, <3>2, <5>1, <5>2, SMTT(30)
      <4> QED BY <1>1, <3>2, <4>1, <4>2, Zenon
    <3>3. CASE j \in n..(n+m) /\ k \in n..(n+m)
      <4>1. CASE k = n+m /\ j = n+m BY <4>1, Zenon
      <4>2. CASE k = n+m /\ j \in n..(n+m-1) BY <1>1, <4>2, Zenon
      <4>3. CASE k \in n..(n+m-1) /\ j \in n..(n+m-1) BY <1>1, <4>3, Zenon
      <4> QED BY <1>1, <2>1, <3>3, <4>1, <4>2, <4>3, SMTT(30)
    <3> QED BY <1>1, <2>1, <3>1, <3>2, <3>3, SMTT(30)
  <2> QED BY <1>1, <1>2, <1>3, <2>1, SMTT(30) DEF LevelsMatch
<1>13. PathsDisjoint'
  <2>1. ASSUME NEW j \in 1..(n-1+m), NEW k \in 1..(n-1+m), j # k
        PROVE  Region(j)' \cap Region(k)' = {}
    <3>1. CASE j \in 1..(n-1) /\ k \in 1..(n-1)
      BY <1>0, <1>4, <1>6, <2>1, <3>1, ZenonT(30) DEF PathsDisjoint
    <3>2. CASE j \in 1..(n-1) /\ k \in n..(n+m-1)
      BY <1>6, <1>7, <1>10, <3>2, SMTT(30)
    <3>3. CASE j \in n..(n+m-1) /\ k \in 1..(n-1)
      BY <1>6, <1>7, <1>10, <3>3, SMTT(30)
    <3>4. CASE j \in n..(n+m-1) /\ k \in n..(n+m-1)
      <4>1. j-n+1 # k-n+1 BY <1>1, <2>1, SMTT(30)
      <4>2. /\ j-n+1 \in 1..m /\ Region(j)' = solver[n] \cap cs[j-n+1]
            /\ k-n+1 \in 1..m /\ Region(k)' = solver[n] \cap cs[k-n+1]
        BY <1>7, <3>4, Zenon
      <4> DEFINE p == j-n+1
                 q == k-n+1
      <4>3. p \in 1..m /\ q \in 1..m /\ p # q BY <4>1, <4>2, Zenon
      <4>4. Region(j)' = solver[n] \cap cs[p] /\ Region(k)' = solver[n] \cap cs[q] BY <4>2, Zenon
      <4> HIDE DEF p, q
      <4>5. (solver[n] \cap cs[p]) \cap (solver[n] \cap cs[q]) = {}
        BY <1>5, <4>3, Zenon
      <4> QED BY <4>4, <4>5, Zenon
    <3> QED BY <1>8, <2>1, <3>1, <3>2, <3>3, <3>4, Zenon
  <2>2. ASSUME NEW k \in 1..(n-1+m)
        PROVE  Region(k)' \cap Top(solver)' = {}
    <3>1. CASE k \in 1..(n-1) BY <1>6, <1>9, <1>10, <3>1, SMTT(30)
    <3>2. CASE k \in n..(n+m-1)
      <4>1. k-n+1 \in 1..m /\ Region(k)' = solver[n] \cap cs[k-n+1] BY <1>7, <3>2, Zenon
      <4>2. solver[n] \cap c \cap cs[k-n+1] = {} BY <1>5, <4>1, Zenon
      <4> QED BY <1>9, <4>1, <4>2, Zenon
    <3> QED BY <1>8, <2>2, <3>1, <3>2, Zenon
  <2> QED BY <1>2, <2>1, <2>2, Zenon DEF PathsDisjoint
<1>14. Remaining' = Remaining
  <2>1. Remaining = solver[n] \cup Pending /\ Remaining' = (solver[n] \cap c) \cup Pending'
    BY <1>3, <1>9, Zenon DEF Remaining
  <2>2. \A i : i \in Pending <=> \E k \in 1..(n-1) : i \in Region(k)
    BY <1>4, PendingMembers, Zenon
  <2>3. \A i : i \in Pending' <=> \E k \in 1..(n-1+m) : i \in Region(k)'
    BY <1>2, SMTT(30) DEF Pending
  <2>4. \A i : i \in Pending => i \in Pending'
    <3>1. \A k \in 1..(n-1) : k \in 1..(n-1+m) BY <1>1, SMTT(30)
    <3> QED BY <1>6, <2>2, <2>3, <3>1, SMTT(30)
  <2>5. ASSUME NEW i \in solver[n], i \notin c
        PROVE  i \in Pending'
    <3>1. PICK j \in 1..m : i \in cs[j] BY <1>5, <2>5, Zenon
    <3>2. PICK k \in n..(n+m-1) : k-n+1 = j
      <4>1. j+n-1 \in n..(n+m-1) /\ (j+n-1)-n+1 = j BY <1>1, SMTT(30)
      <4> QED BY <4>1, Zenon
    <3>3. Region(k)' = solver[n] \cap cs[j] /\ k \in 1..(n-1+m) BY <1>1, <1>7, <3>2, SMTT(30)
    <3> QED BY <2>3, <3>1, <3>2, <3>3, Zenon
  <2>6. \A i : i \in Pending' => i \in Pending \/ i \in solver[n]
    BY <1>6, <1>7, <1>8, <2>2, <2>3, SMTT(30)
  <2> QED BY <2>1, <2>4, <2>5, <2>6, Zenon
<1>15. InputsAccountedFor'
  BY <1>0, <1>3, <1>14, Zenon DEF InputsAccountedFor
<1>16. PendingFeasible'
  <2>1. ASSUME NEW k \in 1..(n-1+m) PROVE Region(k)' # {}
    <3>1. CASE k \in 1..(n-1) BY <1>6, <1>10, <3>1, Zenon
    <3>2. CASE k \in n..(n+m-1) BY <1>5, <1>7, <3>2, SMTT(30)
    <3> QED BY <1>8, <2>1, <3>1, <3>2, Zenon
  <2> QED BY <1>2, <2>1, Zenon DEF PendingFeasible
<1>17. SavedIntact'
  <2>1. \A k \in 1..(n-1) :
           /\ solver[k] = saved[k].region
           /\ backtrack_points[k].path_len <= Len(path)
           /\ SubSeq(path, 1, backtrack_points[k].path_len) = saved[k].path
    BY <1>0, <1>4, Zenon DEF SavedIntact
  <2>2. \A j, k \in 1..(n-1) :
           j <= k => backtrack_points[j].path_len <= backtrack_points[k].path_len
    BY <1>0, <1>4, Zenon DEF SavedIntact
  <2>3. ASSUME NEW k \in 1..(n-1+m)
        PROVE  /\ solver'[k] = saved'[k].region
               /\ backtrack_points'[k].path_len <= Len(path')
               /\ SubSeq(path', 1, backtrack_points'[k].path_len) = saved'[k].path
    <3>1. CASE k \in 1..(n-1) BY <1>1, <1>2, <1>3, <2>1, <3>1, Zenon
    <3>2. CASE k \in n..(n+m-1)
      <4>1. SubSeq(path, 1, Len(path)) = path BY <1>4, SMTT(30)
      <4>2. solver'[k] = solver[n] BY <1>1, <3>2, Zenon
      <4>3. backtrack_points'[k].path_len = Len(path) BY <1>2, <3>2, Zenon
      <4>4. saved'[k].region = solver[n] /\ saved'[k].path = path BY <1>3, <3>2, Zenon
      <4> QED BY <1>3, <1>4, <4>1, <4>2, <4>3, <4>4, SMTT(30)
    <3> QED BY <1>8, <2>3, <3>1, <3>2, Zenon
  <2>4. ASSUME NEW j \in 1..(n-1+m), NEW k \in 1..(n-1+m), j <= k
        PROVE  backtrack_points'[j].path_len <= backtrack_points'[k].path_len
    <3>1. CASE k \in 1..(n-1) 
      <4>1. j \in 1..(n-1) BY <1>1, <2>4, <3>1, SMTT(30)
      <4> QED BY <1>2, <2>2, <2>4, <3>1, <4>1, Zenon
    <3>2. CASE k \in n..(n+m-1) 
      <4>1. backtrack_points'[k].path_len = Len(path') BY <1>2, <1>3, <3>2, Zenon
      <4>2. backtrack_points'[j].path_len <= Len(path') BY <2>3, Zenon
      <4> QED BY <4>1, <4>2, Zenon
    <3> QED BY <1>8, <2>4, <3>1, <3>2, Zenon
  <2> QED BY <1>2, <2>3, <2>4, Zenon DEF SavedIntact
<1> QED BY <1>11, <1>12, <1>13, <1>14, <1>15, <1>16, <1>17, Zenon DEF IInv

\* A new exploration satisfies the invariant.
LEMMA InitEstablishes == Init => IInv
<1> SUFFICES ASSUME Init PROVE IInv
  BY Zenon
<1>1. solver = <<Inputs>> /\ Len(solver) = 1 /\ solver[1] = Inputs
      /\ backtrack_points = <<>> /\ Len(backtrack_points) = 0
      /\ saved = <<>> /\ Len(saved) = 0 /\ path = <<>> /\ mode = "fresh"
      /\ yielded = {} /\ excluded = {}
  BY Zenon DEF Init
<1>2. Pending = {} /\ Top(solver) = Inputs
  BY <1>1, SMTT(30) DEF Pending, Top
<1>3. TypeOK
  BY <1>1, SMTT(30) DEF TypeOK, Modes
<1>4. LevelsMatch
  BY <1>1, SMTT(30) DEF LevelsMatch
<1>5. PathsDisjoint /\ PendingFeasible /\ SavedIntact
  BY <1>1, SMTT(30) DEF PathsDisjoint, PendingFeasible, SavedIntact
<1>6. InputsAccountedFor
  BY <1>1, <1>2, Zenon DEF InputsAccountedFor, Remaining
<1> QED BY <1>3, <1>4, <1>5, <1>6, Zenon DEF IInv

\* A constraint asserted in the last level leaves what is pending alone.
LEMMA AssertInKeeps ==
    ASSUME IInv, NEW c \in SUBSET Inputs, solver' = AssertIn(solver, c), excluded' \subseteq Inputs,
           UNCHANGED <<backtrack_points, path, mode, yielded, saved>>
    PROVE  /\ TypeOK' /\ LevelsMatch' /\ PathsDisjoint' /\ PendingFeasible' /\ SavedIntact'
           /\ Top(solver) \subseteq Inputs /\ Top(solver)' = Top(solver) \cap c
           /\ Pending' = Pending /\ Pending \cap Top(solver) = {}
<1> DEFINE n == Len(solver)
<1>0. TypeOK /\ LevelsMatch /\ PathsDisjoint /\ PendingFeasible /\ SavedIntact
  BY Zenon DEF IInv
<1>1. /\ n \in Nat /\ n > 0 /\ solver \in Seq(SUBSET Inputs)
      /\ Len(backtrack_points) = n - 1 /\ Len(saved) = n - 1
      /\ \A j, k \in 1..n : j <= k => solver[k] \subseteq solver[j]
      /\ solver[n] \subseteq Inputs
  BY <1>0, SMTT(30) DEF TypeOK, LevelsMatch
<1>2. /\ backtrack_points' = backtrack_points /\ path' = path /\ mode' = mode
      /\ yielded' = yielded /\ saved' = saved
  BY Zenon
<1>3. /\ solver' \in Seq(SUBSET Inputs) /\ Len(solver') = n
      /\ solver'[n] = solver[n] \cap c
      /\ \A k \in 1..(n-1) : solver'[k] = solver[k]
  BY <1>0, <1>1, SMTT(30) DEF AssertIn, TypeOK
<1>4. Top(solver) = solver[n] /\ Top(solver)' = solver[n] \cap c
  BY <1>3, Zenon DEF Top
<1> HIDE DEF n
<1>5. \A k \in 1..(n-1) : Region(k)' = Region(k)
  BY <1>1, <1>2, <1>3, Zenon DEF Region
<1>6. \A k \in 1..(n-1) : Region(k) \cap solver[n] = {} /\ Region(k) # {}
  BY <1>0, <1>1, <1>4, Zenon DEF PathsDisjoint, PendingFeasible
<1>7. TypeOK'
  BY <1>0, <1>1, <1>2, <1>3, Zenon DEF TypeOK
<1>8. LevelsMatch'
  <2>1. ASSUME NEW j \in 1..n, NEW k \in 1..n, j <= k PROVE solver'[k] \subseteq solver'[j]
    <3>1. solver[k] \subseteq solver[j] BY <1>1, <2>1, Zenon
    <3>2. CASE k = n BY <1>1, <1>3, <3>1, <3>2, SMTT(30)
    <3>3. CASE k # n
      <4>1. k \in 1..(n-1) /\ j \in 1..(n-1) BY <1>1, <2>1, <3>3, SMTT(30)
      <4> QED BY <1>3, <3>1, <4>1, Zenon
    <3> QED BY <3>2, <3>3, Zenon
  <2> QED BY <1>1, <1>2, <1>3, <2>1, SMTT(30) DEF LevelsMatch
<1>9. PathsDisjoint'
  <2>1. \A j, k \in 1..(n-1) : j # k => Region(j) \cap Region(k) = {}
    BY <1>0, <1>1, Zenon DEF PathsDisjoint
  <2>2. \A j, k \in 1..(n-1) : j # k => Region(j)' \cap Region(k)' = {}
    BY <1>5, <2>1, Zenon
  <2>3. \A k \in 1..(n-1) : Region(k)' \cap Top(solver)' = {}
    BY <1>4, <1>5, <1>6, Zenon
  <2> QED BY <1>1, <1>2, <2>2, <2>3, Zenon DEF PathsDisjoint
<1>10. PendingFeasible'
  <2>1. \A k \in 1..(n-1) : Region(k)' # {}
    BY <1>5, <1>6, Zenon
  <2> QED BY <1>1, <1>2, <2>1, Zenon DEF PendingFeasible
<1>11. SavedIntact'
  BY <1>0, <1>1, <1>2, <1>3, Zenon DEF SavedIntact
<1>12. Pending' = Pending /\ Pending \cap solver[n] = {}
  <2>1. \A i : i \in Pending <=> \E k \in 1..(n-1) : i \in Region(k)
    BY <1>1, PendingMembers, Zenon
  <2>2. \A i : i \in Pending' <=> \E k \in 1..(n-1) : i \in Region(k)'
    BY <1>1, <1>2, Zenon DEF Pending
  <2>3. \A i : i \in Pending' <=> i \in Pending BY <1>5, <2>1, <2>2, Zenon
  <2>4. \A i : i \in Pending => i \notin solver[n] BY <1>6, <2>1, Zenon
  <2> QED BY <2>3, <2>4, Zenon
<1> QED BY <1>1, <1>4, <1>7, <1>8, <1>9, <1>10, <1>11, <1>12, Zenon

\* An assumption takes the inputs that violate it off the current path only.
LEMMA AssumeKeeps ==
    ASSUME IInv, NEW c \in SUBSET Inputs, Assume(c)
    PROVE  IInv' /\ Remaining' = Remaining \ (Top(solver) \ c)
<1>0. InputsAccountedFor /\ Top(solver) \subseteq Inputs /\ excluded \subseteq Inputs
  BY SMTT(30) DEF IInv, TypeOK, LevelsMatch, Top
<1>1. /\ solver' = AssertIn(solver, c) /\ mode \in {"fresh", "running"}
      /\ excluded' = excluded \cup (Top(solver) \ c)
      /\ UNCHANGED <<backtrack_points, path, mode, yielded, saved>>
  BY Zenon DEF Assume
<1>2. excluded' \subseteq Inputs
  BY <1>0, <1>1, Zenon
<1>3. /\ TypeOK' /\ LevelsMatch' /\ PathsDisjoint' /\ PendingFeasible' /\ SavedIntact'
      /\ Top(solver)' = Top(solver) \cap c
      /\ Pending' = Pending /\ Pending \cap Top(solver) = {}
  BY <1>1, <1>2, AssertInKeeps, Zenon
<1>4. Remaining = Top(solver) \cup Pending /\ Remaining' = (Top(solver) \cap c) \cup Pending
  BY <1>1, <1>3, Zenon DEF Remaining
<1>5. InputsAccountedFor'
  BY <1>0, <1>1, <1>3, <1>4, Zenon DEF InputsAccountedFor
<1>6. Remaining' = Remaining \ (Top(solver) \ c)
  BY <1>3, <1>4, Zenon
<1> QED BY <1>3, <1>5, <1>6, Zenon DEF IInv

\* What the consumer asserts at the end of a path takes nothing off what
\* remains.
LEMMA AssertFinalKeeps ==
    ASSUME IInv, NEW c \in SUBSET Inputs, AssertFinal(c)
    PROVE  IInv' /\ Remaining' = Remaining
<1>0. InputsAccountedFor /\ excluded \subseteq Inputs
  BY Zenon DEF IInv, TypeOK
<1>1. /\ solver' = AssertIn(solver, c) /\ mode \notin {"fresh", "running"} /\ excluded' = excluded
      /\ UNCHANGED <<backtrack_points, path, mode, yielded, saved>>
  BY Zenon DEF AssertFinal
<1>2. /\ TypeOK' /\ LevelsMatch' /\ PathsDisjoint' /\ PendingFeasible' /\ SavedIntact'
      /\ Pending' = Pending
  BY <1>0, <1>1, AssertInKeeps, Zenon
<1>3. Remaining' = Remaining
  BY <1>1, <1>2, Zenon DEF Remaining
<1>4. InputsAccountedFor'
  BY <1>0, <1>1, <1>3, Zenon DEF InputsAccountedFor
<1> QED BY <1>2, <1>3, <1>4, Zenon DEF IInv

\* Reporting a path takes exactly its inputs off what remains.
LEMMA YieldKeeps ==
    ASSUME IInv, Yield
    PROVE  IInv' /\ Remaining' = Remaining \ Top(solver)
<1>0. TypeOK /\ LevelsMatch /\ PathsDisjoint /\ InputsAccountedFor /\ PendingFeasible
      /\ SavedIntact
  BY Zenon DEF IInv
<1>1. /\ mode = "running" /\ mode' = "yielded" /\ yielded' = yielded \cup Top(solver)
      /\ solver' = solver /\ backtrack_points' = backtrack_points /\ path' = path
      /\ excluded' = excluded /\ saved' = saved
  BY Zenon DEF Yield
<1>2. \A k : Region(k)' = Region(k)
  BY <1>1, Zenon DEF Region
<1>3. Pending' = Pending /\ Top(solver)' = Top(solver)
  BY <1>1, Zenon DEF Pending, Region, Top
<1>4. Pending \cap Top(solver) = {}
  BY <1>0, PendingMembers, Zenon DEF PathsDisjoint
<1>5. Top(solver) \subseteq Inputs
  BY <1>0, SMTT(30) DEF TypeOK, LevelsMatch, Top
<1>6. Remaining = Top(solver) \cup Pending /\ Remaining' = Pending
  BY <1>1, <1>3, Zenon DEF Remaining
<1>7. TypeOK'
  BY <1>0, <1>1, <1>5, Zenon DEF TypeOK, Modes
<1>8. LevelsMatch' /\ SavedIntact'
  BY <1>0, <1>1, Zenon DEF LevelsMatch, SavedIntact
<1>9. PathsDisjoint' /\ PendingFeasible'
  BY <1>0, <1>1, <1>2, <1>3, Zenon DEF PathsDisjoint, PendingFeasible
<1>10. InputsAccountedFor'
  BY <1>0, <1>1, <1>4, <1>6, Zenon DEF InputsAccountedFor
<1> QED BY <1>4, <1>6, <1>7, <1>8, <1>9, <1>10, Zenon DEF IInv

\* Truncating a sequence twice.
LEMMA PrefixOfPrefix ==
    ASSUME NEW E, NEW s \in Seq(E), NEW a \in Nat, NEW b \in Nat, a <= Len(s), b <= a
    PROVE  SubSeq(SubSeq(s, 1, a), 1, b) = SubSeq(s, 1, b)
  BY SMTT(30)

\* Reverting goes back to the saved path and constraints; the inputs of the
\* backtracking point become those of the current path.
LEMMA BacktrackKeeps ==
    ASSUME IInv, Backtrack
    PROVE  /\ IInv' /\ Remaining' = Remaining
           /\ path' = saved[Len(backtrack_points)].path
           /\ Top(solver)' = saved[Len(backtrack_points)].region
                               \cap backtrack_points[Len(backtrack_points)].constraint
<1> DEFINE n == Len(backtrack_points)
           L == backtrack_points[n].path_len
<1>0. TypeOK /\ LevelsMatch /\ PathsDisjoint /\ InputsAccountedFor /\ PendingFeasible
      /\ SavedIntact
  BY SMTT(30) DEF IInv
<1>1. /\ n \in Nat /\ n > 0 /\ solver \in Seq(SUBSET Inputs) /\ Len(solver) = n + 1
      /\ Len(saved) = n /\ path \in Seq(Blocks)
      /\ backtrack_points \in Seq(BacktrackPoint)
      /\ saved \in Seq([region : SUBSET Inputs, path : Seq(Blocks)])
      /\ \A j, k \in 1..(n+1) : j <= k => solver[k] \subseteq solver[j]
  BY <1>0, SMTT(30) DEF TypeOK, LevelsMatch, Backtrack
<1>2. L \in Nat /\ L <= Len(path)
      /\ \A k \in 1..n : backtrack_points[k].path_len \in Nat
  <2>1. \A k \in 1..n : backtrack_points[k] \in BacktrackPoint BY <1>1, SMTT(30)
  <2>2. \A k \in 1..n : backtrack_points[k].path_len \in Nat BY <2>1, Zenon DEF BacktrackPoint
  <2>3. n \in 1..n BY <1>1, SMTT(30)
  <2> QED BY <1>0, <2>2, <2>3, Zenon DEF SavedIntact
<1>3. /\ path' = SubSeq(path, 1, L) /\ mode' = "running"
      /\ backtrack_points' = SubSeq(backtrack_points, 1, n-1)
      /\ saved' = SubSeq(saved, 1, n-1)
      /\ yielded' = yielded /\ excluded' = excluded
      /\ solver' = AssertIn(Pop(solver), backtrack_points[n].constraint)
      /\ mode = "yielded" \/ (mode = "running" /\ ~Sat(solver))
  BY Zenon DEF Backtrack, MayBacktrack
<1>4. /\ solver' \in Seq(SUBSET Inputs) /\ Len(solver') = n
      /\ solver'[n] = Region(n)
      /\ \A k \in 1..(n-1) : solver'[k] = solver[k]
  <2>1. Pop(solver) \in Seq(SUBSET Inputs) /\ Len(Pop(solver)) = n
        /\ \A k \in 1..n : Pop(solver)[k] = solver[k]
    BY <1>1, SMTT(30) DEF Pop
  <2> QED BY <1>1, <1>3, <2>1, SMTT(30) DEF AssertIn, Region
<1>5. /\ backtrack_points' \in Seq(BacktrackPoint) /\ Len(backtrack_points') = n-1
      /\ \A k \in 1..(n-1) : backtrack_points'[k] = backtrack_points[k]
  <2>1. n - 1 \in 0..Len(backtrack_points) BY <1>1, SMTT(30)
  <2> QED BY <1>1, <1>3, <2>1, FirstOnes, Zenon
<1>6. /\ saved' \in Seq([region : SUBSET Inputs, path : Seq(Blocks)]) /\ Len(saved') = n-1
      /\ \A k \in 1..(n-1) : saved'[k] = saved[k]
  <2> DEFINE R == [region : SUBSET Inputs, path : Seq(Blocks)]
  <2> HIDE DEF R
  <2>1. saved \in Seq(R) BY <1>1, Zenon DEF R
  <2>2. saved' \in Seq(R) /\ Len(saved') = n-1 /\ \A k \in 1..(n-1) : saved'[k] = saved[k]
    <3>1. n - 1 \in 0..Len(saved) BY <1>1, SMTT(30)
    <3> QED BY <1>3, <2>1, <3>1, FirstOnes, Zenon
  <2> QED BY <2>2, Zenon DEF R
<1>7. path' \in Seq(Blocks) /\ Len(path') = L
  <2>1. path \in Seq(Blocks) /\ path' = SubSeq(path, 1, L) BY <1>1, <1>3, Zenon
  <2>2. L \in Nat /\ L <= Len(path) BY <1>2, Zenon
  <2> HIDE DEF L
  <2> QED BY <2>1, <2>2, SMTT(30)
<1>8. Top(solver)' = Region(n)
  BY <1>4, Zenon DEF Top
<1>9. /\ \A k \in 1..n : /\ solver[k] = saved[k].region
                         /\ backtrack_points[k].path_len <= L
                         /\ SubSeq(path, 1, backtrack_points[k].path_len) = saved[k].path
      /\ \A j, k \in 1..n :
            j <= k => backtrack_points[j].path_len <= backtrack_points[k].path_len
  <2>1. \A k \in 1..n : /\ solver[k] = saved[k].region
                        /\ SubSeq(path, 1, backtrack_points[k].path_len) = saved[k].path
    BY <1>0, Zenon DEF SavedIntact
  <2>2. \A j, k \in 1..n :
            j <= k => backtrack_points[j].path_len <= backtrack_points[k].path_len
    BY <1>0, Zenon DEF SavedIntact
  <2>3. n \in 1..n /\ \A k \in 1..n : k <= n
    BY <1>1, SMTT(30)
  <2>4. \A k \in 1..n : backtrack_points[k].path_len <= L
    BY <2>2, <2>3, Zenon
  <2> QED BY <2>1, <2>2, <2>4, Zenon
<1> HIDE DEF n, L
<1>10. \A k \in 1..(n-1) : Region(k)' = Region(k)
  BY <1>1, <1>4, <1>5, Zenon DEF Region
<1>11. /\ \A j, k \in 1..n : j # k => Region(j) \cap Region(k) = {}
       /\ \A k \in 1..n : Region(k) # {}
  BY <1>0, Zenon DEF PathsDisjoint, PendingFeasible, n
<1>12. TypeOK'
  BY <1>0, <1>3, <1>4, <1>5, <1>6, <1>7, Zenon DEF TypeOK, Modes
<1>13. LevelsMatch'
  <2>1. ASSUME NEW j \in 1..n, NEW k \in 1..n, j <= k PROVE solver'[k] \subseteq solver'[j]
    <3>1. solver[k] \subseteq solver[j] BY <1>1, <2>1, SMTT(30)
    <3>2. Region(n) \subseteq solver[n] BY Zenon DEF Region
    <3>3. CASE j = n BY <1>1, <2>1, <3>3, SMTT(30)
    <3>4. CASE k = n /\ j # n
      <4>1. j \in 1..(n-1) BY <1>1, <3>4, SMTT(30)
      <4> QED BY <1>4, <3>1, <3>2, <3>4, <4>1, Zenon
    <3>5. CASE k # n
      <4>1. k \in 1..(n-1) /\ j \in 1..(n-1) BY <1>1, <2>1, <3>5, SMTT(30)
      <4> QED BY <1>4, <3>1, <4>1, Zenon
    <3> QED BY <3>3, <3>4, <3>5, Zenon
  <2> QED BY <1>1, <1>4, <1>5, <1>6, <2>1, SMTT(30) DEF LevelsMatch
<1>14. PathsDisjoint'
  <2>1. \A j, k \in 1..(n-1) : j # k => Region(j)' \cap Region(k)' = {}
    <3>1. \A j \in 1..(n-1) : j \in 1..n BY <1>1, SMTT(30)
    <3> QED BY <1>10, <1>11, <3>1, Zenon
  <2>2. \A k \in 1..(n-1) : Region(k)' \cap Top(solver)' = {}
    <3>1. \A k \in 1..(n-1) : k \in 1..n /\ n \in 1..n /\ k # n BY <1>1, SMTT(30)
    <3> QED BY <1>8, <1>10, <1>11, <3>1, Zenon
  <2> QED BY <1>5, <2>1, <2>2, Zenon DEF PathsDisjoint
<1>15. PendingFeasible'
  <2>1. \A k \in 1..(n-1) : k \in 1..n BY <1>1, SMTT(30)
  <2>2. \A k \in 1..(n-1) : Region(k)' # {} BY <1>10, <1>11, <2>1, Zenon
  <2> QED BY <1>5, <2>2, Zenon DEF PendingFeasible
<1>16. SavedIntact'
  <2>1. ASSUME NEW k \in 1..(n-1)
        PROVE  /\ solver'[k] = saved'[k].region
               /\ backtrack_points'[k].path_len <= Len(path')
               /\ SubSeq(path', 1, backtrack_points'[k].path_len) = saved'[k].path
    <3>1. k \in 1..n BY <1>1, SMTT(30)
    <3>2. backtrack_points[k].path_len \in Nat
      BY <1>2, <3>1, Zenon
    <3>3. SubSeq(path', 1, backtrack_points[k].path_len)
            = SubSeq(path, 1, backtrack_points[k].path_len)
      BY <1>1, <1>2, <1>3, <1>9, <3>1, <3>2, PrefixOfPrefix, Zenon
    <3> QED BY <1>4, <1>5, <1>6, <1>7, <1>9, <3>1, <3>2, <3>3, Zenon
  <2>2. \A j, k \in 1..(n-1) :
            j <= k => backtrack_points'[j].path_len <= backtrack_points'[k].path_len
    <3>1. \A j \in 1..(n-1) : j \in 1..n BY <1>1, SMTT(30)
    <3> QED BY <1>5, <1>9, <3>1, Zenon
  <2> QED BY <1>5, <2>1, <2>2, Zenon DEF SavedIntact
<1>17. Remaining' = Remaining
  <2>1. Remaining = Pending
    BY <1>3, Zenon DEF Remaining, Sat
  <2>2. Remaining' = Region(n) \cup Pending'
    BY <1>3, <1>8, Zenon DEF Remaining
  <2>3. \A i : i \in Pending <=> \E k \in 1..n : i \in Region(k)
    BY PendingMembers, Zenon DEF n
  <2>4. \A i : i \in Pending' <=> \E k \in 1..(n-1) : i \in Region(k)'
    BY <1>5, Zenon DEF Pending
  <2>5. \A k : k \in 1..n <=> k = n \/ k \in 1..(n-1)
    BY <1>1, SMTT(30)
  <2>6. \A i : i \in Pending <=> i \in Region(n) \/ i \in Pending'
    BY <1>10, <2>3, <2>4, <2>5, Zenon
  <2> QED BY <2>1, <2>2, <2>6, Zenon
<1>18. InputsAccountedFor'
  BY <1>0, <1>3, <1>17, Zenon DEF InputsAccountedFor
<1>19. path' = saved[n].path /\ Top(solver)' = saved[n].region \cap backtrack_points[n].constraint
  <2>1. n \in 1..n BY <1>1, SMTT(30)
  <2> QED BY <1>3, <1>8, <1>9, <2>1, Zenon DEF Region, L
<1> QED BY <1>12, <1>13, <1>14, <1>15, <1>16, <1>17, <1>18, <1>19, Zenon DEF IInv, n

\* Steps that leave the stacks alone keep everything that is said of them.
LEMMA StacksUntouched ==
    ASSUME IInv, mode' \in Modes,
           UNCHANGED <<solver, backtrack_points, path, yielded, excluded, saved>>
    PROVE  /\ TypeOK' /\ LevelsMatch' /\ PathsDisjoint' /\ PendingFeasible' /\ SavedIntact'
           /\ Top(solver)' = Top(solver) /\ Pending' = Pending
<1>1. TypeOK' /\ LevelsMatch' /\ SavedIntact'
  BY Zenon DEF IInv, TypeOK, LevelsMatch, SavedIntact
<1>2. PathsDisjoint' /\ PendingFeasible'
  BY Zenon DEF IInv, PathsDisjoint, PendingFeasible, Region, Top
<1>3. Top(solver)' = Top(solver) /\ Pending' = Pending
  BY Zenon DEF Top, Pending, Region
<1> QED BY <1>1, <1>2, <1>3, Zenon

\* The first call of `next()` keeps the invariant.
LEMMA StartKeeps ==
    ASSUME IInv, Start
    PROVE  IInv' /\ Remaining' = Remaining
<1>1. /\ mode = "fresh" /\ mode' = "running"
      /\ UNCHANGED <<solver, backtrack_points, path, yielded, excluded, saved>>
  BY Zenon DEF Start
<1>2. /\ TypeOK' /\ LevelsMatch' /\ PathsDisjoint' /\ PendingFeasible' /\ SavedIntact'
      /\ Top(solver)' = Top(solver) /\ Pending' = Pending
  BY <1>1, StacksUntouched, Zenon DEF Modes
<1>3. Remaining' = Remaining
  BY <1>1, <1>2, Zenon DEF Remaining
<1>4. InputsAccountedFor'
  BY <1>1, <1>3, Zenon DEF IInv, InputsAccountedFor
<1> QED BY <1>2, <1>3, <1>4, Zenon DEF IInv

\* When `next()` answers None, no input remains.
LEMMA ExhaustKeeps ==
    ASSUME IInv, Exhaust
    PROVE  IInv' /\ Remaining = {} /\ Remaining' = {}
<1>1. /\ mode = "yielded" \/ (mode = "running" /\ ~Sat(solver))
      /\ mode' = "done" /\ Len(backtrack_points) = 0
      /\ UNCHANGED <<solver, backtrack_points, path, yielded, excluded, saved>>
  BY Zenon DEF Exhaust, MayBacktrack
<1>2. /\ TypeOK' /\ LevelsMatch' /\ PathsDisjoint' /\ PendingFeasible' /\ SavedIntact'
      /\ Top(solver)' = Top(solver) /\ Pending' = Pending
  BY <1>1, StacksUntouched, Zenon DEF Modes
<1>3. Pending = {}
  BY <1>1, PendingMembers, SMTT(30)
<1>4. Remaining = {} /\ Remaining' = {}
  BY <1>1, <1>2, <1>3, Zenon DEF Remaining, Sat
<1>5. InputsAccountedFor'
  BY <1>1, <1>4, Zenon DEF IInv, InputsAccountedFor
<1> QED BY <1>2, <1>4, <1>5, Zenon DEF IInv

\* `record_path_entry` keeps the invariant: saved paths are prefixes of the log.
LEMMA RecordKeeps ==
    ASSUME IInv, NEW b \in Blocks, RecordPathEntry(b)
    PROVE  IInv' /\ Remaining' = Remaining
<1>1. /\ path' = Append(path, b) /\ mode' = mode
      /\ UNCHANGED <<solver, backtrack_points, mode, yielded, excluded, saved>>
  BY Zenon DEF RecordPathEntry
<1>2. TypeOK' /\ LevelsMatch' /\ path \in Seq(Blocks)
  BY <1>1, SMTT(30) DEF IInv, TypeOK, LevelsMatch
<1>3. PathsDisjoint' /\ PendingFeasible'
  BY <1>1, Zenon DEF IInv, PathsDisjoint, PendingFeasible, Region, Top
<1>4. Remaining' = Remaining
  BY <1>1, Zenon DEF Remaining, Top, Pending, Region
<1>5. InputsAccountedFor'
  BY <1>1, <1>4, Zenon DEF IInv, InputsAccountedFor
<1>6. SavedIntact'
  <2>1. \A k \in 1..Len(backtrack_points) : backtrack_points[k].path_len \in Nat
    <3>1. \A k \in 1..Len(backtrack_points) : backtrack_points[k] \in BacktrackPoint
      BY SMTT(30) DEF IInv, TypeOK
    <3> QED BY <3>1, Zenon DEF BacktrackPoint
  <2>2. \A l \in Nat : l <= Len(path) => SubSeq(path', 1, l) = SubSeq(path, 1, l)
    BY <1>1, <1>2, SMTT(30)
  <2>3. Len(path') = Len(path) + 1 /\ Len(path) \in Nat
    BY <1>1, <1>2, SMTT(30)
  <2> QED BY <1>1, <2>1, <2>2, <2>3, SMTT(30) DEF IInv, SavedIntact
<1> QED BY <1>2, <1>3, <1>4, <1>5, <1>6, Zenon DEF IInv

\* What a feasibility query asks.
LEMMA SatMeaning ==
    ASSUME TypeOK, LevelsMatch, NEW c \in SUBSET Inputs
    PROVE  SatWithExtraConstraint(solver, c) <=> Top(solver) \cap c # {}
<1> DEFINE p == Push(solver)
<1>1. solver \in Seq(SUBSET Inputs) /\ Len(solver) > 0 /\ Top(solver) \in SUBSET Inputs
  BY SMTT(30) DEF TypeOK, LevelsMatch, Top
<1>2. p \in Seq(SUBSET Inputs) /\ Len(p) = Len(solver) + 1 /\ p[Len(p)] = Top(solver)
  BY <1>1, SMTT(30) DEF Push
<1> HIDE DEF p
<1>3. /\ Len(AssertIn(p, c)) = Len(p)
      /\ AssertIn(p, c)[Len(p)] = Top(solver) \cap c
  BY <1>1, <1>2, SMTT(30) DEF AssertIn
<1>4. Top(AssertIn(p, c)) = Top(solver) \cap c
  BY <1>3, Zenon DEF Top
<1> QED BY <1>4, Zenon DEF SatWithExtraConstraint, Sat, p

\* `symex_condbr` keeps the invariant: its two ways partition the inputs.
LEMMA CondBrKeeps ==
    ASSUME IInv, NEW c \in SUBSET Inputs, CondBr(c)
    PROVE  IInv' /\ Remaining' = Remaining
<1>0. TypeOK /\ LevelsMatch /\ mode = "running"
  BY Zenon DEF IInv, CondBr
<1>1. Inputs \ c \in SUBSET Inputs /\ Top(solver) \subseteq Inputs
  BY <1>0, SMTT(30) DEF TypeOK, LevelsMatch, Top
<1>2. CASE /\ SatWithExtraConstraint(solver, Inputs \ c)
           /\ Fork(c, <<Inputs \ c>>)
  <2> DEFINE cs == <<Inputs \ c>>
  <2>1. cs \in Seq(SUBSET Inputs) /\ Len(cs) = 1 /\ cs[1] = Inputs \ c
    BY <1>1, SMTT(30)
  <2>2. Top(solver) \cap cs[1] # {}
    BY <1>0, <1>1, <1>2, <2>1, SatMeaning, Zenon
  <2>3. Fork(c, cs) BY <1>2, Zenon
  <2> HIDE DEF cs
  <2>4. \A j \in 1..Len(cs) : j = 1 BY <2>1, SMTT(30)
  <2> QED BY <1>0, <1>1, <2>1, <2>2, <2>3, <2>4, ForkKeeps, SMTT(30)
<1>3. CASE /\ ~SatWithExtraConstraint(solver, Inputs \ c)
           /\ Fork(c, <<>>)
  <2> DEFINE cs == <<>>
  <2>1. cs \in Seq(SUBSET Inputs) /\ Len(cs) = 0 /\ Fork(c, cs)
    BY <1>3, SMTT(30)
  <2>2. \A i \in Top(solver) : i \in c
    BY <1>0, <1>1, <1>3, SatMeaning, Zenon
  <2> HIDE DEF cs
  <2>3. \A j \in 1..Len(cs) : FALSE BY <2>1, SMTT(30)
  <2> QED BY <1>0, <2>1, <2>2, <2>3, ForkKeeps, Zenon
<1>4. CASE /\ ~SatWithExtraConstraint(solver, c)
           /\ Fork(Inputs \ c, <<>>)
  <2> DEFINE cs == <<>>
             d == Inputs \ c
  <2>1. cs \in Seq(SUBSET Inputs) /\ Len(cs) = 0 /\ Fork(d, cs) /\ d \in SUBSET Inputs
    BY <1>4, SMTT(30)
  <2>2. \A i \in Top(solver) : i \in d
    BY <1>0, <1>1, <1>4, SatMeaning, Zenon
  <2> HIDE DEF cs, d
  <2>3. \A j \in 1..Len(cs) : FALSE BY <2>1, SMTT(30)
  <2> QED BY <1>0, <2>1, <2>2, <2>3, ForkKeeps, Zenon
<1> QED BY <1>2, <1>3, <1>4, Zenon DEF CondBr

\* `symex_switch` keeps the invariant: its ways partition the inputs.
LEMMA SwitchKeeps ==
    ASSUME IInv, NEW ways \in Seq(SUBSET Inputs), Switch(ways)
    PROVE  IInv' /\ Remaining' = Remaining
<1> DEFINE c == ways[1]
           cs == Tail(ways)
<1>0. TypeOK /\ LevelsMatch /\ mode = "running"
  BY Zenon DEF IInv, Switch
<1>1. /\ Len(ways) \in Nat /\ Len(ways) > 0 /\ Fork(c, cs)
      /\ \A j \in 1..Len(ways) : SatWithExtraConstraint(solver, ways[j])
      /\ \A j, k \in 1..Len(ways) : j # k => ways[j] \cap ways[k] = {}
      /\ \A i \in Top(solver) : \E j \in 1..Len(ways) : i \in ways[j]
  <2>1. Len(ways) \in Nat
    BY SMTT(30)
  <2>2. Len(ways) > 0 /\ Fork(c, cs) /\ SwitchWays(ways)
    BY Zenon DEF Switch
  <2> HIDE DEF c, cs
  <2> QED BY <2>1, <2>2, Zenon DEF SwitchWays
<1>2. /\ c \in SUBSET Inputs /\ cs \in Seq(SUBSET Inputs) /\ Len(cs) = Len(ways) - 1
      /\ \A j \in 1..Len(cs) : cs[j] = ways[j+1]
  BY <1>1, SMTT(30)
<1> HIDE DEF c, cs
<1>3. \A j \in 1..Len(cs) : j + 1 \in 1..Len(ways) /\ j + 1 # 1
  BY <1>1, <1>2, SMTT(30)
<1>4. \A j \in 1..Len(cs) : Top(solver) \cap cs[j] # {}
  <2> TAKE j \in 1..Len(cs)
  <2>1. ways[j+1] \in SUBSET Inputs /\ SatWithExtraConstraint(solver, ways[j+1])
    BY <1>1, <1>3, SMTT(30)
  <2> QED BY <1>0, <1>2, <2>1, SatMeaning, Zenon
<1>5. \A j \in 1..Len(cs) : c \cap cs[j] = {}
  <2> TAKE j \in 1..Len(cs)
  <2>1. ways[1] \cap ways[j+1] = {} BY <1>1, <1>3, SMTT(30)
  <2> QED BY <1>2, <2>1, Zenon DEF c
<1>6. \A j, k \in 1..Len(cs) : j # k => cs[j] \cap cs[k] = {}
  <2> TAKE j, k \in 1..Len(cs)
  <2> HAVE j # k
  <2>1. j+1 # k+1 BY SMTT(30)
  <2>2. ways[j+1] \cap ways[k+1] = {} BY <1>1, <1>3, <2>1, Zenon
  <2> QED BY <1>2, <2>2, Zenon
<1>7. \A i \in Top(solver) : i \in c \/ \E j \in 1..Len(cs) : i \in cs[j]
  <2> TAKE i \in Top(solver)
  <2>1. PICK k \in 1..Len(ways) : i \in ways[k] BY <1>1, Zenon
  <2>2. CASE k = 1 BY <2>1, <2>2, Zenon DEF c
  <2>3. CASE k # 1
    <3>1. PICK j \in 1..Len(cs) : j + 1 = k
      <4>1. k-1 \in 1..Len(cs) /\ (k-1) + 1 = k BY <1>1, <1>2, <2>3, SMTT(30)
      <4> QED BY <4>1, Zenon
    <3> QED BY <1>2, <2>1, <3>1, Zenon
  <2> QED BY <2>2, <2>3, Zenon
<1>8. /\ \A j \in 1..Len(cs) : Top(solver) \cap c \cap cs[j] = {}
      /\ \A j, k \in 1..Len(cs) : j # k => Top(solver) \cap cs[j] \cap cs[k] = {}
  BY <1>5, <1>6, Zenon
<1> QED BY <1>0, <1>1, <1>2, <1>4, <1>7, <1>8, ForkKeeps, Zenon

\* The inductive invariant is preserved, and every step is a step of the
\* iterator or leaves the iterator's state alone.
LEMMA StepFacts ==
    ASSUME IInv, [Next]_vars
    PROVE  IInv' /\ (Iterator!Next \/ UNCHANGED Iterator!vars)
<1> DEFINE Stays == Remaining' = Remaining /\ yielded' = yielded /\ excluded' = excluded
<1>0. ASSUME Stays, (mode = "done") = (mode' = "done")
      PROVE  UNCHANGED Iterator!vars
  BY <1>0, Zenon DEF Iterator!vars
<1>1. CASE Start
  <2>1. IInv' /\ Remaining' = Remaining BY <1>1, StartKeeps, Zenon
  <2>2. yielded' = yielded /\ excluded' = excluded /\ mode # "done" /\ mode' # "done"
    BY <1>1, Zenon DEF Start
  <2> QED BY <1>0, <2>1, <2>2, Zenon
<1>2. ASSUME NEW b \in Blocks, RecordPathEntry(b) PROVE IInv' /\ UNCHANGED Iterator!vars
  <2>1. IInv' /\ Remaining' = Remaining BY <1>2, RecordKeeps, Zenon
  <2>2. yielded' = yielded /\ excluded' = excluded /\ mode' = mode
    BY <1>2, Zenon DEF RecordPathEntry
  <2> QED BY <1>0, <2>1, <2>2, Zenon
<1>3. ASSUME NEW c \in SUBSET Inputs, Assume(c) PROVE IInv' /\ Iterator!Next
  <2> DEFINE S == Top(solver) \ c
  <2>1. IInv' /\ Remaining' = Remaining \ S BY <1>3, AssumeKeeps, Zenon
  <2>2. /\ yielded' = yielded /\ excluded' = excluded \cup S
        /\ mode \in {"fresh", "running"} /\ mode' = mode
    BY <1>3, Zenon DEF Assume
  <2>3. S \in SUBSET Remaining BY <2>2, Zenon DEF Remaining
  <2>4. (mode = "done") = (mode' = "done") BY <2>2, Zenon
  <2> HIDE DEF S
  <2>5. Iterator!Exclude(S) BY <2>1, <2>2, <2>4, Zenon DEF Iterator!Exclude
  <2> QED BY <2>1, <2>3, <2>5, Zenon DEF Iterator!Next
<1>4. ASSUME NEW c \in SUBSET Inputs, CondBr(c) PROVE IInv' /\ UNCHANGED Iterator!vars
  <2>1. IInv' /\ Remaining' = Remaining BY <1>4, CondBrKeeps, Zenon
  <2>2. yielded' = yielded /\ excluded' = excluded /\ mode' = mode
    BY <1>4, Zenon DEF CondBr, Fork
  <2> QED BY <1>0, <2>1, <2>2, Zenon
<1>5. ASSUME NEW cs \in Switches, Switch(cs) PROVE IInv' /\ UNCHANGED Iterator!vars
  <2>0. cs \in Seq(SUBSET Inputs) BY SwitchesAssumption, Zenon
  <2>1. IInv' /\ Remaining' = Remaining BY <1>5, <2>0, SwitchKeeps, Zenon
  <2>2. yielded' = yielded /\ excluded' = excluded /\ mode' = mode
    BY <1>5, Zenon DEF Switch, Fork
  <2> QED BY <1>0, <2>1, <2>2, SMTT(30)
<1>6. CASE Yield
  <2> DEFINE S == Top(solver)
  <2>1. IInv' /\ Remaining' = Remaining \ S BY <1>6, YieldKeeps, Zenon
  <2>2. /\ yielded' = yielded \cup S /\ excluded' = excluded
        /\ mode = "running" /\ mode' = "yielded"
    BY <1>6, Zenon DEF Yield
  <2>3. S \in SUBSET Remaining BY <2>2, Zenon DEF Remaining
  <2>4. (mode = "done") = (mode' = "done") BY <2>2, Zenon
  <2> HIDE DEF S
  <2>5. Iterator!YieldPath(S) BY <2>1, <2>2, <2>4, Zenon DEF Iterator!YieldPath
  <2> QED BY <2>1, <2>3, <2>5, Zenon DEF Iterator!Next
<1>7. CASE Backtrack
  <2>1. IInv' /\ Remaining' = Remaining BY <1>7, BacktrackKeeps, Zenon
  <2>2. yielded' = yielded /\ excluded' = excluded /\ mode # "done" /\ mode' # "done"
    BY <1>7, Zenon DEF Backtrack, MayBacktrack
  <2> QED BY <1>0, <2>1, <2>2, SMTT(30)
<1>8. CASE Exhaust
  <2>1. IInv' /\ Remaining = {} /\ Remaining' = {} BY <1>8, ExhaustKeeps, Zenon
  <2>2. yielded' = yielded /\ excluded' = excluded /\ mode' = "done"
    BY <1>8, Zenon DEF Exhaust
  <2>3. Iterator!Finish BY <2>1, <2>2, Zenon DEF Iterator!Finish
  <2> QED BY <2>1, <2>3, Zenon DEF Iterator!Next
<1>9. CASE UNCHANGED vars
  <2>1. mode' \in Modes /\ mode' = mode
        /\ UNCHANGED <<solver, backtrack_points, path, yielded, excluded, saved>>
    BY <1>9, Zenon DEF vars, IInv, TypeOK
  <2>2. /\ TypeOK' /\ LevelsMatch' /\ PathsDisjoint' /\ PendingFeasible' /\ SavedIntact'
        /\ Top(solver)' = Top(solver) /\ Pending' = Pending
    BY <2>1, StacksUntouched, Zenon
  <2>3. Remaining' = Remaining BY <2>1, <2>2, Zenon DEF Remaining
  <2>4. InputsAccountedFor' BY <2>1, <2>3, Zenon DEF IInv, InputsAccountedFor
  <2> QED BY <1>0, <2>1, <2>2, <2>3, <2>4, Zenon DEF IInv
<1>10. CASE NextAfterNone
  BY <1>9, <1>10, Zenon DEF NextAfterNone
<1>11. ASSUME NEW c \in SUBSET Inputs, AssertFinal(c) PROVE IInv' /\ UNCHANGED Iterator!vars
  <2>1. IInv' /\ Remaining' = Remaining BY <1>11, AssertFinalKeeps, SMTT(30)
  <2>2. yielded' = yielded /\ excluded' = excluded /\ mode' = mode
    BY <1>11, Zenon DEF AssertFinal
  <2> QED BY <1>0, <2>1, <2>2, SMTT(30)
<1> QED BY <1>1, <1>2, <1>3, <1>4, <1>5, <1>6, <1>7, <1>8, <1>9, <1>10, <1>11, Zenon DEF Next

\* The engine's bookkeeping has its types, the solver has one level per
\* backtracking point, and IInv holds throughout.
THEOREM Invariance == Spec => []IInv
<1>1. Init => IInv
  BY InitEstablishes, Zenon
<1>2. IInv /\ [Next]_vars => IInv'
  BY StepFacts, Zenon
<1> QED BY <1>1, <1>2, PTL DEF Spec

\* The solver and the backtracking points are well-typed in every state.
THEOREM TypeCorrect == Spec => []TypeOK
<1>1. IInv => TypeOK BY Zenon DEF IInv
<1> QED BY <1>1, Invariance, PTL

\* save pushes once and revert pops once, whatever happens in between.
THEOREM LevelsAlwaysMatch == Spec => []LevelsMatch
<1>1. IInv => LevelsMatch BY Zenon DEF IInv
<1> QED BY <1>1, Invariance, PTL

\* Two paths never share an input.
THEOREM PathsAlwaysDisjoint == Spec => []PathsDisjoint
<1>1. IInv => PathsDisjoint BY Zenon DEF IInv
<1> QED BY <1>1, Invariance, PTL

\* The exploration neither loses an input nor reports it twice.
THEOREM NoInputLost == Spec => []InputsAccountedFor
<1>1. IInv => InputsAccountedFor BY Zenon DEF IInv
<1> QED BY <1>1, Invariance, PTL

\* Every pending backtracking point can be resumed.
THEOREM PendingAlwaysFeasible == Spec => []PendingFeasible
<1>1. IInv => PendingFeasible BY Zenon DEF IInv
<1> QED BY <1>1, Invariance, PTL

\* What a backtracking point saved stays intact until it is resumed.
THEOREM SavedAlwaysIntact == Spec => []SavedIntact
<1>1. IInv => SavedIntact BY Zenon DEF IInv
<1> QED BY <1>1, Invariance, PTL

\* Reverting restores the path and the constraints that were saved.
THEOREM RevertAlwaysRestores == Spec => RevertRestores
<1> DEFINE A == Len(backtrack_points') < Len(backtrack_points) =>
                  LET n == Len(backtrack_points) IN
                  /\ path' = saved[n].path
                  /\ Top(solver') = saved[n].region \cap backtrack_points[n].constraint
<1>1. IInv /\ [Next]_vars => [A]_vars
  <2> SUFFICES ASSUME IInv, Next, Len(backtrack_points') < Len(backtrack_points)
               PROVE  A
    BY Zenon
  <2>1. TypeOK /\ LevelsMatch BY Zenon DEF IInv
  <2>2. Len(backtrack_points) \in Nat /\ Len(backtrack_points) = Len(solver) - 1
    BY <2>1, SMTT(30) DEF TypeOK, LevelsMatch
  <2>3. CASE Backtrack
    BY <2>3, BacktrackKeeps, Zenon DEF Top
  <2>4. ASSUME NEW c \in SUBSET Inputs, NEW cs \in Seq(SUBSET Inputs), Fork(c, cs)
        PROVE  FALSE
    <3>1. Len(backtrack_points') = Len(solver) - 1 + Len(cs) /\ Len(cs) \in Nat
      BY <2>1, <2>4, ForkFacts, Zenon
    <3> QED BY <2>2, <3>1, SMTT(30)
  <2>5. ASSUME NEW c \in SUBSET Inputs, CondBr(c) PROVE FALSE
    <3>1. PICK d \in SUBSET Inputs, cs \in Seq(SUBSET Inputs) : Fork(d, cs)
      <4>1. Inputs \ c \in SUBSET Inputs /\ <<Inputs \ c>> \in Seq(SUBSET Inputs)
            /\ <<>> \in Seq(SUBSET Inputs)
        BY SMTT(30)
      <4> QED BY <2>5, <4>1, Zenon DEF CondBr
    <3> QED BY <2>4, <3>1, Zenon
  <2>6. ASSUME NEW ways \in Switches, Switch(ways) PROVE FALSE
    <3>1. ways \in Seq(SUBSET Inputs) /\ Len(ways) > 0 /\ Fork(ways[1], Tail(ways))
      BY <2>6, SwitchesAssumption, Zenon DEF Switch
    <3>2. ways[1] \in SUBSET Inputs /\ Tail(ways) \in Seq(SUBSET Inputs) BY <3>1, SMTT(30)
    <3> QED BY <2>4, <3>1, <3>2, Zenon
  <2>7. ASSUME backtrack_points' = backtrack_points PROVE FALSE
    BY <2>2, <2>7, SMTT(30)
  <2> QED
    BY <2>3, <2>5, <2>6, <2>7, Zenon DEF Next, Start, RecordPathEntry, Assume, AssertFinal,
                                 Yield, Exhaust, NextAfterNone, vars
<1> QED BY <1>1, Invariance, PTL DEF Spec, RevertRestores

\* Depth-first exploration implements the iterator: each call of `next()` takes
\* inputs no earlier path covered, and None means that no input is left.
THEOREM ImplementsIterator == Spec => IteratorSpec
<1>1. Init => Iterator!Init
  <2> SUFFICES ASSUME Init PROVE Iterator!Init
    BY SMTT(30)
  <2>1. Len(backtrack_points) = 0 /\ Top(solver) = Inputs /\ mode = "fresh"
    BY Zenon DEF Init, Top
  <2>2. Pending = {} BY <2>1, PendingMembers, SMTT(30)
  <2>3. Remaining = Inputs BY <2>1, <2>2, Zenon DEF Remaining
  <2> QED BY <2>1, <2>3, Zenon DEF Init, Iterator!Init
<1>2. IInv /\ [Next]_vars => [Iterator!Next]_Iterator!vars
  BY StepFacts, Zenon
<1> QED BY <1>1, <1>2, Invariance, PTL DEF Spec, IteratorSpec, Iterator!Spec
=============================================================================
