---------------------- MODULE RecoverySelectionProofs ----------------------
(***************************************************************************)
(* For every transcript and every pair of positive limits: the loop of     *)
(* selectRecoveryTurns keeps its types, never exceeds a limit, and selects *)
(* the newest turns of the transcript, each that fits and no other.        *)
(***************************************************************************)
EXTENDS RecoverySelection, TLAPS, FiniteSetTheorems

\* What the arguments are: a transcript of turns, and limits of at least one.
LEMMA ArgumentTypes ==
    ASSUME TypeOK
    PROVE  /\ transcript \in Seq(Turns)
           /\ maxTurns \in Nat \ {0} /\ maxChars \in Nat \ {0}
BY RecoveryAssumption DEF TypeOK

\* The cut text is no longer than the turn, nor than the room that is left.
LEMMA CutFits ==
    ASSUME NEW turn \in Turns, usedChars \in Nat, maxChars \in Nat, usedChars < maxChars
    PROVE  /\ CutLength(turn) \in Nat
           /\ CutLength(turn) <= turn.length
           /\ usedChars + CutLength(turn) <= maxChars
<1>1. turn.length \in Nat
    BY DEF Turns
<1>. QED  BY <1>1 DEF CutLength, Remaining

\* A turn of the transcript at an index the loop has reached is a turn.
LEMMA TurnLookedAt ==
    ASSUME TypeOK, index > 0
    PROVE  transcript[index] \in Turns
<1>1. transcript \in Seq(Turns) /\ index \in 1..Len(transcript)
    BY ArgumentTypes DEF TypeOK
<1>. QED  BY <1>1

\* Not full: there is room for a turn and for a character.
LEMMA RoomLeft ==
    ASSUME TypeOK, ~Full
    PROVE  Len(selected) < maxTurns /\ usedChars < maxChars
<1>1. Len(selected) \in Nat /\ usedChars \in Nat
    BY DEF TypeOK
<1>2. maxTurns \in Nat /\ maxChars \in Nat
    BY ArgumentTypes
<1>. QED  BY <1>1, <1>2 DEF Full

\* Every variable of the selection keeps its type (reseed.ts:25-50).
THEOREM TypeCorrect == Spec => []TypeOK
<1>1. Init => TypeOK
    <2>. SUFFICES ASSUME Init PROVE TypeOK
        OBVIOUS
    <2>1. transcript \in Seq(Turns)
        BY RecoveryAssumption DEF Init
    <2>2. Len(transcript) \in 0..Len(transcript)
        BY <2>1
    <2>. QED  BY <2>2 DEF Init, TypeOK
<1>2. TypeOK /\ [Next]_vars => TypeOK'
    <2>. SUFFICES ASSUME TypeOK, [Next]_vars PROVE TypeOK'
        OBVIOUS
    <2>1. CASE Leave
        BY <2>1 DEF Leave, TypeOK, arguments
    <2>2. CASE Skip
        <3>1. index - 1 \in 0..Len(transcript)
            BY <2>2, ArgumentTypes DEF TypeOK, Skip
        <3>. QED  BY <2>2, <3>1 DEF Skip, TypeOK, arguments
    <2>3. CASE Push
        <3>. DEFINE turn == transcript[index]
        <3>1. turn \in Turns
            BY <2>3, TurnLookedAt DEF Push
        <3>2. usedChars < maxChars /\ usedChars \in Nat /\ maxChars \in Nat
            BY <2>3, RoomLeft, ArgumentTypes DEF Push, TypeOK
        <3>3. CutLength(turn) \in Nat
            BY <3>1, <3>2, CutFits
        <3>4. index \in Nat /\ index - 1 \in 0..Len(transcript)
            BY <2>3, ArgumentTypes DEF TypeOK, Push
        <3>5. selected' \in Seq([at : Nat, length : Nat])
            <4>1. [at |-> index, length |-> CutLength(turn)] \in [at : Nat, length : Nat]
                BY <3>3, <3>4
            <4>2. selected' = Append(selected, [at |-> index, length |-> CutLength(turn)])
                BY <2>3 DEF Push
            <4>. HIDE DEF turn
            <4>. QED  BY <4>1, <4>2 DEF TypeOK
        <3>6. usedChars' \in Nat
            BY <2>3, <3>2, <3>3 DEF Push
        <3>7. looping' \in BOOLEAN
            BY <2>3 DEF Push
        <3>. QED  BY <2>3, <3>4, <3>5, <3>6, <3>7 DEF Push, TypeOK, arguments
    <2>4. CASE Returned \/ UNCHANGED vars
        BY <2>4 DEF Returned, TypeOK, vars, arguments
    <2>. QED  BY <2>1, <2>2, <2>3, <2>4 DEF Next
<1>. QED  BY <1>1, <1>2, PTL DEF Spec

\* A session that replaces a failed one is never given more turns or more
\* characters than RECOVERY_MAX_TURNS and RECOVERY_MAX_CHARS allow (reseed.ts:33-46).
THEOREM NeverBeyondLimits == Spec => []LimitsKept
<1>1. Init /\ TypeOK => LimitsKept
    BY ArgumentTypes DEF Init, LimitsKept
<1>2. TypeOK /\ LimitsKept /\ [Next]_vars => LimitsKept'
    <2>. SUFFICES ASSUME TypeOK, LimitsKept, [Next]_vars PROVE LimitsKept'
        OBVIOUS
    <2>1. CASE Push
        <3>1. transcript[index] \in Turns
            BY <2>1, TurnLookedAt DEF Push
        <3>2. Len(selected) < maxTurns /\ usedChars < maxChars
            BY <2>1, RoomLeft DEF Push
        <3>3. usedChars \in Nat /\ maxChars \in Nat /\ maxTurns \in Nat /\ Len(selected) \in Nat
            BY ArgumentTypes DEF TypeOK
        <3>4. usedChars + CutLength(transcript[index]) <= maxChars
            BY <3>1, <3>2, <3>3, CutFits
        <3>5. Len(selected') = Len(selected) + 1
            BY <2>1 DEF Push, TypeOK
        <3>. QED  BY <2>1, <3>2, <3>3, <3>4, <3>5 DEF Push, LimitsKept, arguments
    <2>2. CASE Leave \/ Skip \/ Returned \/ UNCHANGED vars
        BY <2>2 DEF Leave, Skip, Returned, LimitsKept, vars, arguments
    <2>. QED  BY <2>1, <2>2 DEF Next
<1>. QED  BY <1>1, <1>2, TypeCorrect, PTL DEF Spec

-----------------------------------------------------------------------------
(* Sums over a finite set of turns.  The fold that MapThenSumSet is made of is a   *)
(* function defined by recursion over the subsets of its argument; that there is   *)
(* such a function, and what it returns, is shown by taking a smallest subset for  *)
(* which it fails.                                                                 *)

\* A family of subsets of a finite set has a smallest member.
LEMMA SmallestSubset ==
    ASSUME NEW S, IsFiniteSet(S), NEW F, F \subseteq SUBSET S, F # {}
    PROVE  \E T \in F : \A U \in F : U \subseteq T => U = T
<1>1. FiniteSubsetsOf(S) = SUBSET S
    BY FS_FiniteSubsetsOfFinite
<1>2. IsWellFoundedOn(StrictSubsetOrdering(S), SUBSET S)
    BY <1>1, FS_StrictSubsetOrderingWellFounded
<1>3. PICK T \in F : \A U \in F : ~(<<U, T>> \in StrictSubsetOrdering(S))
    BY <1>2, WFMin, Zenon
<1>4. ASSUME NEW U \in F, U \subseteq T, U # T PROVE FALSE
    <2>1. <<U, T>> \in (SUBSET S) \X (SUBSET S)
        BY Zenon
    <2>2. <<U, T>> \in StrictSubsetOrdering(S)
        BY <1>4, <2>1, SMT DEF StrictSubsetOrdering
    <2>. QED  BY <1>3, <2>2
<1>. QED  BY <1>4

\* The turn the fold takes first.
Some(turns) == CHOOSE j \in turns : TRUE

\* The characters of the given turns of a transcript.
Total(t, turns) == MapThenSumSet(LAMBDA j : t[j].length, turns)

\* g is the fold's function on the subsets of the given turns.
IsFold(g, t, turns) ==
    g = [s \in SUBSET turns |-> IF s = {} THEN 0 ELSE t[Some(s)].length + g[s \ {Some(s)}]]

LEMMA CharsAreTotal == \A turns : CharsOf(turns) = Total(transcript, turns)
BY DEF CharsOf, Total

LEMMA TotalIsFold == \A t, turns : Total(t, turns) = (CHOOSE g : IsFold(g, t, turns))[turns]
BY DEF Total, MapThenSumSet, MapThenFoldSet, IsFold, Some

LEMMA SomeOf == \A turns : turns # {} => Some(turns) \in turns
BY DEF Some

\* Folds over two sets agree on their common subsets.
LEMMA FoldsAgree ==
    ASSUME NEW t, NEW A, NEW B, IsFiniteSet(A), NEW g, NEW h, IsFold(g, t, A), IsFold(h, t, B),
           NEW C, C \subseteq A, C \subseteq B
    PROVE  g[C] = h[C]
<1>. DEFINE Bad == {U \in SUBSET A : U \subseteq B /\ g[U] # h[U]}
<1>1. SUFFICES ASSUME Bad # {} PROVE FALSE
    OBVIOUS
<1>2. PICK U \in Bad : \A V \in Bad : V \subseteq U => V = U
    <2>1. Bad \subseteq SUBSET A
        OBVIOUS
    <2>. HIDE DEF Bad
    <2>. QED  BY <1>1, <2>1, SmallestSubset
<1>3. U \in SUBSET A /\ U \in SUBSET B /\ g[U] # h[U]
    OBVIOUS
<1>. DEFINE W == U \ {Some(U)}
<1>4. /\ g[U] = IF U = {} THEN 0 ELSE t[Some(U)].length + g[W]
      /\ h[U] = IF U = {} THEN 0 ELSE t[Some(U)].length + h[W]
    BY <1>3 DEF IsFold
<1>5. U # {} /\ g[W] # h[W]
    BY <1>3, <1>4
<1>6. W \in Bad /\ W \subseteq U /\ W # U
    BY <1>3, <1>5, SomeOf
<1>. QED  BY <1>2, <1>6

\* There is such a function over every finite set.
LEMMA FoldExists ==
    ASSUME NEW t, NEW S, IsFiniteSet(S)
    PROVE  \E g : IsFold(g, t, S)
<1>. DEFINE Bad == {U \in SUBSET S : ~ \E g : IsFold(g, t, U)}
<1>1. SUFFICES ASSUME Bad # {} PROVE FALSE
    OBVIOUS
<1>2. PICK U \in Bad : \A V \in Bad : V \subseteq U => V = U
    <2>1. Bad \subseteq SUBSET S
        OBVIOUS
    <2>. HIDE DEF Bad
    <2>. QED  BY <1>1, <2>1, SmallestSubset
<1>. DEFINE fold(V) == CHOOSE g : IsFold(g, t, V)
            value(V) == fold(V)[V]
            g == [s \in SUBSET U |-> IF s = {} THEN 0
                                     ELSE t[Some(s)].length + value(s \ {Some(s)})]
<1>3. \A V \in SUBSET U : V # U => IsFold(fold(V), t, V)
    BY <1>2
<1>4. ASSUME NEW s \in SUBSET U, s # {}
      PROVE  g[s \ {Some(s)}] = value(s \ {Some(s)})
    <2>. DEFINE V == s \ {Some(s)}
                W == V \ {Some(V)}
    <2>1. V \in SUBSET U /\ V # U /\ IsFiniteSet(V)
        <3>1. V \in SUBSET U /\ V # U
            BY <1>4, SomeOf
        <3>. QED  BY <3>1, FS_Subset
    <2>2. IsFold(fold(V), t, V)
        BY <1>3, <2>1
    <2>3. value(V) = IF V = {} THEN 0 ELSE t[Some(V)].length + fold(V)[W]
        <3>. HIDE DEF fold
        <3>. QED  BY <2>2 DEF IsFold
    <2>4. g[V] = IF V = {} THEN 0 ELSE t[Some(V)].length + value(W)
        <3>. HIDE DEF value, V
        <3>. QED  BY <2>1
    <2>5. ASSUME V # {} PROVE fold(V)[W] = value(W)
        <3>1. W \in SUBSET U /\ W # U /\ W \subseteq V
            BY <2>1
        <3>2. IsFold(fold(W), t, W)
            BY <1>3, <3>1
        <3>. HIDE DEF fold, V, W
        <3>. QED  BY <2>1, <2>2, <3>1, <3>2, FoldsAgree
    <2>. HIDE DEF fold, value, g, W
    <2>. QED  BY <2>3, <2>4, <2>5
<1>5. IsFold(g, t, U)
    <2>1. \A s \in SUBSET U : s # {} => g[s \ {Some(s)}] = value(s \ {Some(s)})
        BY <1>4
    <2>2. g = [s \in SUBSET U |-> IF s = {} THEN 0 ELSE t[Some(s)].length + g[s \ {Some(s)}]]
        <3>. DEFINE h == [s \in SUBSET U |-> IF s = {} THEN 0
                                             ELSE t[Some(s)].length + g[s \ {Some(s)}]]
        <3>1. \A s \in SUBSET U : g[s] = h[s]
            <4>. HIDE DEF value
            <4>1. ASSUME NEW s \in SUBSET U PROVE g[s] = h[s]
                <5>1. g[s] = IF s = {} THEN 0 ELSE t[Some(s)].length + value(s \ {Some(s)})
                    OBVIOUS
                <5>. HIDE DEF g
                <5>2. h[s] = IF s = {} THEN 0 ELSE t[Some(s)].length + g[s \ {Some(s)}]
                    OBVIOUS
                <5>. HIDE DEF h
                <5>. QED  BY <5>1, <5>2, <2>1
            <4>. QED  BY <4>1
        <3>2. g = [s \in SUBSET U |-> g[s]]
            <4>. HIDE DEF value
            <4>. QED  OBVIOUS
        <3>3. h = [s \in SUBSET U |-> h[s]]
            <4>. HIDE DEF g
            <4>. QED  OBVIOUS
        <3>. HIDE DEF g, h
        <3>4. g = h
            BY <3>1, <3>2, <3>3
        <3>. QED  BY <3>4 DEF h
    <2>. HIDE DEF g
    <2>. QED  BY <2>2 DEF IsFold
<1>. HIDE DEF g
<1>. QED  BY <1>2, <1>5

LEMMA TotalOfNone == \A t : Total(t, {}) = 0
<1>. SUFFICES ASSUME NEW t PROVE Total(t, {}) = 0
    OBVIOUS
<1>. DEFINE g == CHOOSE g : IsFold(g, t, {})
<1>1. IsFold(g, t, {})
    BY FoldExists, FS_EmptySet
<1>. HIDE DEF g
<1>2. g[{}] = 0
    BY <1>1 DEF IsFold
<1>. QED  BY <1>2, TotalIsFold DEF g

LEMMA TotalOfSome ==
    ASSUME NEW t, NEW S, IsFiniteSet(S), S # {}
    PROVE  Total(t, S) = t[Some(S)].length + Total(t, S \ {Some(S)})
<1>. DEFINE W == S \ {Some(S)}
            g == CHOOSE g : IsFold(g, t, S)
            h == CHOOSE h : IsFold(h, t, W)
<1>1. IsFold(g, t, S)
    BY FoldExists
<1>2. IsFiniteSet(W)
    BY FS_Subset
<1>3. IsFold(h, t, W)
    BY <1>2, FoldExists
<1>4. Total(t, S) = g[S] /\ Total(t, W) = h[W]
    BY TotalIsFold
<1>. HIDE DEF g, h
<1>5. g[S] = t[Some(S)].length + g[W]
    BY <1>1 DEF IsFold
<1>6. g[W] = h[W]
    <2>1. W \subseteq S /\ W \subseteq W
        OBVIOUS
    <2>. HIDE DEF W
    <2>. QED  BY <1>1, <1>3, <2>1, FoldsAgree
<1>. QED  BY <1>4, <1>5, <1>6

LEMMA TotalType ==
    ASSUME NEW t, NEW S, IsFiniteSet(S), \A j \in S : t[j].length \in Nat
    PROVE  Total(t, S) \in Nat
<1>. DEFINE Bad == {U \in SUBSET S : Total(t, U) \notin Nat}
<1>1. SUFFICES ASSUME Bad # {} PROVE FALSE
    OBVIOUS
<1>2. PICK U \in Bad : \A V \in Bad : V \subseteq U => V = U
    <2>1. Bad \subseteq SUBSET S
        OBVIOUS
    <2>. HIDE DEF Bad
    <2>. QED  BY <1>1, <2>1, SmallestSubset
<1>. DEFINE W == U \ {Some(U)}
<1>3. U # {} /\ Some(U) \in U /\ W \in SUBSET S /\ W # U /\ IsFiniteSet(U)
    <2>1. Total(t, U) \notin Nat
        OBVIOUS
    <2>2. U # {}
        BY <2>1, TotalOfNone
    <2>3. Some(U) \in U
        BY <2>2, SomeOf
    <2>4. IsFiniteSet(U)
        BY FS_Subset
    <2>. QED  BY <2>2, <2>3, <2>4
<1>4. Total(t, W) \in Nat
    BY <1>2, <1>3
<1>5. t[Some(U)].length \in Nat
    BY <1>3
<1>6. Total(t, U) = t[Some(U)].length + Total(t, W)
    BY <1>3, TotalOfSome
<1>. QED  BY <1>4, <1>5, <1>6

\* Whichever turn is taken out first, the sum is the same.
LEMMA TotalWithout ==
    ASSUME NEW t, NEW S, IsFiniteSet(S), \A j \in S : t[j].length \in Nat, NEW x \in S
    PROVE  Total(t, S) = t[x].length + Total(t, S \ {x})
<1>. DEFINE Bad == {U \in SUBSET S : \E y \in U : Total(t, U) # t[y].length + Total(t, U \ {y})}
<1>1. SUFFICES ASSUME Bad # {} PROVE FALSE
    OBVIOUS
<1>2. PICK U \in Bad : \A V \in Bad : V \subseteq U => V = U
    <2>1. Bad \subseteq SUBSET S
        OBVIOUS
    <2>. HIDE DEF Bad
    <2>. QED  BY <1>1, <2>1, SmallestSubset
<1>3. PICK y \in U : Total(t, U) # t[y].length + Total(t, U \ {y})
    OBVIOUS
<1>. DEFINE c == Some(U)
<1>4. c \in U /\ U \in SUBSET S /\ IsFiniteSet(U)
    BY SomeOf, FS_Subset
<1>. HIDE DEF c
<1>5. Total(t, U) = t[c].length + Total(t, U \ {c})
    BY <1>4, TotalOfSome DEF c
<1>6. c # y
    BY <1>3, <1>5
<1>7. Total(t, U \ {c}) = t[y].length + Total(t, (U \ {c}) \ {y})
    <2>1. U \ {c} \notin Bad /\ y \in U \ {c}
        BY <1>2, <1>4, <1>6
    <2>. QED  BY <2>1
<1>8. Total(t, U \ {y}) = t[c].length + Total(t, (U \ {y}) \ {c})
    <2>1. U \ {y} \notin Bad /\ c \in U \ {y}
        BY <1>2, <1>4, <1>6
    <2>. QED  BY <2>1, <1>4
<1>9. (U \ {c}) \ {y} = (U \ {y}) \ {c}
    OBVIOUS
<1>10. Total(t, (U \ {y}) \ {c}) \in Nat /\ t[y].length \in Nat /\ t[c].length \in Nat
    <2>1. IsFiniteSet((U \ {y}) \ {c})
        BY <1>4, FS_Subset
    <2>2. \A j \in (U \ {y}) \ {c} : t[j].length \in Nat
        OBVIOUS
    <2>. QED  BY <2>1, <2>2, <1>4, TotalType
<1>. DEFINE rest == Total(t, (U \ {y}) \ {c})
<1>11. Total(t, U) = t[c].length + (t[y].length + rest)
    BY <1>5, <1>7, <1>9, Zenon
<1>12. t[y].length + Total(t, U \ {y}) = t[y].length + (t[c].length + rest)
    BY <1>8, Zenon
<1>13. t[c].length + (t[y].length + rest) = t[y].length + (t[c].length + rest)
    <2>. HIDE DEF rest
    <2>1. \A k, l, m \in Nat : k + (l + m) = l + (k + m)
        OBVIOUS
    <2>2. rest \in Nat /\ t[y].length \in Nat /\ t[c].length \in Nat
        BY <1>10 DEF rest
    <2>. QED  BY ONLY <2>1, <2>2, Zenon
<1>. QED  BY <1>3, <1>11, <1>12, <1>13, Zenon

\* More turns have no fewer characters.
LEMMA TotalGrows ==
    ASSUME NEW t, NEW S, IsFiniteSet(S), \A j \in S : t[j].length \in Nat, NEW R \in SUBSET S
    PROVE  Total(t, R) <= Total(t, S)
<1>. DEFINE Bad == {U \in SUBSET S : R \subseteq U /\ ~(Total(t, R) <= Total(t, U))}
<1>1. SUFFICES ASSUME Bad # {} PROVE FALSE
    OBVIOUS
<1>2. PICK U \in Bad : \A V \in Bad : V \subseteq U => V = U
    <2>1. Bad \subseteq SUBSET S
        OBVIOUS
    <2>. HIDE DEF Bad
    <2>. QED  BY <1>1, <2>1, SmallestSubset
<1>3. IsFiniteSet(U) /\ IsFiniteSet(R) /\ R \subseteq U /\ (\A j \in U : t[j].length \in Nat)
    BY FS_Subset
<1>4. Total(t, U) \in Nat /\ Total(t, R) \in Nat
    BY <1>3, TotalType
<1>5. U # R
    BY <1>4
<1>6. PICK x \in U : x \notin R
    BY <1>3, <1>5
<1>7. Total(t, R) <= Total(t, U \ {x})
    <2>1. U \ {x} \notin Bad
        BY <1>2
    <2>. QED  BY <2>1, <1>3, <1>6
<1>8. Total(t, U) = t[x].length + Total(t, U \ {x})
    BY <1>3, TotalWithout
<1>9. Total(t, U \ {x}) \in Nat /\ t[x].length \in Nat
    <2>1. IsFiniteSet(U \ {x}) /\ \A j \in U \ {x} : t[j].length \in Nat
        BY <1>3, FS_Subset
    <2>. QED  BY <2>1, <1>3, TotalType
<1>10. ~(Total(t, R) <= Total(t, U))
    OBVIOUS
<1>. HIDE DEF Bad
<1>. QED  BY <1>4, <1>7, <1>8, <1>9, <1>10

-----------------------------------------------------------------------------
(* The selection *)

\* What the loop has pushed is every usable turn it has passed, newest first, whole
\* but for a last one that filled the selection; and once it has left, no older turn
\* is within the limits.
PassedInv ==
    /\ \A n, k \in DOMAIN selected : n < k => selected[n].at > selected[k].at
    /\ \A n \in DOMAIN selected : selected[n].at \in NewerThan(index)
    /\ \A j \in NewerThan(index) : \E n \in DOMAIN selected : selected[n].at = j
    /\ Len(selected) = Cardinality(NewerThan(index))
    /\ \A n \in DOMAIN selected : selected[n].length = RoomFor(selected[n].at)
    /\ NewerThan(index) \subseteq WithinLimits
    /\ looping => usedChars = CharsOf(NewerThan(index))
    /\ ~looping => WithinLimits \subseteq NewerThan(index)

\* The smaller of two numbers.
LEMMA MinOfTwo ==
    ASSUME NEW a \in Int, NEW b \in Int
    PROVE  Min({a, b}) = IF a > b THEN b ELSE a
<1>. DEFINE m == IF a > b THEN b ELSE a
<1>1. m \in {a, b} /\ \A y \in {a, b} : m <= y
    OBVIOUS
<1>2. \A x \in {a, b} : (\A y \in {a, b} : x <= y) => x = m
    OBVIOUS
<1>. HIDE DEF m
<1>3. (CHOOSE x \in {a, b} : \A y \in {a, b} : x <= y) = m
    BY <1>1, <1>2
<1>. QED  BY <1>3 DEF Min, m

\* The turns are those of a finite transcript, each with a length.
LEMMA UsableFinite ==
    ASSUME TypeOK
    PROVE  /\ UsableTurns \subseteq 1..Len(transcript) /\ IsFiniteSet(UsableTurns)
           /\ \A j \in UsableTurns : transcript[j].length \in Nat
<1>1. transcript \in Seq(Turns) /\ Len(transcript) \in Nat
    BY ArgumentTypes
<1>2. UsableTurns \subseteq 1..Len(transcript)
    BY <1>1 DEF UsableTurns
<1>3. IsFiniteSet(1..Len(transcript))
    BY <1>1, FS_Interval
<1>4. \A j \in UsableTurns : transcript[j].length \in Nat
    <2>1. \A j \in UsableTurns : transcript[j] \in Turns
        BY <1>1, <1>2
    <2>. QED  BY <2>1 DEF Turns
<1>. QED  BY <1>2, <1>3, <1>4, FS_Subset

\* Turns newer than some turn can be counted, and their characters too.
LEMMA NewerFinite ==
    ASSUME TypeOK, NEW i
    PROVE  /\ NewerThan(i) \subseteq UsableTurns /\ IsFiniteSet(NewerThan(i))
           /\ Cardinality(NewerThan(i)) \in Nat /\ CharsOf(NewerThan(i)) \in Nat
<1>1. NewerThan(i) \subseteq UsableTurns
    BY DEF NewerThan
<1>2. IsFiniteSet(NewerThan(i))
    BY <1>1, UsableFinite, FS_Subset
<1>3. CharsOf(NewerThan(i)) \in Nat
    BY <1>1, <1>2, UsableFinite, TotalType, CharsAreTotal
<1>. QED  BY <1>1, <1>2, <1>3, FS_CardinalityType

\* The further back one goes, the more turns are newer, and the more characters they have.
LEMMA NewerGrows ==
    ASSUME TypeOK, NEW i \in Int, NEW k \in Int, i <= k
    PROVE  /\ NewerThan(k) \subseteq NewerThan(i)
           /\ Cardinality(NewerThan(k)) <= Cardinality(NewerThan(i))
           /\ CharsOf(NewerThan(k)) <= CharsOf(NewerThan(i))
<1>1. \A j \in UsableTurns : j \in Int
    BY UsableFinite, ArgumentTypes
<1>2. NewerThan(k) \subseteq NewerThan(i)
    <2>1. \A j \in UsableTurns : j > k => j > i
        BY <1>1
    <2>. QED  BY <2>1 DEF NewerThan
<1>3. Cardinality(NewerThan(k)) <= Cardinality(NewerThan(i))
    BY <1>2, NewerFinite, FS_Subset
<1>4. CharsOf(NewerThan(k)) <= CharsOf(NewerThan(i))
    BY <1>2, NewerFinite, UsableFinite, TotalGrows, CharsAreTotal
<1>. QED  BY <1>2, <1>3, <1>4

\* One turn further back there is that turn more, if it is usable.
LEMMA NewerByOne ==
    ASSUME TypeOK, index > 0
    PROVE  /\ index \in UsableTurns <=> Usable(transcript[index])
           /\ ~Usable(transcript[index]) => NewerThan(index - 1) = NewerThan(index)
           /\ Usable(transcript[index]) =>
                /\ NewerThan(index - 1) = NewerThan(index) \cup {index}
                /\ Cardinality(NewerThan(index - 1)) = Cardinality(NewerThan(index)) + 1
                /\ CharsOf(NewerThan(index - 1)) =
                       CharsOf(NewerThan(index)) + transcript[index].length
<1>1. index \in DOMAIN transcript /\ index \in Nat
    BY ArgumentTypes DEF TypeOK
<1>2. index \in UsableTurns <=> Usable(transcript[index])
    BY <1>1 DEF UsableTurns, Usable
<1>3. \A j \in UsableTurns : j \in Int
    BY UsableFinite, ArgumentTypes
<1>4. NewerThan(index - 1) = IF index \in UsableTurns THEN NewerThan(index) \cup {index}
                             ELSE NewerThan(index)
    <2>1. \A j \in UsableTurns : j > index - 1 <=> j > index \/ j = index
        BY <1>1, <1>3
    <2>. QED  BY <2>1 DEF NewerThan
<1>5. index \notin NewerThan(index)
    BY <1>1 DEF NewerThan
<1>6. ASSUME Usable(transcript[index])
      PROVE  /\ Cardinality(NewerThan(index - 1)) = Cardinality(NewerThan(index)) + 1
             /\ CharsOf(NewerThan(index - 1)) = CharsOf(NewerThan(index)) + transcript[index].length
    <2>1. NewerThan(index - 1) = NewerThan(index) \cup {index}
        BY <1>2, <1>4, <1>6
    <2>2. Cardinality(NewerThan(index) \cup {index}) = Cardinality(NewerThan(index)) + 1
        BY <1>5, NewerFinite, FS_AddElement, Zenon
    <2>3. NewerThan(index - 1) \ {index} = NewerThan(index)
        BY <2>1, <1>5
    <2>4. IsFiniteSet(NewerThan(index - 1)) /\ index \in NewerThan(index - 1)
          /\ \A j \in NewerThan(index - 1) : transcript[j].length \in Nat
        BY <2>1, NewerFinite, UsableFinite
    <2>5. Total(transcript, NewerThan(index - 1)) =
              transcript[index].length + Total(transcript, NewerThan(index))
        BY <2>3, <2>4, TotalWithout
    <2>6. Total(transcript, NewerThan(index)) \in Nat /\ transcript[index].length \in Nat
        BY <2>4, NewerFinite, CharsAreTotal
    <2>7. Total(transcript, NewerThan(index - 1)) =
              Total(transcript, NewerThan(index)) + transcript[index].length
        BY <2>5, <2>6
    <2>8. CharsOf(NewerThan(index - 1)) = CharsOf(NewerThan(index)) + transcript[index].length
        BY <2>7, CharsAreTotal, Zenon
    <2>. QED  BY <2>1, <2>2, <2>8
<1>. QED  BY <1>2, <1>4, <1>6

LEMMA NewerChars == \A i : CharsOf(NewerThan(i)) = Total(transcript, NewerThan(i))
BY CharsAreTotal

LEMMA NewerCharsNext == (\A i : CharsOf(NewerThan(i)) = Total(transcript, NewerThan(i)))'
BY NewerChars, PTL

\* What is to be selected depends on the arguments only.
LEMMA SameArguments ==
    ASSUME UNCHANGED arguments
    PROVE  /\ WithinLimits' = WithinLimits
           /\ \A i : NewerThan(i)' = NewerThan(i) /\ RoomFor(i)' = RoomFor(i)
           /\ \A i : CharsOf(NewerThan(i))' = CharsOf(NewerThan(i))
<1>1. transcript' = transcript /\ maxTurns' = maxTurns /\ maxChars' = maxChars
    BY DEF arguments
<1>2. UsableTurns' = UsableTurns /\ \A i : NewerThan(i)' = NewerThan(i)
    BY <1>1 DEF UsableTurns, NewerThan
<1>3. \A i : CharsOf(NewerThan(i))' = CharsOf(NewerThan(i))
    BY <1>1, <1>2, NewerChars, NewerCharsNext
<1>. QED  BY <1>1, <1>2, <1>3 DEF WithinLimits, RoomFor

\* Once either limit is reached, no older turn is within the limits.
LEMMA NoRoomBehind ==
    ASSUME TypeOK, NEW k \in Int,
           Cardinality(NewerThan(k)) >= maxTurns \/ CharsOf(NewerThan(k)) >= maxChars
    PROVE  WithinLimits \subseteq NewerThan(k)
<1>. SUFFICES ASSUME NEW i \in WithinLimits, i \notin NewerThan(k) PROVE FALSE
    OBVIOUS
<1>1. i \in UsableTurns /\ Cardinality(NewerThan(i)) < maxTurns /\ CharsOf(NewerThan(i)) < maxChars
    BY DEF WithinLimits
<1>2. i \in Int
    BY <1>1, UsableFinite, ArgumentTypes
<1>3. i <= k
    <2>1. ~(i > k)
        BY <1>1 DEF NewerThan
    <2>. QED  BY <1>2, <2>1
<1>4. Cardinality(NewerThan(k)) <= Cardinality(NewerThan(i))
      /\ CharsOf(NewerThan(k)) <= CharsOf(NewerThan(i))
    BY <1>2, <1>3, NewerGrows
<1>5. /\ Cardinality(NewerThan(k)) \in Nat /\ Cardinality(NewerThan(i)) \in Nat
      /\ CharsOf(NewerThan(k)) \in Nat /\ CharsOf(NewerThan(i)) \in Nat
      /\ maxTurns \in Nat /\ maxChars \in Nat
    BY NewerFinite, ArgumentTypes
<1>. QED  BY <1>1, <1>4, <1>5

LEMMA PassedInvInit == Init /\ TypeOK => PassedInv
<1>. SUFFICES ASSUME Init, TypeOK PROVE PassedInv
    OBVIOUS
<1>1. index = Len(transcript) /\ selected = <<>> /\ usedChars = 0 /\ looping = TRUE
    BY DEF Init
<1>2. NewerThan(index) = {}
    <2>1. \A j \in UsableTurns : ~(j > index)
        BY <1>1, UsableFinite, ArgumentTypes
    <2>. QED  BY <2>1 DEF NewerThan
<1>3. CharsOf({}) = 0 /\ Cardinality({}) = 0
    BY TotalOfNone, CharsAreTotal, FS_EmptySet
<1>4. DOMAIN selected = {} /\ Len(selected) = 0
    BY <1>1
<1>. QED  BY <1>1, <1>2, <1>3, <1>4 DEF PassedInv

\* A turn that is pushed is the next older one, and is cut to the room there is for it.
LEMMA PushKeepsPassed == TypeOK /\ PassedInv /\ Push => PassedInv'
<1>. SUFFICES ASSUME TypeOK, PassedInv, Push PROVE PassedInv'
    OBVIOUS
<1>. DEFINE turn == transcript[index]
            r == [at |-> index, length |-> CutLength(turn)]
            n == Len(selected)
<1>1. /\ looping /\ index > 0 /\ ~Full /\ Usable(turn) /\ UNCHANGED arguments
      /\ selected' = Append(selected, r) /\ usedChars' = usedChars + CutLength(turn)
      /\ looping' = (CutLength(turn) = turn.length) /\ index' = index - 1
    BY DEF Push
<1>2. /\ index \in Nat /\ usedChars \in Nat /\ maxChars \in Nat /\ maxTurns \in Nat /\ n \in Nat
      /\ turn \in Turns /\ turn.length \in Nat
      /\ n < maxTurns /\ usedChars < maxChars
    <2>1. turn \in Turns
        BY <1>1, TurnLookedAt
    <2>2. turn.length \in Nat
        BY <2>1 DEF Turns
    <2>3. index \in Nat
        BY ArgumentTypes DEF TypeOK
    <2>. HIDE DEF turn
    <2>. QED  BY <1>1, <2>1, <2>2, <2>3, RoomLeft, ArgumentTypes DEF TypeOK
<1>3. /\ NewerThan(index - 1) = NewerThan(index) \cup {index}
      /\ Cardinality(NewerThan(index - 1)) = Cardinality(NewerThan(index)) + 1
      /\ CharsOf(NewerThan(index - 1)) = usedChars + turn.length
      /\ index \in UsableTurns
    BY <1>1, NewerByOne DEF PassedInv
<1>4. /\ Cardinality(NewerThan(index)) = n /\ CharsOf(NewerThan(index)) = usedChars
    BY <1>1 DEF PassedInv
<1>5. CutLength(turn) \in Nat /\ CutLength(turn) <= turn.length
    BY <1>2, CutFits
<1>6. RoomFor(index) = CutLength(turn)
    <2>1. RoomFor(index) = Min({turn.length, maxChars - usedChars})
        BY <1>4 DEF RoomFor
    <2>2. maxChars - usedChars \in Int /\ turn.length \in Int
        BY <1>2
    <2>3. RoomFor(index) = IF turn.length > maxChars - usedChars THEN maxChars - usedChars
                           ELSE turn.length
        BY <2>1, <2>2, MinOfTwo
    <2>. QED  BY <2>3 DEF CutLength, Remaining
<1>7. index \in WithinLimits
    BY <1>2, <1>3, <1>4 DEF WithinLimits
<1>8. /\ Len(selected') = n + 1 /\ DOMAIN selected' = DOMAIN selected \cup {n + 1}
      /\ selected'[n + 1] = r /\ \A m \in DOMAIN selected : selected'[m] = selected[m] /\ m < n + 1
      /\ DOMAIN selected = 1..n
    <2>1. selected \in Seq([at : Nat, length : Nat]) /\ r \in [at : Nat, length : Nat]
        BY <1>2, <1>5 DEF TypeOK
    <2>. HIDE DEF r
    <2>. QED  BY <1>1, <2>1
<1>9. \A m \in DOMAIN selected : selected[m].at > index
    BY DEF PassedInv, NewerThan
<1>10. ~looping' => WithinLimits \subseteq NewerThan(index - 1)
    <2>1. SUFFICES ASSUME ~looping' PROVE CharsOf(NewerThan(index - 1)) >= maxChars
        BY <1>2, NoRoomBehind
    <2>2. CutLength(turn) # turn.length
        BY <1>1, <2>1
    <2>3. turn.length > maxChars - usedChars
        BY <2>2 DEF CutLength, Remaining
    <2>. HIDE DEF turn
    <2>. QED  BY <1>2, <1>3, <2>3
<1>11. looping' => usedChars' = CharsOf(NewerThan(index - 1))
    BY <1>1, <1>3
<1>12. /\ NewerThan(index)' = NewerThan(index - 1) /\ WithinLimits' = WithinLimits
       /\ CharsOf(NewerThan(index))' = CharsOf(NewerThan(index - 1))
       /\ \A i : RoomFor(i)' = RoomFor(i)
    BY <1>1, SameArguments
<1>13. r.at = index /\ r.length = RoomFor(index)
    BY <1>6
<1>. HIDE DEF r, turn, n
<1>14. \A m, k \in DOMAIN selected' : m < k => selected'[m].at > selected'[k].at
    <2>. SUFFICES ASSUME NEW m \in DOMAIN selected', NEW k \in DOMAIN selected', m < k
                  PROVE  selected'[m].at > selected'[k].at
        OBVIOUS
    <2>1. m \in DOMAIN selected
        BY <1>2, <1>8
    <2>2. CASE k \in DOMAIN selected
        BY <1>8, <2>1, <2>2 DEF PassedInv
    <2>3. CASE k = n + 1
        BY <1>8, <1>9, <1>13, <2>1, <2>3
    <2>. QED  BY <1>8, <2>2, <2>3
<1>15. \A m \in DOMAIN selected' : /\ selected'[m].at \in NewerThan(index - 1)
                                   /\ selected'[m].length = RoomFor(selected'[m].at)
    <2>. SUFFICES ASSUME NEW m \in DOMAIN selected'
                  PROVE  /\ selected'[m].at \in NewerThan(index - 1)
                         /\ selected'[m].length = RoomFor(selected'[m].at)
        OBVIOUS
    <2>1. CASE m \in DOMAIN selected
        BY <1>3, <1>8, <2>1 DEF PassedInv
    <2>2. CASE m = n + 1
        BY <1>3, <1>8, <1>13, <2>2
    <2>. QED  BY <1>8, <2>1, <2>2
<1>16. \A j \in NewerThan(index - 1) : \E m \in DOMAIN selected' : selected'[m].at = j
    <2>. SUFFICES ASSUME NEW j \in NewerThan(index - 1)
                  PROVE  \E m \in DOMAIN selected' : selected'[m].at = j
        OBVIOUS
    <2>1. CASE j \in NewerThan(index)
        <3>1. PICK m \in DOMAIN selected : selected[m].at = j
            BY <2>1 DEF PassedInv
        <3>. QED  BY <1>8, <3>1
    <2>2. CASE j = index
        BY <1>8, <1>13, <2>2
    <2>. QED  BY <1>3, <2>1, <2>2
<1>17. Len(selected') = Cardinality(NewerThan(index - 1))
    BY <1>3, <1>4, <1>8
<1>18. NewerThan(index - 1) \subseteq WithinLimits
    BY <1>3, <1>7 DEF PassedInv
<1>. QED  BY <1>10, <1>11, <1>12, <1>14, <1>15, <1>16, <1>17, <1>18 DEF PassedInv

\* What a session that replaces a failed one is given: exactly the newest turns that
\* both limits leave room for, none left out in the middle, cut at the oldest only,
\* for every transcript and all limits (reseed.ts:25-50).
THEOREM NewestAreSelected == Spec => []SelectsNewest
<1>1. TypeOK /\ PassedInv /\ [Next]_vars => PassedInv'
    <2>. SUFFICES ASSUME TypeOK, PassedInv, [Next]_vars PROVE PassedInv'
        OBVIOUS
    <2>1. CASE Push
        BY <2>1, PushKeepsPassed
    <2>2. CASE Skip
        <3>1. NewerThan(index - 1) = NewerThan(index)
            BY <2>2, NewerByOne DEF Skip
        <3>2. /\ UNCHANGED arguments /\ UNCHANGED <<selected, usedChars, looping>>
              /\ index' = index - 1 /\ looping
            BY <2>2 DEF Skip
        <3>3. /\ NewerThan(index)' = NewerThan(index) /\ WithinLimits' = WithinLimits
              /\ CharsOf(NewerThan(index))' = CharsOf(NewerThan(index))
              /\ \A i : RoomFor(i)' = RoomFor(i)
            BY <3>1, <3>2, SameArguments
        <3>. QED  BY <3>2, <3>3 DEF PassedInv
    <2>3. CASE Leave
        <3>1. /\ UNCHANGED arguments /\ UNCHANGED <<index, selected, usedChars>>
              /\ looping' = FALSE /\ looping
            BY <2>3 DEF Leave
        <3>2. /\ index \in Nat /\ usedChars = CharsOf(NewerThan(index))
              /\ Len(selected) = Cardinality(NewerThan(index))
            BY <3>1, ArgumentTypes DEF PassedInv, TypeOK
        <3>3. WithinLimits \subseteq NewerThan(index)
            <4>1. CASE index = 0
                <5>1. \A j \in UsableTurns : j > index
                    BY <4>1, UsableFinite, ArgumentTypes
                <5>. QED  BY <5>1 DEF WithinLimits, NewerThan
            <4>2. CASE Full
                BY <3>2, <4>2, NoRoomBehind DEF Full
            <4>. QED  BY <2>3, <4>1, <4>2 DEF Leave
        <3>. QED  BY <3>1, <3>3, SameArguments DEF PassedInv
    <2>4. CASE Returned \/ UNCHANGED vars
        <3>1. UNCHANGED arguments /\ UNCHANGED <<index, selected, usedChars, looping>>
            BY <2>4 DEF Returned, vars
        <3>. QED  BY <3>1, SameArguments DEF PassedInv
    <2>. QED  BY <2>1, <2>2, <2>3, <2>4 DEF Next
<1>2. PassedInv => SelectsNewest
    <2>. SUFFICES ASSUME PassedInv, ~looping PROVE SelectsNewest
        BY DEF SelectsNewest
    <2>1. WithinLimits = NewerThan(index)
        BY DEF PassedInv
    <2>2. {selected[n].at : n \in DOMAIN selected} = NewerThan(index)
        BY DEF PassedInv
    <2>. QED  BY <2>1, <2>2 DEF PassedInv, SelectsNewest
<1>. QED  BY <1>1, <1>2, PassedInvInit, TypeCorrect, PTL DEF Spec

=============================================================================
