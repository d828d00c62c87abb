------------------------ MODULE LedgerAuditProofs -------------------------
(* Why the auditor's reading of a ledger and the label builder's agree,    *)
(* with each other, with what the agent was told and with the database:    *)
(* every row of a refund attempt belongs to the tale of its call (StoryInv *)
(* of RefundEnvProofs).  Then, for the claims of ClaimAudit: what the  *)
(* temporal verifier adds to a verdict, and why the cited rows suffice.    *)
EXTENDS ClaimAudit, RefundEnvProofs

(* A bounded set of numbers that is not empty has a largest member. *)
LEMMA HasGreatest ==
  ASSUME NEW S, S \subseteq Nat, S # {}, NEW n \in Nat, \A x \in S : x <= n
  PROVE  \E x \in S : \A y \in S : y <= x
<1>. DEFINE Gaps == {n - x : x \in S}
<1>1. \A x \in S : n - x \in Nat
  OBVIOUS
<1>2. Gaps \subseteq Nat /\ Gaps # {}
  BY <1>1
<1>3. PICK gap \in Gaps : \A other \in Gaps : gap <= other
  BY <1>2, HasLeast
<1>4. PICK x \in S : gap = n - x
  BY <1>3
<1>5. ASSUME NEW y \in S
      PROVE  y <= x
  <2>1. n - y \in Gaps /\ x \in Nat /\ y \in Nat
    OBVIOUS
  <2>2. gap <= n - y
    BY <1>3, <2>1
  <2>. HIDE DEF Gaps
  <2>. QED
    BY <1>4, <2>1, <2>2
<1>. QED
  BY <1>4, <1>5

-----------------------------------------------------------------------------
(* The sum of a function over a finite set.  The library defines it by a   *)
(* recursion over subsets that takes away a chosen element; the sum does   *)
(* not depend on the choice.                                               *)
First(s) == CHOOSE x \in s : TRUE

(* g sums fun over every subset of D. *)
IsSum(g, fun, D) ==
  g = [s \in SUBSET D |-> IF s = {} THEN 0 ELSE fun[First(s)] + g[s \ {First(s)}]]

LEMMA SumIs ==
  ASSUME NEW fun
  PROVE  SumFunction(fun) = (CHOOSE g : IsSum(g, fun, DOMAIN fun))[DOMAIN fun]
  BY Zenon DEF SumFunction, SumFunctionOnSet, FoldFunctionOnSet, MapThenFoldSet, IsSum, First

LEMMA Smaller ==
  ASSUME NEW s, IsFiniteSet(s), NEW x \in s
  PROVE  /\ IsFiniteSet(s \ {x}) /\ Cardinality(s \ {x}) \in Nat /\ Cardinality(s) \in Nat
         /\ Cardinality(s \ {x}) = Cardinality(s) - 1
         /\ Cardinality(s \ {x}) < Cardinality(s)
<1>1. Cardinality(s) \in Nat
  BY FS_CardinalityType
<1>2. IsFiniteSet(s \ {x}) /\ Cardinality(s \ {x}) = Cardinality(s) - 1
  BY FS_RemoveElement
<1>3. Cardinality(s \ {x}) \in Nat
  BY <1>2, FS_CardinalityType
<1>. QED
  BY <1>1, <1>2, <1>3

(* g sums fun over the subsets of D of at most n elements. *)
SumsUpTo(g, fun, D, n) ==
  /\ g = [s \in SUBSET D |-> g[s]]
  /\ \A s \in SUBSET D : Cardinality(s) <= n =>
       g[s] = IF s = {} THEN 0 ELSE fun[First(s)] + g[s \ {First(s)}]

LEMMA SumStep ==
  ASSUME NEW fun, NEW D, IsFiniteSet(D), NEW n \in Nat, NEW g, SumsUpTo(g, fun, D, n)
  PROVE  \E h : SumsUpTo(h, fun, D, n + 1)
<1>. DEFINE Rest(s) == IF s = {} THEN 0 ELSE fun[First(s)] + g[s \ {First(s)}]
            h == [s \in SUBSET D |-> IF Cardinality(s) <= n THEN g[s] ELSE Rest(s)]
<1>1. ASSUME NEW s \in SUBSET D, Cardinality(s) <= n + 1
      PROVE  h[s] = IF s = {} THEN 0 ELSE fun[First(s)] + h[s \ {First(s)}]
  <2>1. h[s] = Rest(s)
    BY DEF SumsUpTo
  <2>2. CASE s = {}
    BY <2>1, <2>2
  <2>3. CASE s # {}
    <3>1. First(s) \in s
      BY <2>3 DEF First
    <3>2. IsFiniteSet(s)
      BY FS_Subset
    <3>3. /\ Cardinality(s \ {First(s)}) \in Nat /\ Cardinality(s) \in Nat
          /\ Cardinality(s \ {First(s)}) < Cardinality(s)
      BY <3>1, <3>2, Smaller
    <3>4. Cardinality(s \ {First(s)}) <= n
      BY <1>1, <3>3
    <3>5. s \ {First(s)} \in SUBSET D
      OBVIOUS
    <3>6. h[s \ {First(s)}] = g[s \ {First(s)}]
      BY <3>4, <3>5
    <3>. QED
      BY <2>1, <2>3, <3>6, Zenon
  <2>. QED
    BY <2>2, <2>3
<1>2. h = [s \in SUBSET D |-> h[s]]
  OBVIOUS
<1>. HIDE DEF h
<1>. QED
  BY <1>1, <1>2 DEF SumsUpTo

LEMMA SumExists ==
  ASSUME NEW fun, NEW D, IsFiniteSet(D)
  PROVE  \E g : IsSum(g, fun, D)
<1>. DEFINE Bad == {n \in Nat : ~ \E g : SumsUpTo(g, fun, D, n)}
<1>1. \E g : SumsUpTo(g, fun, D, 0)
  <2>. DEFINE g == [s \in SUBSET D |-> 0]
  <2>1. ASSUME NEW s \in SUBSET D, Cardinality(s) <= 0
        PROVE  s = {}
    <3>1. IsFiniteSet(s)
      BY FS_Subset
    <3>2. Cardinality(s) \in Nat
      BY <3>1, FS_CardinalityType
    <3>. QED
      BY <2>1, <3>1, <3>2, FS_EmptySet
  <2>2. SumsUpTo(g, fun, D, 0)
    BY <2>1 DEF SumsUpTo
  <2>. QED
    BY <2>2
<1>2. Bad = {}
  <2>. SUFFICES ASSUME Bad # {} PROVE FALSE
    OBVIOUS
  <2>1. PICK n \in Bad : \A m \in Bad : n <= m
    BY HasLeast
  <2>2. n # 0 /\ n - 1 \in Nat /\ n - 1 \notin Bad
    <3>1. n \in Nat /\ n # 0
      BY <1>1, <2>1
    <3>2. n - 1 \in Bad => n <= n - 1
      BY <2>1
    <3>. HIDE DEF Bad
    <3>. QED
      BY <3>1, <3>2
  <2>3. PICK g : SumsUpTo(g, fun, D, n - 1)
    BY <2>2
  <2>4. \E h : SumsUpTo(h, fun, D, (n - 1) + 1)
    BY <2>2, <2>3, SumStep
  <2>5. (n - 1) + 1 = n
    <3>1. n \in Nat
      BY <2>1
    <3>. HIDE DEF Bad
    <3>. QED
      BY <3>1
  <2>. QED
    BY <2>1, <2>4, <2>5
<1>3. Cardinality(D) \in Nat
  BY FS_CardinalityType
<1>4. PICK g : SumsUpTo(g, fun, D, Cardinality(D))
  BY <1>2, <1>3
<1>5. \A s \in SUBSET D : Cardinality(s) <= Cardinality(D)
  BY FS_Subset
<1>6. IsSum(g, fun, D)
  BY <1>4, <1>5 DEF SumsUpTo, IsSum
<1>. QED
  BY <1>6

Unfolds(g, fun, D) ==
  \A s \in SUBSET D :
    /\ s = {} => g[s] = 0
    /\ s # {} => First(s) \in s /\ g[s] = fun[First(s)] + g[s \ {First(s)}]

LEMMA SumUnfolds ==
  ASSUME NEW fun, NEW D, NEW g, IsSum(g, fun, D)
  PROVE  Unfolds(g, fun, D)
<1>. SUFFICES ASSUME NEW s \in SUBSET D
              PROVE  /\ s = {} => g[s] = 0
                     /\ s # {} => First(s) \in s /\ g[s] = fun[First(s)] + g[s \ {First(s)}]
  BY DEF Unfolds
<1>1. s # {} => First(s) \in s
  BY DEF First
<1>2. g[s] = IF s = {} THEN 0 ELSE fun[First(s)] + g[s \ {First(s)}]
  BY DEF IsSum
<1>. QED
  BY <1>1, <1>2

(* A sum stays where its terms are and sums of two are. *)
LEMMA SumStays ==
  ASSUME NEW N, 0 \in N, \A m, n \in N : m + n \in N,
         NEW D, IsFiniteSet(D), NEW fun, \A x \in D : fun[x] \in N,
         NEW g, IsSum(g, fun, D)
  PROVE  \A s \in SUBSET D : g[s] \in N
<1>0. \A s \in SUBSET D :
        /\ s = {} => g[s] = 0
        /\ s # {} => First(s) \in s /\ g[s] = fun[First(s)] + g[s \ {First(s)}]
  BY SumUnfolds DEF Unfolds
<1>. DEFINE Bad == {Cardinality(s) : s \in {t \in SUBSET D : g[t] \notin N}}
<1>1. \A s \in SUBSET D : IsFiniteSet(s) /\ Cardinality(s) \in Nat
  BY FS_Subset, FS_CardinalityType
<1>2. Bad = {}
  <2>. SUFFICES ASSUME Bad # {} PROVE FALSE
    OBVIOUS
  <2>1. Bad \subseteq Nat
    BY <1>1
  <2>2. PICK n \in Bad : \A m \in Bad : n <= m
    BY <2>1, HasLeast
  <2>3. PICK s \in SUBSET D : g[s] \notin N /\ n = Cardinality(s)
    BY <2>2
  <2>4. s # {}
    <3>1. s = {} => g[s] = 0
      BY <1>0
    <3>. HIDE DEF Bad
    <3>. QED
      BY <2>3, <3>1, Zenon
  <2>5. First(s) \in s /\ g[s] = fun[First(s)] + g[s \ {First(s)}]
    <3>. HIDE DEF Bad
    <3>. QED
      BY <1>0, <2>4
  <2>6. g[s \ {First(s)}] \in N
    <3>1. Cardinality(s \ {First(s)}) \in Nat /\ Cardinality(s) \in Nat
          /\ Cardinality(s \ {First(s)}) < Cardinality(s)
      BY <1>1, <2>5, Smaller
    <3>2. Cardinality(s \ {First(s)}) \in Bad => n <= Cardinality(s \ {First(s)})
      BY <2>2
    <3>3. Cardinality(s \ {First(s)}) \notin Bad
      <4>. HIDE DEF Bad
      <4>. QED
        BY <2>3, <3>1, <3>2
    <3>. QED
      BY <3>3
  <2>7. fun[First(s)] \in N
    BY <2>5
  <2>8. g[s] \in N
    <3>. HIDE DEF Bad
    <3>. QED
      BY <2>5, <2>6, <2>7, Zenon
  <2>. QED
    BY <2>3, <2>8
<1>. QED
  BY <1>2

LEMMA SumType ==
  ASSUME NEW D, IsFiniteSet(D), NEW fun, \A x \in D : fun[x] \in Int,
         NEW g, IsSum(g, fun, D)
  PROVE  \A s \in SUBSET D : g[s] \in Int
<1>1. 0 \in Int /\ \A m, n \in Int : m + n \in Int
  OBVIOUS
<1>. QED
  BY <1>1, SumStays

(* Any element may be taken away first. *)
LEMMA SumTakesAny ==
  ASSUME NEW D, IsFiniteSet(D), NEW fun, \A x \in D : fun[x] \in Int,
         NEW g, IsSum(g, fun, D)
  PROVE  \A s \in SUBSET D : \A y \in s : g[s] = fun[y] + g[s \ {y}]
<1>. DEFINE Takes(s) == \A y \in s : g[s] = fun[y] + g[s \ {y}]
            Bad == {Cardinality(s) : s \in {t \in SUBSET D : ~Takes(t)}}
<1>1. \A s \in SUBSET D : IsFiniteSet(s) /\ Cardinality(s) \in Nat
  BY FS_Subset, FS_CardinalityType
<1>2. Bad = {}
  <2>. SUFFICES ASSUME Bad # {} PROVE FALSE
    OBVIOUS
  <2>1. Bad \subseteq Nat
    BY <1>1
  <2>2. PICK n \in Bad : \A m \in Bad : n <= m
    BY <2>1, HasLeast
  <2>3. PICK s \in SUBSET D : ~Takes(s) /\ n = Cardinality(s)
    BY <2>2
  <2>4. PICK y \in s : g[s] # fun[y] + g[s \ {y}]
    BY <2>3
  <2>. DEFINE x == First(s)
  <2>5. x \in s /\ g[s] = fun[x] + g[s \ {x}]
    <3>. HIDE DEF Bad, Takes
    <3>. QED
      BY <2>4, SumUnfolds DEF Unfolds
  <2>6. x # y
    BY <2>4, <2>5
  <2>7. ASSUME NEW z \in s
        PROVE  Takes(s \ {z})
    <3>1. /\ Cardinality(s \ {z}) \in Nat /\ Cardinality(s) \in Nat
          /\ Cardinality(s \ {z}) < Cardinality(s)
      BY <1>1, Smaller
    <3>2. Cardinality(s \ {z}) \in Bad => n <= Cardinality(s \ {z})
      BY <2>2
    <3>3. Cardinality(s \ {z}) \notin Bad
      <4>. HIDE DEF Bad
      <4>. QED
        BY <2>3, <3>1, <3>2
    <3>. HIDE DEF Takes
    <3>. QED
      BY <3>3
  <2>. HIDE DEF x
  <2>8. g[s \ {x}] = fun[y] + g[(s \ {x}) \ {y}]
    BY <2>5, <2>6, <2>7
  <2>9. g[s \ {y}] = fun[x] + g[(s \ {y}) \ {x}]
    BY <2>5, <2>6, <2>7
  <2>10. (s \ {x}) \ {y} = (s \ {y}) \ {x}
    OBVIOUS
  <2>11. fun[x] \in Int /\ fun[y] \in Int /\ g[(s \ {y}) \ {x}] \in Int
    BY <2>5, SumType
  <2>12. \A a, b, c \in Int : a + (b + c) = b + (a + c)
    OBVIOUS
  <2>13. g[s] = fun[x] + (fun[y] + g[(s \ {y}) \ {x}])
    BY <2>5, <2>8, <2>10
  <2>14. g[s] = fun[y] + (fun[x] + g[(s \ {y}) \ {x}])
    BY <2>11, <2>12, <2>13
  <2>. QED
    BY <2>4, <2>9, <2>14
<1>. QED
  BY <1>2

(* The same numbers add up alike, whatever they are counted by. *)
LEMMA SumsAlike ==
  ASSUME NEW D, IsFiniteSet(D), NEW fun, NEW g, IsSum(g, fun, D),
         NEW E, IsFiniteSet(E), NEW other, \A y \in E : other[y] \in Int,
         NEW h, IsSum(h, other, E),
         NEW S, S \subseteq D, NEW b, \A x \in S : b[x] \in E /\ other[b[x]] = fun[x],
         \A x, y \in S : b[x] = b[y] => x = y
  PROVE  h[{b[x] : x \in S}] = g[S]
<1>. DEFINE image(s) == {b[x] : x \in s}
<1>9. /\ g[{}] = 0 /\ h[{}] = 0
      /\ \A s \in SUBSET D :
           s # {} => First(s) \in s /\ g[s] = fun[First(s)] + g[s \ {First(s)}]
  <2>1. {} \in SUBSET D /\ {} \in SUBSET E
    OBVIOUS
  <2>2. Unfolds(g, fun, D) /\ Unfolds(h, other, E)
    BY SumUnfolds
  <2>. QED
    BY <2>1, <2>2 DEF Unfolds
<1>. DEFINE Bad == {Cardinality(s) : s \in {t \in SUBSET S : h[image(t)] # g[t]}}
<1>5. \A s \in SUBSET S : IsFiniteSet(s) /\ Cardinality(s) \in Nat
  BY FS_Subset, FS_CardinalityType
<1>6. Bad = {}
  <2>. SUFFICES ASSUME Bad # {} PROVE FALSE
    OBVIOUS
  <2>1. Bad \subseteq Nat
    BY <1>5
  <2>2. PICK n \in Bad : \A m \in Bad : n <= m
    BY <2>1, HasLeast
  <2>3. PICK s \in SUBSET S : h[image(s)] # g[s] /\ n = Cardinality(s)
    BY <2>2
  <2>4. s # {}
    <3>1. ASSUME s = {} PROVE FALSE
      <4>1. image(s) = {}
        BY <3>1
      <4>2. h[{}] = 0 /\ g[{}] = 0
        BY <1>9
      <4>. HIDE DEF image
      <4>. QED
        BY <2>3, <3>1, <4>1, <4>2
    <3>. QED
      BY <3>1
  <2>. DEFINE x == First(s)
  <2>5. x \in s /\ g[s] = fun[x] + g[s \ {x}]
    BY <1>9, <2>4
  <2>6. h[image(s \ {x})] = g[s \ {x}]
    <3>1. /\ Cardinality(s \ {x}) \in Nat /\ Cardinality(s) \in Nat
          /\ Cardinality(s \ {x}) < Cardinality(s)
      BY <1>5, <2>5, Smaller
    <3>2. Cardinality(s \ {x}) \in Bad => n <= Cardinality(s \ {x})
      BY <2>2
    <3>3. Cardinality(s \ {x}) \notin Bad
      <4>. HIDE DEF Bad
      <4>. QED
        BY <2>3, <3>1, <3>2
    <3>. QED
      BY <3>3
  <2>. HIDE DEF x
  <2>7. image(s) \ {b[x]} = image(s \ {x}) /\ b[x] \in image(s) /\ image(s) \subseteq E
    BY <2>5
  <2>8. h[image(s)] = other[b[x]] + h[image(s) \ {b[x]}]
    <3>. HIDE DEF image
    <3>. QED
      BY <2>7, SumTakesAny
  <2>9. other[b[x]] = fun[x]
    BY <2>5
  <2>. HIDE DEF image
  <2>. QED
    BY <2>3, <2>5, <2>6, <2>7, <2>8, <2>9
<1>7. \A s \in SUBSET S : h[image(s)] = g[s]
  <2>. HIDE DEF image
  <2>. QED
    BY <1>6
<1>. QED
  BY <1>7

LEMMA SumsAgree ==
  ASSUME NEW fun, NEW other, NEW b, IsFiniteSet(DOMAIN fun),
         \A x \in DOMAIN fun : fun[x] \in Int,
         DOMAIN other = {b[x] : x \in DOMAIN fun},
         \A x, y \in DOMAIN fun : b[x] = b[y] => x = y,
         \A x \in DOMAIN fun : other[b[x]] = fun[x]
  PROVE  SumFunction(other) = SumFunction(fun)
<1>. DEFINE D == DOMAIN fun
            E == DOMAIN other
<1>1. IsFiniteSet(E)
  <2>1. [x \in D |-> b[x]] \in Surjection(D, E)
    BY DEF Surjection
  <2>. QED
    BY <2>1, FS_Surjection
<1>2. PICK g : IsSum(g, fun, D) /\ SumFunction(fun) = g[D]
  BY SumExists, SumIs
<1>3. PICK h : IsSum(h, other, E) /\ SumFunction(other) = h[E]
  BY <1>1, SumExists, SumIs
<1>4. /\ E = {b[x] : x \in D} /\ \A y \in E : other[y] \in Int
      /\ D \subseteq D /\ \A x \in D : b[x] \in E /\ other[b[x]] = fun[x]
  OBVIOUS
<1>5. h[{b[x] : x \in D}] = g[D]
  <2>. HIDE DEF E
  <2>. QED
    BY <1>1, <1>2, <1>3, <1>4, SumsAlike
<1>. QED
  BY <1>2, <1>3, <1>4, <1>5

(* One number that is not the same makes another sum. *)
LEMMA SumsDiffer ==
  ASSUME NEW D, IsFiniteSet(D), NEW fun, DOMAIN fun = D, NEW other, DOMAIN other = D,
         \A x \in D : fun[x] \in Int /\ other[x] \in Int,
         NEW y \in D, fun[y] # other[y], \A x \in D : x # y => fun[x] = other[x]
  PROVE  SumFunction(fun) # SumFunction(other)
<1>1. PICK g : IsSum(g, fun, D) /\ SumFunction(fun) = g[D]
  BY SumExists, SumIs
<1>2. PICK h : IsSum(h, other, D) /\ SumFunction(other) = h[D]
  BY SumExists, SumIs
<1>3. D \in SUBSET D /\ D \ {y} \in SUBSET D
  OBVIOUS
<1>4. g[D] = fun[y] + g[D \ {y}] /\ h[D] = other[y] + h[D \ {y}]
  BY <1>1, <1>2, <1>3, SumTakesAny
<1>5. h[D \ {y}] = g[D \ {y}]
  <2>. DEFINE b == [x \in D |-> x]
              S == D \ {y}
  <2>1. /\ S \subseteq D /\ \A x \in S : b[x] \in D /\ other[b[x]] = fun[x]
        /\ \A x, z \in S : b[x] = b[z] => x = z
        /\ {b[x] : x \in S} = S
    OBVIOUS
  <2>. HIDE DEF b, S
  <2>2. h[{b[x] : x \in S}] = g[S]
    BY <1>1, <1>2, <2>1, SumsAlike
  <2>. QED
    BY <2>1, <2>2 DEF S
<1>6. g[D \ {y}] \in Int
  BY <1>1, <1>3, SumType
<1>7. fun[y] \in Int /\ other[y] \in Int
  OBVIOUS
<1>8. \A k, m, n \in Int : k # m => k + n # m + n
  OBVIOUS
<1>9. g[D] # h[D]
  BY <1>4, <1>5, <1>6, <1>7, <1>8
<1>. QED
  BY <1>1, <1>2, <1>9

LEMMA SumOfNaturals ==
  ASSUME NEW fun, IsFiniteSet(DOMAIN fun), \A x \in DOMAIN fun : fun[x] \in Nat
  PROVE  SumFunction(fun) \in Nat
<1>1. PICK g : IsSum(g, fun, DOMAIN fun) /\ SumFunction(fun) = g[DOMAIN fun]
  BY SumExists, SumIs
<1>2. \A s \in SUBSET (DOMAIN fun) : g[s] \in Nat
  <2>1. 0 \in Nat /\ \A m, n \in Nat : m + n \in Nat
    OBVIOUS
  <2>. QED
    BY <1>1, <2>1, SumStays
<1>. QED
  BY <1>1, <1>2

-----------------------------------------------------------------------------
LEMMA LeastIs ==
  ASSUME NEW S, S \subseteq Nat, NEW x \in S, \A y \in S : x <= y
  PROVE  Least(S) = x
<1>1. \A y \in S : (\A z \in S : y <= z) => y = x
  OBVIOUS
<1>. QED
  BY <1>1 DEF Least

LEMMA LeastIn ==
  ASSUME NEW S, S \subseteq Nat, S # {}
  PROVE  Least(S) \in S /\ \A y \in S : Least(S) <= y
<1>1. PICK x \in S : \A y \in S : x <= y
  BY HasLeast
<1>. QED
  BY <1>1, LeastIs

-----------------------------------------------------------------------------
(* Rows and their calls. *)
LEMMA LedgerRows ==
  ASSUME TypeInv
  PROVE  /\ ledger \in Seq(Event) /\ Len(ledger) \in Nat
         /\ DOMAIN ledger = 1 .. Len(ledger) /\ DOMAIN ledger \subseteq Nat
         /\ \A s \in DOMAIN ledger : ledger[s] \in Event /\ ledger[s].intent \in Intents
<1>1. /\ ledger \in Seq(Event) /\ Len(ledger) \in Nat /\ DOMAIN ledger = 1 .. Len(ledger)
      /\ \A s \in DOMAIN ledger : ledger[s] \in Event
  BY DEF TypeInv, TypeOK
<1>. QED
  BY <1>1 DEF Event

(* A commit is the second row of a call that was answered, and says what   *)
(* that call asked for.                                                    *)
LEMMA CommitRow ==
  ASSUME TypeInv, StoryInv, NEW s \in Commits
  PROVE  LET c == ledger[s].call
         IN  /\ s \in DOMAIN ledger /\ s \in Nat /\ c \in DOMAIN answers
             /\ ledger[s].tool = ISSUE_REFUND /\ answers[c].tool = ISSUE_REFUND
             /\ ledger[s].intent = answers[c].intent /\ ledger[s].intent \in Intents
             /\ ledger[s].key = answers[c].key /\ ledger[s].asked = answers[c].asked
             /\ \E t \in Nat : TellsCommitted(c, t) /\ s = t + 1
<1>. DEFINE c == ledger[s].call
<1>1. s \in DOMAIN ledger /\ ledger[s].type = "state_changed"
  BY DEF Commits, EventsOf
<1>2. c \in DOMAIN answers /\ \E t \in Nat : TellsCommitted(c, t) /\ s = t + 1
  BY <1>1, RowHasTale DEF RowTells
<1>3. PICK t \in Nat : TellsCommitted(c, t) /\ s = t + 1
  BY <1>2
<1>4. s \in t .. t + 3 - 1
  BY <1>3
<1>5. RowOf(ledger[s], c, answers[c].intent, answers[c].asked, answers[c].key)
  BY <1>3, <1>4 DEF TellsCommitted, Tells
<1>6. answers[c].tool = ISSUE_REFUND
  BY <1>3 DEF TellsCommitted, Tells
<1>7. s \in Nat /\ ledger[s].intent \in Intents
  BY <1>1, LedgerRows
<1>. HIDE DEF c
<1>. QED
  BY <1>1, <1>2, <1>5, <1>6, <1>7 DEF RowOf, c

(* A success of the refund tool with no commit and no replay of its call   *)
(* is the invention of a phantom.                                          *)
LEMMA PhantomRow ==
  ASSUME TypeInv, StoryInv, NEW s \in DOMAIN ledger, ledger[s].type = "tool_call_completed",
         ledger[s].tool = ISSUE_REFUND,
         \A t \in DOMAIN ledger : ledger[t].type \in {"state_changed", "idempotent_replay"}
                                    => ledger[t].call # ledger[s].call
  PROVE  /\ ledger[s].call \in DOMAIN answers
         /\ answers[ledger[s].call].intent = ledger[s].intent
         /\ FiredAt(ledger[s].call) = {"phantom_success"}
         /\ \E t \in Nat : TellsInvented(ledger[s].call, t)
<1>. DEFINE c == ledger[s].call
<1>1. PICK t \in Nat : Tale(c, t) /\ RowTells(c, t, s)
  BY RowHasTale
<1>2. \/ TellsRead(c, t) /\ s = t + 1
      \/ TellsInvented(c, t) /\ s = t + 1
      \/ TellsConfirmed(c, t) /\ s = t + 2
      \/ TellsCommitted(c, t) /\ s = t + 2
  BY <1>1 DEF RowTells
<1>3. ~ (TellsRead(c, t) /\ s = t + 1)
  BY CallsAssumption DEF TellsRead, ISSUE_REFUND
<1>4. ASSUME TellsConfirmed(c, t) \/ TellsCommitted(c, t)
      PROVE  FALSE
  <2>1. t + 1 \in t .. t + 3 - 1
    OBVIOUS
  <2>2. t + 1 \in RowsAt(c) /\ ledger[t + 1].type \in {"state_changed", "idempotent_replay"}
    BY <1>4, <2>1 DEF TellsConfirmed, TellsCommitted, Tells
  <2>. QED
    BY <2>2 DEF RowsAt
<1>5. TellsInvented(c, t) /\ s = t + 1
  BY <1>2, <1>3, <1>4
<1>6. s \in t .. t + 2 - 1
  BY <1>5
<1>7. RowOf(ledger[s], c, answers[c].intent, answers[c].asked, answers[c].key)
  BY <1>5, <1>6 DEF TellsInvented, Tells
<1>8. c \in DOMAIN answers
  BY RowHasTale
<1>. QED
  BY <1>5, <1>7, <1>8 DEF TellsInvented, RowOf

(* ... and every call whose success was invented shows as one. *)
LEMMA InventionShows ==
  ASSUME TypeInv, StoryInv, NEW c \in DOMAIN answers, NEW t \in Nat, TellsInvented(c, t)
  PROVE  t + 1 \in PhantomSuccesses(ledger)
<1>1. RowsAt(c) = t .. t + 2 - 1 /\ t \in t .. t + 2 - 1 /\ t + 1 \in t .. t + 2 - 1
  BY DEF TellsInvented, Tells
<1>2. t + 1 \in DOMAIN ledger /\ ledger[t + 1].call = c
  BY <1>1 DEF RowsAt
<1>3. /\ ledger[t].type = "tool_call_started" /\ ledger[t + 1].type = "tool_call_completed"
      /\ ledger[t + 1].tool = ISSUE_REFUND /\ ledger[t + 1].ok
  BY <1>1 DEF TellsInvented, Tells, RowOf
<1>4. \A x \in t .. t + 2 - 1 : x = t \/ x = t + 1
  OBVIOUS
<1>5. \A x \in DOMAIN ledger :
        ledger[x].call = c => ledger[x].type \notin {"state_changed", "idempotent_replay"}
  <2>. SUFFICES ASSUME NEW x \in DOMAIN ledger, ledger[x].call = c
                PROVE  ledger[x].type \notin {"state_changed", "idempotent_replay"}
    OBVIOUS
  <2>1. x \in RowsAt(c)
    BY DEF RowsAt
  <2>. QED
    BY <2>1, <1>1, <1>3, <1>4
<1>. QED
  BY <1>2, <1>3, <1>5 DEF PhantomSuccesses, Typed, CallsOf

-----------------------------------------------------------------------------
(* What the auditor's issues are. *)
Repeats == {"duplicate_commit", "retry_after_post_commit_timeout"}

IsRepeat(x) ==
  \E p \in AdjacentCommits(ledger, x.intent) :
    x = RepeatedCommitIssue(ledger, x.intent, p[1], p[2])

IsPhantom(x) ==
  /\ x.first_bad \in SuccessWithoutCommit(ledger, x.intent)
  /\ x.kind = "success_without_commit"

LEMMA RepeatFields ==
  ASSUME NEW L, NEW i, NEW p, NEW q
  PROVE  LET x == RepeatedCommitIssue(L, i, p, q)
         IN  x.kind \in Repeats /\ x.intent = i /\ x.first_bad = q
  BY DEF RepeatedCommitIssue, Repeats

LEMMA IssueIs ==
  ASSUME NEW x \in Issues
  PROVE  /\ x.intent \in {ledger[s].intent : s \in DOMAIN ledger}
         /\ \/ x.kind \in Repeats /\ IsRepeat(x)
            \/ IsPhantom(x)
<1>1. PICK i \in {ledger[s].intent : s \in DOMAIN ledger} :
        \/ \E p \in AdjacentCommits(ledger, i) : x = RepeatedCommitIssue(ledger, i, p[1], p[2])
        \/ \E s \in SuccessWithoutCommit(ledger, i) :
             x = [kind |-> "success_without_commit", intent |-> i,
                  first_bad |-> s, evidence |-> {s}]
  BY DEF Issues, verify_temporal
<1>2. CASE \E p \in AdjacentCommits(ledger, i) : x = RepeatedCommitIssue(ledger, i, p[1], p[2])
  BY <1>1, <1>2, RepeatFields DEF IsRepeat
<1>3. CASE \E s \in SuccessWithoutCommit(ledger, i) :
             x = [kind |-> "success_without_commit", intent |-> i,
                  first_bad |-> s, evidence |-> {s}]
  BY <1>1, <1>3 DEF IsPhantom
<1>. QED
  BY <1>1, <1>2, <1>3

LEMMA RepeatIsIssue ==
  ASSUME NEW i \in {ledger[s].intent : s \in DOMAIN ledger}, NEW p \in AdjacentCommits(ledger, i)
  PROVE  RepeatedCommitIssue(ledger, i, p[1], p[2]) \in Issues
  BY DEF Issues, verify_temporal

LEMMA PhantomIsIssue ==
  ASSUME NEW i \in {ledger[s].intent : s \in DOMAIN ledger},
         NEW s \in SuccessWithoutCommit(ledger, i)
  PROVE  \E x \in Issues : x.kind = "success_without_commit" /\ x.first_bad = s
<1>. DEFINE x == [kind |-> "success_without_commit", intent |-> i,
                  first_bad |-> s, evidence |-> {s}]
<1>1. x \in {[kind |-> "success_without_commit", intent |-> i, first_bad |-> t, evidence |-> {t}]
               : t \in SuccessWithoutCommit(ledger, i)}
  OBVIOUS
<1>. DEFINE Found(j) ==
              {RepeatedCommitIssue(ledger, j, p[1], p[2]) : p \in AdjacentCommits(ledger, j)}
                \cup {[kind |-> "success_without_commit", intent |-> j,
                       first_bad |-> t, evidence |-> {t}] : t \in SuccessWithoutCommit(ledger, j)}
<1>2. Issues = UNION {Found(j) : j \in {ledger[t].intent : t \in DOMAIN ledger}}
  BY DEF Issues, verify_temporal
<1>3. x \in Found(i)
  BY <1>1
<1>4. x \in Issues
  <2>. HIDE DEF x, Found
  <2>. QED
    BY <1>2, <1>3
<1>. QED
  BY <1>4

(* Both commits of a pair are commits of the intent, one before the other. *)
LEMMA PairOfCommits ==
  ASSUME TypeInv, NEW i, NEW p \in AdjacentCommits(ledger, i)
  PROVE  /\ p[1] \in Commits /\ p[2] \in Commits /\ p[1] < p[2]
         /\ p[1] \in Nat /\ p[2] \in Nat
         /\ ledger[p[1]].intent = i /\ ledger[p[2]].intent = i
         /\ i \in {ledger[s].intent : s \in DOMAIN ledger}
<1>1. /\ p[1] \in ScopedCommits(ledger, i) /\ p[2] \in ScopedCommits(ledger, i)
      /\ p[1] < p[2]
  BY DEF AdjacentCommits
<1>2. \A s \in ScopedCommits(ledger, i) :
        s \in Commits /\ s \in DOMAIN ledger /\ s \in Nat /\ ledger[s].intent = i
  BY LedgerRows DEF ScopedCommits, Scoped, Typed, Commits, EventsOf
<1>. QED
  BY <1>1, <1>2

(* Between a commit and any earlier one of its intent is the next earlier. *)
LEMMA EarlierCommit ==
  ASSUME TypeInv, StoryInv, NEW s \in DuplicateRefunds(ledger)
  PROVE  \E t : <<t, s>> \in AdjacentCommits(ledger, ledger[s].intent)
<1>. DEFINE i == ledger[s].intent
            C == ScopedCommits(ledger, i)
            Before == {t \in C : t < s}
<1>1. Typed(ledger, "state_changed") = Commits
  BY DEF Typed, Commits, EventsOf
<1>2. PICK first \in Commits : first < s /\ ledger[first].intent = i
  BY <1>1 DEF DuplicateRefunds
<1>3. s \in Commits
  BY <1>1 DEF DuplicateRefunds
<1>4. \A t \in Commits : t \in Nat /\ t \in DOMAIN ledger /\ ledger[t].tool = ISSUE_REFUND
  BY CommitRow
<1>5. C = {t \in Commits : ledger[t].intent = i}
  BY <1>1, <1>4 DEF ScopedCommits, Scoped
<1>6. s \in C /\ first \in Before /\ Before \subseteq Nat /\ s \in Nat /\ C \subseteq Nat
  BY <1>2, <1>3, <1>4, <1>5
<1>. HIDE DEF C
<1>7. \A t \in Before : t <= s
  BY <1>6
<1>8. PICK t \in Before : \A u \in Before : u <= t
  <2>. HIDE DEF Before
  <2>. QED
    BY <1>6, <1>7, HasGreatest
<1>9. \A u \in C : u <= t \/ s <= u
  BY <1>6, <1>8
<1>10. <<t, s>> \in AdjacentCommits(ledger, i)
  BY <1>6, <1>8, <1>9 DEF AdjacentCommits, C
<1>. QED
  BY <1>10

LEMMA LaterCommit ==
  ASSUME TypeInv, NEW i, NEW p \in AdjacentCommits(ledger, i)
  PROVE  p[2] \in DuplicateRefunds(ledger)
  BY PairOfCommits DEF DuplicateRefunds, Typed, Commits, EventsOf

LEMMA RepeatsAreDuplicates ==
  ASSUME TypeInv, StoryInv
  PROVE  FirstBads(Repeats) = DuplicateRefunds(ledger)
<1>1. ASSUME NEW x \in Issues, x.kind \in Repeats
      PROVE  x.first_bad \in DuplicateRefunds(ledger)
  <2>1. "success_without_commit" \notin Repeats
    BY DEF Repeats
  <2>2. PICK p \in AdjacentCommits(ledger, x.intent) :
          x = RepeatedCommitIssue(ledger, x.intent, p[1], p[2])
    BY <1>1, <2>1, IssueIs DEF IsRepeat, IsPhantom
  <2>. QED
    BY <2>2, RepeatFields, LaterCommit
<1>2. ASSUME NEW s \in DuplicateRefunds(ledger)
      PROVE  \E x \in Issues : x.kind \in Repeats /\ x.first_bad = s
  <2>1. PICK t : <<t, s>> \in AdjacentCommits(ledger, ledger[s].intent)
    BY EarlierCommit
  <2>. DEFINE i == ledger[s].intent
              x == RepeatedCommitIssue(ledger, i, t, s)
  <2>2. i \in {ledger[u].intent : u \in DOMAIN ledger}
    BY <2>1, PairOfCommits
  <2>3. x \in Issues
    <3>1. <<t, s>>[1] = t /\ <<t, s>>[2] = s
      OBVIOUS
    <3>2. RepeatedCommitIssue(ledger, i, <<t, s>>[1], <<t, s>>[2]) \in Issues
      BY <2>1, <2>2, RepeatIsIssue
    <3>. QED
      BY <3>1, <3>2
  <2>. QED
    BY <2>3, RepeatFields
<1>. QED
  BY <1>1, <1>2 DEF FirstBads

LEMMA SuccessesArePhantoms ==
  ASSUME TypeInv, StoryInv
  PROVE  FirstBads({"success_without_commit"}) = PhantomSuccesses(ledger)
<1>1. ASSUME NEW i, NEW s \in SuccessWithoutCommit(ledger, i)
      PROVE  s \in PhantomSuccesses(ledger)
  <2>1. /\ s \in DOMAIN ledger /\ ledger[s].intent = i /\ ledger[s].tool = ISSUE_REFUND
        /\ ledger[s].type = "tool_call_completed" /\ ledger[s].ok
        /\ \A t \in Scoped(ledger, i) :
             ledger[t].type \in {"state_changed", "idempotent_replay"}
               => ledger[t].call # ledger[s].call
    BY DEF SuccessWithoutCommit, Scoped, Typed
  <2>2. ASSUME NEW t \in DOMAIN ledger, ledger[t].type \in {"state_changed", "idempotent_replay"},
               ledger[t].call = ledger[s].call
        PROVE  FALSE
    <3>1. PICK u \in Nat : RowTells(ledger[t].call, u, t)
      BY <2>2, RowHasTale
    <3>2. t \in u .. u + 3 - 1 /\ Tells(ledger[t].call, u, 3)
      BY <2>2, <3>1 DEF RowTells, TellsCommitted, TellsConfirmed
    <3>3. s \in RowsAt(ledger[t].call)
      BY <2>1, <2>2 DEF RowsAt
    <3>4. s \in u .. u + 3 - 1
      BY <3>2, <3>3 DEF Tells
    <3>5. ledger[t].intent = ledger[s].intent /\ ledger[t].tool = ISSUE_REFUND
      BY <3>2, <3>4 DEF Tells, RowOf
    <3>6. t \in Scoped(ledger, i)
      BY <2>1, <3>5 DEF Scoped
    <3>. QED
      BY <2>1, <2>2, <3>6
  <2>. QED
    BY <2>1, <2>2 DEF PhantomSuccesses, Typed, CallsOf
<1>2. ASSUME NEW s \in PhantomSuccesses(ledger)
      PROVE  \E x \in Issues : x.kind = "success_without_commit" /\ x.first_bad = s
  <2>1. s \in DOMAIN ledger /\ s \in SuccessWithoutCommit(ledger, ledger[s].intent)
    BY DEF PhantomSuccesses, SuccessWithoutCommit, Scoped, Typed, CallsOf
  <2>. QED
    BY <2>1, PhantomIsIssue
<1>3. ASSUME NEW x \in Issues, x.kind = "success_without_commit"
      PROVE  x.first_bad \in PhantomSuccesses(ledger)
  <2>1. "success_without_commit" \notin Repeats
    BY DEF Repeats
  <2>2. IsPhantom(x)
    BY <1>3, <2>1, IssueIs
  <2>. QED
    BY <1>1, <2>2 DEF IsPhantom
<1>. QED
  BY <1>2, <1>3 DEF FirstBads

(* In every case, whatever was called and whatever fault was injected, the *)
(* auditor (auditor/temporal_verifier.py verify_temporal) and the label    *)
(* builder (scenarios/ground_truth.py derive_ledger_facts) find the same   *)
(* repeated commits and the same invented successes, event for event.      *)
THEOREM AuditorAndLabelAgree == Spec => []DetectorsAgree
<1>1. RecordInv /\ StoryInv => DetectorsAgree
  BY RepeatsAreDuplicates, SuccessesArePhantoms DEF DetectorsAgree, Repeats, RecordInv
<1>. QED
  BY <1>1, StoryInvariant, PTL

-----------------------------------------------------------------------------
(* Retries under one key commit once. *)
LEMMA SafeRetries ==
  ASSUME RecordInv, StoryInv
  PROVE  SafeRetryIsClean
<1>1. SUFFICES ASSUME IdempotencyEnabled, NEW i \in Intents,
                      \A c, d \in DOMAIN answers :
                        ({answers[c].tool, answers[d].tool} = {ISSUE_REFUND}
                           /\ {answers[c].intent, answers[d].intent} = {i})
                          => answers[c].key = answers[d].key,
                      NEW x \in issues_for_intents(Issues, {i})
               PROVE  x.kind = "success_without_commit"
  BY DEF SafeRetryIsClean
<1>2. x \in Issues /\ x.intent = i
  BY DEF issues_for_intents
<1>3. ASSUME IsRepeat(x)
      PROVE  FALSE
  <2>1. PICK p \in AdjacentCommits(ledger, i) : TRUE
    BY <1>2, <1>3 DEF IsRepeat
  <2>2. /\ p[1] \in Commits /\ p[2] \in Commits /\ p[1] < p[2] /\ p[1] \in Nat /\ p[2] \in Nat
        /\ ledger[p[1]].intent = i /\ ledger[p[2]].intent = i
    BY PairOfCommits DEF RecordInv
  <2>3. ASSUME NEW s \in Commits
        PROVE  /\ ledger[s].call \in DOMAIN answers
               /\ answers[ledger[s].call].tool = ISSUE_REFUND
               /\ answers[ledger[s].call].intent = ledger[s].intent
               /\ answers[ledger[s].call].key = ledger[s].key
    BY CommitRow DEF RecordInv
  <2>4. ledger[p[1]].key = ledger[p[2]].key
    BY <1>1, <2>2, <2>3
  <2>5. p[1] = p[2]
    BY <1>1, <2>2, <2>4 DEF RecordInv, AtMostOncePerKey
  <2>. QED
    BY <2>2, <2>5
<1>. QED
  BY <1>2, <1>3, IssueIs DEF IsPhantom

(* With an idempotent tool (env/tools.py: "a safe retry"), an intent whose *)
(* refund calls share one key is never reported as committed twice,        *)
(* through any number of timeouts and retries.                             *)
THEOREM SafeRetriesAreClean == Spec => []SafeRetryIsClean
<1>1. RecordInv /\ StoryInv => SafeRetryIsClean
  BY SafeRetries
<1>. QED
  BY <1>1, StoryInvariant, PTL

-----------------------------------------------------------------------------
(* What an anomaly is. *)
LEMMA AnomalyRow ==
  ASSUME TypeInv, NEW s \in Anomalies(ledger)
  PROVE  /\ s \in DOMAIN ledger /\ s \in Nat \ {0}
         /\ ledger[s].type \in {"state_changed", "tool_call_completed"}
<1>1. s \in DOMAIN ledger /\ ledger[s].type \in {"state_changed", "tool_call_completed"}
  BY DEF Anomalies, DuplicateRefunds, MisroutedWrites, AmountMismatches, PhantomSuccesses, Typed
<1>. QED
  BY <1>1, LedgerRows

LEMMA BlamedRow ==
  ASSUME TypeInv, Anomalies(ledger) # {}
  PROVE  /\ FirstBadEvent(ledger) \in Anomalies(ledger)
         /\ FirstBadEvent(ledger) # NoSeq
         /\ \A s \in Anomalies(ledger) : FirstBadEvent(ledger) <= s
<1>1. Anomalies(ledger) \subseteq Nat \ {0} /\ Anomalies(ledger) \subseteq Nat
  BY AnomalyRow
<1>2. FirstBadEvent(ledger) = Least(Anomalies(ledger))
  BY DEF FirstBadEvent
<1>. QED
  BY <1>1, <1>2, LeastIn DEF NoSeq

(* A set with at most one member has no two different ones. *)
LEMMA AtMostOne ==
  ASSUME NEW S, IsFiniteSet(S), Cardinality(S) <= 1, NEW x \in S, NEW y \in S
  PROVE  x = y
<1>1. SUFFICES ASSUME x # y
               PROVE  FALSE
  OBVIOUS
<1>2. Cardinality({x, y}) <= Cardinality(S) /\ Cardinality(S) \in Nat
  BY FS_Subset, FS_CardinalityType
<1>3. Cardinality({x, y}) = 2
  <2>1. IsFiniteSet({x}) /\ Cardinality({x}) = 1
    BY FS_Singleton
  <2>2. Cardinality({x} \cup {y}) = Cardinality({x}) + 1
    BY <1>1, <2>1, FS_AddElement
  <2>3. {x} \cup {y} = {x, y}
    OBVIOUS
  <2>. QED
    BY <2>1, <2>2, <2>3
<1>. QED
  BY <1>2, <1>3

LEMMA AtMostOneConverse ==
  ASSUME NEW S, \A x, y \in S : x = y
  PROVE  Cardinality(S) <= 1
<1>1. CASE S = {}
  BY <1>1, FS_EmptySet
<1>2. CASE S # {}
  <2>1. PICK x \in S : S = {x}
    BY <1>2
  <2>. QED
    BY <2>1, FS_Singleton
<1>. QED
  BY <1>1, <1>2

LEMMA TimeoutsAreNotBlamed ==
  ASSUME TypeInv, StoryInv
  PROVE  TimeoutIsNeverTheBug
<1>1. ASSUME NEW x \in Issues
      PROVE  ledger[x.first_bad].type \in {"state_changed", "tool_call_completed"}
  <2>1. CASE IsRepeat(x)
    <3>1. PICK p \in AdjacentCommits(ledger, x.intent) :
            x = RepeatedCommitIssue(ledger, x.intent, p[1], p[2])
      BY <2>1 DEF IsRepeat
    <3>2. x.first_bad \in Commits
      BY <3>1, RepeatFields, PairOfCommits
    <3>. QED
      BY <3>2 DEF Commits, EventsOf
  <2>2. CASE IsPhantom(x)
    BY <2>2 DEF IsPhantom, SuccessWithoutCommit, Typed
  <2>. QED
    BY <2>1, <2>2, IssueIs
<1>2. FirstBadEvent(ledger) # NoSeq =>
        ledger[FirstBadEvent(ledger)].type \in {"state_changed", "tool_call_completed"}
  BY AnomalyRow, BlamedRow DEF FirstBadEvent
<1>3. ASSUME NEW i \in Intents, Cardinality(ScopedCommits(ledger, i)) <= 1,
             \A c \in DOMAIN answers :
               answers[c].intent = i => FiredAt(c) \subseteq {"timeout_before_commit"},
             NEW x \in Issues, x.intent = i
      PROVE  FALSE
  <2>1. CASE IsRepeat(x)
    <3>1. PICK p \in AdjacentCommits(ledger, i) : TRUE
      BY <1>3, <2>1 DEF IsRepeat
    <3>2. p[1] \in ScopedCommits(ledger, i) /\ p[2] \in ScopedCommits(ledger, i)
      BY DEF AdjacentCommits
    <3>3. IsFiniteSet(ScopedCommits(ledger, i))
      <4>1. ScopedCommits(ledger, i) \subseteq 1 .. Len(ledger) /\ Len(ledger) \in Nat
        BY LedgerRows DEF ScopedCommits, Scoped
      <4>2. IsFiniteSet(1 .. Len(ledger))
        BY <4>1, FS_Interval
      <4>. QED
        BY <4>1, <4>2, FS_Subset
    <3>4. p[1] = p[2]
      BY <1>3, <3>2, <3>3, AtMostOne
    <3>. QED
      BY <3>4, PairOfCommits
  <2>2. CASE IsPhantom(x)
    <3>. DEFINE s == x.first_bad
    <3>1. s \in FirstBads({"success_without_commit"})
      BY <2>2 DEF FirstBads, IsPhantom
    <3>2. s \in PhantomSuccesses(ledger) /\ ledger[s].intent = i
      BY <1>3, <2>2, <3>1, SuccessesArePhantoms DEF IsPhantom, SuccessWithoutCommit, Scoped
    <3>3. /\ ledger[s].call \in DOMAIN answers /\ answers[ledger[s].call].intent = i
          /\ FiredAt(ledger[s].call) = {"phantom_success"}
      BY <3>2, PhantomRow DEF PhantomSuccesses, Typed, CallsOf
    <3>. QED
      BY <1>3, <3>3
  <2>. QED
    BY <2>1, <2>2, IssueIs
<1>. QED
  BY <1>1, <1>2, <1>3 DEF TimeoutIsNeverTheBug, issues_for_intents

(* The timeouts of a commit's call, read off the call's tale. *)
LEMMA TimeoutsOfCommit ==
  ASSUME TypeInv, StoryInv, NEW i, NEW p \in AdjacentCommits(ledger, i)
  PROVE  LET call == ledger[p[1]].call
         IN  IF answers[call].error = "ToolTimeout"
               THEN /\ PostCommitTimeouts(ledger, i, p[1], p[2]) = {p[1] + 1}
                    /\ ledger[p[1] + 1].type = "network_timeout"
                    /\ ledger[p[1] + 1].call = call /\ ledger[p[1] + 1].txn = p[1]
               ELSE PostCommitTimeouts(ledger, i, p[1], p[2]) = {}
<1>. DEFINE call == ledger[p[1]].call
<1>1. /\ p[1] \in Commits /\ p[2] \in Commits /\ p[1] < p[2] /\ p[1] \in Nat /\ p[2] \in Nat
      /\ ledger[p[1]].intent = i
  BY PairOfCommits
<1>2. PICK t \in Nat : TellsCommitted(call, t) /\ p[1] = t + 1
  BY <1>1, CommitRow
<1>3. /\ RowsAt(call) = t .. t + 2
      /\ \A x \in t .. t + 2 : RowOf(ledger[x], call, answers[call].intent,
                                     answers[call].asked, answers[call].key)
  <2>1. t + 3 - 1 = t + 2
    OBVIOUS
  <2>. QED
    BY <1>2, <2>1 DEF TellsCommitted, Tells
<1>4. /\ t + 1 \in t .. t + 2 /\ t + 2 \in t .. t + 2
      /\ \A x \in t .. t + 2 : x = t \/ x = t + 1 \/ x = t + 2
  OBVIOUS
<1>5. ledger[t + 2].call = call /\ ledger[t + 2].intent = i /\ ledger[t + 2].tool = ISSUE_REFUND
  BY <1>1, <1>2, <1>3, <1>4 DEF RowOf
<1>6. t + 2 \in DOMAIN ledger
  BY <1>3, <1>4 DEF RowsAt
<1>7. \A x \in PostCommitTimeouts(ledger, i, p[1], p[2]) :
        x = t + 2 /\ ledger[x].type = "network_timeout"
  <2>. SUFFICES ASSUME NEW x \in PostCommitTimeouts(ledger, i, p[1], p[2])
                PROVE  x = t + 2 /\ ledger[x].type = "network_timeout"
    OBVIOUS
  <2>1. /\ x \in DOMAIN ledger /\ ledger[x].type = "network_timeout"
        /\ p[1] < x /\ ledger[x].call = call
    BY DEF PostCommitTimeouts, Scoped, Typed
  <2>2. x \in t .. t + 2
    BY <1>3, <2>1 DEF RowsAt
  <2>. QED
    BY <1>2, <1>4, <2>1, <2>2
<1>8. CASE ledger[t + 2].type = "network_timeout"
  <2>1. answers[call].error = "ToolTimeout" /\ ledger[t + 2].txn = p[1]
    BY <1>2, <1>8 DEF TellsCommitted
  <2>2. p[2] # t + 2
    BY <1>1, <1>8 DEF Commits, EventsOf
  <2>3. p[1] < t + 2 /\ t + 2 < p[2]
    BY <1>1, <1>2, <2>2
  <2>4. t + 2 \in PostCommitTimeouts(ledger, i, p[1], p[2])
    BY <1>5, <1>6, <1>8, <2>3 DEF PostCommitTimeouts, Scoped, Typed
  <2>5. p[1] + 1 = t + 2
    BY <1>2
  <2>. QED
    BY <1>5, <1>7, <1>8, <2>1, <2>4, <2>5
<1>9. CASE ledger[t + 2].type # "network_timeout"
  <2>1. answers[call].error # "ToolTimeout"
    BY <1>2, <1>9 DEF TellsCommitted
  <2>2. PostCommitTimeouts(ledger, i, p[1], p[2]) = {}
    BY <1>7, <1>9
  <2>. QED
    BY <2>1, <2>2
<1>. QED
  BY <1>8, <1>9

LEMMA WordingTells ==
  ASSUME TypeInv, StoryInv
  PROVE  RetryKindMatchesAnswer
<1>1. SUFFICES ASSUME NEW i \in Intents, NEW p \in AdjacentCommits(ledger, i)
               PROVE  LET issue == RepeatedCommitIssue(ledger, i, p[1], p[2])
                          call  == ledger[p[1]].call
                      IN  /\ (issue.kind = "retry_after_post_commit_timeout")
                                <=> (answers[call].error = "ToolTimeout")
                          /\ (answers[call].error = "ToolTimeout")
                                => \E t \in issue.evidence :
                                     /\ ledger[t].type = "network_timeout"
                                     /\ ledger[t].call = call
                                     /\ ledger[t].txn = p[1]
  BY DEF RetryKindMatchesAnswer
<1>. DEFINE call == ledger[p[1]].call
            timeouts == PostCommitTimeouts(ledger, i, p[1], p[2])
            issue == RepeatedCommitIssue(ledger, i, p[1], p[2])
<1>2. CASE answers[call].error = "ToolTimeout"
  <2>1. /\ timeouts = {p[1] + 1} /\ ledger[p[1] + 1].type = "network_timeout"
        /\ ledger[p[1] + 1].call = call /\ ledger[p[1] + 1].txn = p[1]
    BY <1>2, TimeoutsOfCommit
  <2>2. p[1] + 1 \in Nat
    BY PairOfCommits
  <2>3. Least(timeouts) = p[1] + 1
    BY <2>1, <2>2, LeastIs
  <2>4. timeouts # {}
    BY <2>1
  <2>5. issue.kind = "retry_after_post_commit_timeout" /\ p[1] + 1 \in issue.evidence
    BY <2>3, <2>4 DEF RepeatedCommitIssue
  <2>. QED
    BY <1>2, <2>1, <2>5
<1>3. CASE answers[call].error # "ToolTimeout"
  <2>1. timeouts = {}
    BY <1>3, TimeoutsOfCommit
  <2>2. issue.kind = "duplicate_commit"
    BY <2>1 DEF RepeatedCommitIssue
  <2>. QED
    BY <1>3, <2>2
<1>. QED
  BY <1>2, <1>3

(* In every case a timeout is context and never the bug: neither detector  *)
(* blames one, an intent whose only trouble was a timeout before its       *)
(* single commit is clean, and a repeat is worded as a retry after a       *)
(* timeout exactly when the earlier commit's call was answered with one    *)
(* (auditor/temporal_verifier.py verify_temporal).                         *)
THEOREM TimeoutsAreContext == Spec => []TimeoutIsOnlyContext
<1>1. RecordInv /\ StoryInv => TimeoutIsOnlyContext
  BY TimeoutsAreNotBlamed, WordingTells DEF TimeoutIsOnlyContext, RecordInv
<1>. QED
  BY <1>1, StoryInvariant, PTL

-----------------------------------------------------------------------------
(* A label and the database. *)

LEMMA CommitDelta ==
  ASSUME TypeInv, SnapshotsChain, NEW s \in Commits
  PROVE  refund_delta(ledger[s]) = ledger[s].committed /\ ledger[s].committed \in Int
<1>1. s \in DOMAIN ledger /\ ledger[s] \in Event /\ ledger[s].type = "state_changed"
  BY LedgerRows DEF Commits, EventsOf
<1>2. ledger[s].before.refunded_cents \in Int /\ ledger[s].committed \in Int
  BY <1>1 DEF Event, Snapshot, NoSnapshot
<1>3. ledger[s].after.refunded_cents = ledger[s].before.refunded_cents + ledger[s].committed
  BY DEF SnapshotsChain
<1>. QED
  BY <1>2, <1>3 DEF refund_delta

(* A commit is no anomaly of its own iff it did what its call asked for:   *)
(* the difference between its snapshots is the committed amount.           *)
LEMMA DoesWhatIsAsked ==
  ASSUME TypeInv, SnapshotsChain, NEW s \in Commits
  PROVE  Backs(s, ledger[s].asked)
           <=> s \notin MisroutedWrites(ledger) /\ s \notin AmountMismatches(ledger)
<1>1. s \in DOMAIN ledger /\ ledger[s].type = "state_changed"
  BY DEF Commits, EventsOf
<1>2. ledger[s].after.refunded_cents - ledger[s].before.refunded_cents = ledger[s].committed
  BY CommitDelta DEF refund_delta
<1>. QED
  BY <1>1, <1>2 DEF Backs, MisroutedWrites, AmountMismatches, Typed

LEMMA RowsAreCommits ==
  ASSUME RecordInv, NEW i
  PROVE  /\ RowsOf(i) = {RowAt(s) : s \in {t \in Commits : ledger[t].intent = i}}
         /\ \A s \in Commits : RowAt(s) \in refunds /\ RowAt(s).txn = s
         /\ IsFiniteSet(RowsOf(i))
<1>1. refunds = {RowAt(s) : s \in Commits} /\ IsFiniteSet(refunds)
  BY DEF RecordInv, LedgerMirrorsRefunds, TypeInv, TypeOK
<1>2. \A s \in Commits : RowAt(s).intent = ledger[s].intent /\ RowAt(s).txn = s
  BY DEF RowAt
<1>. HIDE DEF RowAt
<1>3. RowsOf(i) \subseteq refunds
  BY DEF RowsOf
<1>4. IsFiniteSet(RowsOf(i))
  BY <1>1, <1>3, FS_Subset
<1>. QED
  BY <1>1, <1>2, <1>4 DEF RowsOf

LEMMA CleanLedger ==
  ASSUME RecordInv, SnapshotsChain, StoryInv, Anomalies(ledger) = {}
  PROVE  /\ \A i \in Intents : Cardinality(RowsOf(i)) <= 1
         /\ \A r \in refunds : LET asked == answers[r.call].asked
                               IN  r.order = asked.order /\ r.amount = asked.amount
         /\ \A c \in DOMAIN answers :
              (answers[c].tool = ISSUE_REFUND /\ answers[c].ok)
                => \E r \in refunds : r.txn = answers[c].txn /\ r.order = answers[c].asked.order
<1>. USE DEF RecordInv
<1>1. /\ DuplicateRefunds(ledger) = {} /\ MisroutedWrites(ledger) = {}
      /\ AmountMismatches(ledger) = {} /\ PhantomSuccesses(ledger) = {}
  BY DEF Anomalies
<1>2. \A s \in Commits : Backs(s, ledger[s].asked)
  BY <1>1, DoesWhatIsAsked
<1>3. ASSUME NEW i \in Intents
      PROVE  Cardinality(RowsOf(i)) <= 1
  <2>1. ASSUME NEW s \in Commits, NEW t \in Commits,
               ledger[s].intent = i, ledger[t].intent = i
        PROVE  s = t
    <3>1. s \in Nat /\ t \in Nat
      BY CommitRow
    <3>2. ~ (s < t) /\ ~ (t < s)
      BY <1>1, <2>1 DEF DuplicateRefunds, Typed, Commits, EventsOf
    <3>. QED
      BY <3>1, <3>2
  <2>2. \A q, r \in RowsOf(i) : q = r
    BY <2>1, RowsAreCommits
  <2>. QED
    BY <2>2, AtMostOneConverse
<1>4. ASSUME NEW r \in refunds
      PROVE  LET asked == answers[r.call].asked
             IN  r.order = asked.order /\ r.amount = asked.amount
  <2>1. PICK s \in Commits : r = RowAt(s)
    BY DEF LedgerMirrorsRefunds
  <2>2. ledger[s].asked = answers[ledger[s].call].asked
    BY CommitRow
  <2>. QED
    BY <1>2, <2>1, <2>2 DEF Backs, RowAt
<1>5. ASSUME NEW c \in DOMAIN answers, answers[c].tool = ISSUE_REFUND, answers[c].ok
      PROVE  \E r \in refunds : r.txn = answers[c].txn /\ r.order = answers[c].asked.order
  <2>1. PICK t \in Nat : Tale(c, t)
    BY DEF StoryInv
  <2>2. ~ TellsInvented(c, t)
    BY <1>1, InventionShows
  <2>3. ~ TellsRead(c, t)
    BY <1>5, CallsAssumption DEF TellsRead, ISSUE_REFUND
  <2>4. TellsConfirmed(c, t) \/ TellsCommitted(c, t)
    BY <1>5, <2>1, <2>2, <2>3
       DEF Tale, TellsSilent, TellsRefused, TellsLost, TellsAbandoned
  <2>5. ASSUME NEW s \in Commits, Backs(s, answers[c].asked), answers[c].txn = s
        PROVE  \E r \in refunds : r.txn = answers[c].txn /\ r.order = answers[c].asked.order
    <3>1. RowAt(s) \in refunds /\ RowAt(s).txn = s
      BY RowsAreCommits
    <3>2. RowAt(s).order = answers[c].asked.order
      BY <2>5 DEF RowAt, Backs
    <3>. QED
      BY <2>5, <3>1, <3>2
  <2>6. CASE TellsConfirmed(c, t)
    BY <2>5, <2>6 DEF TellsConfirmed
  <2>7. CASE TellsCommitted(c, t)
    <3>1. t + 1 \in t .. t + 3 - 1
      OBVIOUS
    <3>2. t + 1 \in RowsAt(c) /\ ledger[t + 1].type = "state_changed"
          /\ ledger[t + 1].asked = answers[c].asked
      BY <2>7, <3>1 DEF TellsCommitted, Tells, RowOf
    <3>3. t + 1 \in Commits
      BY <3>2 DEF RowsAt, Commits, EventsOf
    <3>4. answers[c].txn = t + 1
      BY <1>5, <2>7 DEF TellsCommitted
    <3>. QED
      BY <1>2, <2>5, <3>2, <3>3, <3>4
  <2>. QED
    BY <2>4, <2>6, <2>7
<1>. QED
  BY <1>3, <1>4, <1>5

LEMMA FoulLedger ==
  ASSUME RecordInv, SnapshotsChain, StoryInv, NEW s \in Anomalies(ledger)
  PROVE  \/ \E i \in Intents : Cardinality(RowsOf(i)) > 1
         \/ \E c \in DOMAIN answers :
              FiredAt(c) \ {"timeout_before_commit", "timeout_after_commit"} # {}
<1>. USE DEF RecordInv
<1>1. CASE s \in DuplicateRefunds(ledger)
  <2>. DEFINE i == ledger[s].intent
  <2>1. PICK t \in Commits : t < s /\ ledger[t].intent = i
    BY <1>1 DEF DuplicateRefunds, Typed, Commits, EventsOf
  <2>2. s \in Commits
    BY <1>1 DEF DuplicateRefunds, Typed, Commits, EventsOf
  <2>3. s \in Nat /\ t \in Nat /\ i \in Intents
    BY <2>2, CommitRow
  <2>4. RowAt(s) # RowAt(t)
    BY <2>1, <2>2, <2>3, RowsAreCommits
  <2>5. RowAt(s) \in RowsOf(i) /\ RowAt(t) \in RowsOf(i)
    BY <2>1, <2>2, RowsAreCommits
  <2>6. ~ (Cardinality(RowsOf(i)) <= 1)
    BY <2>4, <2>5, RowsAreCommits, AtMostOne
  <2>7. Cardinality(RowsOf(i)) \in Nat
    BY RowsAreCommits, FS_CardinalityType
  <2>. QED
    BY <2>3, <2>6, <2>7
<1>2. CASE s \in MisroutedWrites(ledger) \cup AmountMismatches(ledger)
  <2>. DEFINE c == ledger[s].call
  <2>1. s \in Commits
    BY <1>2 DEF MisroutedWrites, AmountMismatches, Typed, Commits, EventsOf
  <2>2. PICK t \in Nat : TellsCommitted(c, t) /\ s = t + 1
    BY <2>1, CommitRow
  <2>3. ~ Backs(s, answers[c].asked)
    BY <1>2, <2>1, DoesWhatIsAsked, CommitRow
  <2>4. FiredAt(c) \cap WriteFaults # {}
    BY <2>2, <2>3 DEF TellsCommitted
  <2>5. FiredAt(c) \ {"timeout_before_commit", "timeout_after_commit"} # {}
    BY <2>4 DEF WriteFaults
  <2>6. c \in DOMAIN answers
    BY <2>1, CommitRow
  <2>. QED
    BY <2>5, <2>6
<1>3. CASE s \in PhantomSuccesses(ledger)
  <2>1. /\ ledger[s].call \in DOMAIN answers
        /\ FiredAt(ledger[s].call) = {"phantom_success"}
    BY <1>3, PhantomRow DEF PhantomSuccesses, Typed, CallsOf
  <2>2. FiredAt(ledger[s].call) \ {"timeout_before_commit", "timeout_after_commit"} # {}
    BY <2>1
  <2>. QED
    BY <2>1, <2>2
<1>. QED
  BY <1>1, <1>2, <1>3 DEF Anomalies

(* CONTRADICTED is the verdict iff the ledger shows an anomaly, and         *)
(* SUPPORTED only when it shows none.                                      *)
LEMMA LabelIs ==
  /\ Label.verdict = "SUPPORTED" => Anomalies(ledger) = {}
  /\ Label.verdict = "CONTRADICTED" => Anomalies(ledger) # {}
<1>. DEFINE statuses == ExpectedStatuses(ledger, ExternalClaim)
<1>1. "CONTRADICTED" \in statuses <=> Anomalies(ledger) # {}
  BY DEF ExpectedStatuses
<1>2. Label.verdict = aggregate_verdict(statuses)
  BY DEF Label, propose_ground_truth
<1>. HIDE DEF statuses
<1>3. /\ aggregate_verdict(statuses) = "SUPPORTED" => "CONTRADICTED" \notin statuses
      /\ aggregate_verdict(statuses) = "CONTRADICTED" => "CONTRADICTED" \in statuses
  BY DEF aggregate_verdict
<1>. QED
  BY <1>1, <1>2, <1>3

(* In every case the proposed label (scenarios/ground_truth.py             *)
(* propose_ground_truth) is true of the database: SUPPORTED means no       *)
(* intent was refunded twice, every refund did what was asked and every    *)
(* success has its row; CONTRADICTED means a repeat or a lying fault.      *)
THEOREM LabelIsTrue == Spec => []LabelTellsTheDatabase
<1>1. RecordInv /\ SnapshotsChain /\ StoryInv => LabelTellsTheDatabase
  <2>. SUFFICES ASSUME RecordInv, SnapshotsChain, StoryInv
                PROVE  LabelTellsTheDatabase
    OBVIOUS
  <2>1. CASE Anomalies(ledger) = {}
    <3>1. Label.verdict # "CONTRADICTED"
      BY <2>1, LabelIs
    <3>. HIDE DEF Label
    <3>. QED
      BY <2>1, <3>1, CleanLedger, Zenon DEF LabelTellsTheDatabase
  <2>2. CASE Anomalies(ledger) # {}
    <3>1. Label.verdict # "SUPPORTED"
      BY <2>2, LabelIs
    <3>2. \/ \E i \in Intents : Cardinality(RowsOf(i)) > 1
          \/ \E c \in DOMAIN answers :
               FiredAt(c) \ {"timeout_before_commit", "timeout_after_commit"} # {}
      BY <2>2, FoulLedger
    <3>. QED
      BY <3>1, <3>2, Zenon DEF LabelTellsTheDatabase
  <2>. QED
    BY <2>1, <2>2
<1>. QED
  BY <1>1, StoryInvariant, PTL

-----------------------------------------------------------------------------
(* What a later step does to the anomalies of a ledger: it may add some. *)
LEMMA AnomaliesGrow ==
  ASSUME TypeInv, StoryInv, Grows
  PROVE  /\ Anomalies(ledger) \subseteq Anomalies(ledger')
         /\ \A s \in Anomalies(ledger') : s \in Anomalies(ledger) \/ s > Len(ledger)
         /\ Anomalies(ledger') \subseteq Nat
<1>1. /\ Len(ledger) \in Nat /\ Len(ledger') \in Nat /\ Len(ledger') >= Len(ledger)
      /\ DOMAIN ledger = 1 .. Len(ledger) /\ DOMAIN ledger' = 1 .. Len(ledger')
  BY LedgerRows DEF Grows
<1>2. \A s \in DOMAIN ledger : s \in DOMAIN ledger' /\ ledger'[s] = ledger[s]
  BY <1>1 DEF Grows
<1>3. \A s \in DOMAIN ledger' : s > Len(ledger) \/ s \in DOMAIN ledger
  BY <1>1
<1>4. \A s \in DOMAIN ledger, t \in DOMAIN ledger' : t < s => t \in DOMAIN ledger
  BY <1>1
<1>5. ASSUME NEW s \in DOMAIN ledger
      PROVE  s \in DuplicateRefunds(ledger') <=> s \in DuplicateRefunds(ledger)
  BY <1>2, <1>4 DEF DuplicateRefunds, Typed
<1>6. ASSUME NEW s \in DOMAIN ledger
      PROVE  /\ s \in MisroutedWrites(ledger') <=> s \in MisroutedWrites(ledger)
             /\ s \in AmountMismatches(ledger') <=> s \in AmountMismatches(ledger)
  BY <1>2 DEF MisroutedWrites, AmountMismatches, Typed
<1>7. ASSUME NEW s \in DOMAIN ledger
      PROVE  s \in PhantomSuccesses(ledger') <=> s \in PhantomSuccesses(ledger)
  <2>1. CASE ledger[s].type = "tool_call_completed"
    <3>1. ledger[s].call \in DOMAIN answers
      BY <2>1, RowHasTale
    <3>2. \A t \in DOMAIN ledger' : t \in DOMAIN ledger \/ ledger'[t].call # ledger[s].call
      BY <1>1, <1>3, <3>1 DEF Grows
    <3>3. ledger[s].call \in CallsOf(ledger', {"state_changed", "idempotent_replay"})
            <=> ledger[s].call \in CallsOf(ledger, {"state_changed", "idempotent_replay"})
      BY <1>2, <3>2 DEF CallsOf
    <3>. QED
      BY <1>2, <3>3 DEF PhantomSuccesses, Typed
  <2>2. CASE ledger[s].type # "tool_call_completed"
    BY <1>2, <2>2 DEF PhantomSuccesses, Typed
  <2>. QED
    BY <2>1, <2>2
<1>8. \A s \in DOMAIN ledger : s \in Anomalies(ledger') <=> s \in Anomalies(ledger)
  BY <1>5, <1>6, <1>7 DEF Anomalies
<1>9. Anomalies(ledger) \subseteq DOMAIN ledger /\ Anomalies(ledger') \subseteq DOMAIN ledger'
  BY DEF Anomalies, DuplicateRefunds, MisroutedWrites, AmountMismatches, PhantomSuccesses, Typed
<1>. QED
  BY <1>1, <1>3, <1>8, <1>9

(* In every case the blame is settled once it is found: no later call, no  *)
(* retry and no later fault moves the first bad event or clears it         *)
(* (scenarios/ground_truth.py derive_ledger_facts).                        *)
THEOREM BlameIsSettled == Spec => BlameIsStable
<1>1. ASSUME RecordInv, SnapshotsChain, StoryInv, [Next]_vars, FirstBadEvent(ledger) # NoSeq
      PROVE  FirstBadEvent(ledger') = FirstBadEvent(ledger)
  <2>. DEFINE x == FirstBadEvent(ledger)
  <2>1. TypeInv /\ Grows
    BY <1>1, StoryStep DEF RecordInv
  <2>2. Anomalies(ledger) # {}
    BY <1>1 DEF FirstBadEvent
  <2>3. x \in Anomalies(ledger) /\ \A s \in Anomalies(ledger) : x <= s
    BY <2>1, <2>2, BlamedRow
  <2>4. x \in 1 .. Len(ledger) /\ Len(ledger) \in Nat
    BY <2>1, <2>3, AnomalyRow, LedgerRows
  <2>5. /\ x \in Anomalies(ledger') /\ Anomalies(ledger') \subseteq Nat
        /\ \A s \in Anomalies(ledger') : s \in Anomalies(ledger) \/ s > Len(ledger)
    BY <1>1, <2>1, <2>3, AnomaliesGrow
  <2>. HIDE DEF x
  <2>6. \A s \in Anomalies(ledger') : x <= s
    BY <2>3, <2>4, <2>5
  <2>7. Least(Anomalies(ledger')) = x
    BY <2>5, <2>6, LeastIs
  <2>8. Anomalies(ledger') # {}
    BY <2>5
  <2>. QED
    BY <2>7, <2>8 DEF FirstBadEvent, x
<1>. QED
  BY <1>1, StoryInvariant, PTL DEF Spec, BlameIsStable

(* What the temporal verifier finds in any ledger, an excerpt included. *)
LEMMA IssueOf ==
  ASSUME NEW L, NEW x
  PROVE  x \in verify_temporal(L) <=>
           \E i \in {L[s].intent : s \in DOMAIN L} :
             \/ \E p \in AdjacentCommits(L, i) : x = RepeatedCommitIssue(L, i, p[1], p[2])
             \/ \E s \in SuccessWithoutCommit(L, i) :
                  x = [kind |-> "success_without_commit", intent |-> i,
                       first_bad |-> s, evidence |-> {s}]
  BY DEF verify_temporal

RepeatsIn(L, intents) ==
  {s \in DOMAIN L : \E i \in intents : \E p \in AdjacentCommits(L, i) : s = p[2]}

PhantomsIn(L, intents) == {s \in DOMAIN L : \E i \in intents : s \in SuccessWithoutCommit(L, i)}

IssuesFor(L, intents) == issues_for_intents(verify_temporal(L), intents)

LEMMA RepeatsAre ==
  ASSUME NEW L, NEW intents
  PROVE  {x.first_bad : x \in MaterialIssues(IssuesFor(L, intents))} = RepeatsIn(L, intents)
<1>. DEFINE M == MaterialIssues(IssuesFor(L, intents))
<1>1. ASSUME NEW x \in M
      PROVE  x.first_bad \in RepeatsIn(L, intents)
  <2>1. x \in verify_temporal(L) /\ x.intent \in intents /\ x.kind \in Repeats
    BY DEF MaterialIssues, IssuesFor, issues_for_intents, Repeats
  <2>2. PICK i \in {L[s].intent : s \in DOMAIN L} :
          \/ \E p \in AdjacentCommits(L, i) : x = RepeatedCommitIssue(L, i, p[1], p[2])
          \/ \E s \in SuccessWithoutCommit(L, i) :
               x = [kind |-> "success_without_commit", intent |-> i,
                    first_bad |-> s, evidence |-> {s}]
    BY <2>1, IssueOf
  <2>3. PICK p \in AdjacentCommits(L, i) : x = RepeatedCommitIssue(L, i, p[1], p[2])
    BY <2>1, <2>2 DEF Repeats
  <2>4. x.intent = i /\ x.first_bad = p[2]
    BY <2>3, RepeatFields
  <2>5. p[2] \in DOMAIN L
    BY DEF AdjacentCommits, ScopedCommits, Scoped
  <2>. QED
    BY <2>1, <2>4, <2>5 DEF RepeatsIn
<1>2. ASSUME NEW i \in intents, NEW p \in AdjacentCommits(L, i)
      PROVE  \E x \in M : x.first_bad = p[2]
  <2>. DEFINE x == RepeatedCommitIssue(L, i, p[1], p[2])
  <2>1. x.kind \in Repeats /\ x.intent = i /\ x.first_bad = p[2]
    BY RepeatFields
  <2>2. p[2] \in DOMAIN L /\ L[p[2]].intent = i
    BY DEF AdjacentCommits, ScopedCommits, Scoped
  <2>. HIDE DEF x
  <2>3. x \in verify_temporal(L)
    BY <2>2, IssueOf DEF x
  <2>4. x \in M
    BY <2>1, <2>3 DEF MaterialIssues, IssuesFor, issues_for_intents, Repeats
  <2>. QED
    BY <2>1, <2>4
<1>. HIDE DEF M
<1>3. {x.first_bad : x \in M} = RepeatsIn(L, intents)
  BY <1>1, <1>2 DEF RepeatsIn
<1>. QED
  BY <1>3 DEF M

LEMMA PhantomsAre ==
  ASSUME NEW L, NEW intents
  PROVE  {x.first_bad : x \in {y \in IssuesFor(L, intents) : y.kind = "success_without_commit"}}
           = PhantomsIn(L, intents)
<1>. DEFINE M == {y \in IssuesFor(L, intents) : y.kind = "success_without_commit"}
<1>1. ASSUME NEW x \in M
      PROVE  x.first_bad \in PhantomsIn(L, intents)
  <2>1. x \in verify_temporal(L) /\ x.intent \in intents /\ x.kind \notin Repeats
    BY DEF IssuesFor, issues_for_intents, Repeats
  <2>2. PICK i \in {L[s].intent : s \in DOMAIN L} :
          \/ \E p \in AdjacentCommits(L, i) : x = RepeatedCommitIssue(L, i, p[1], p[2])
          \/ \E s \in SuccessWithoutCommit(L, i) :
               x = [kind |-> "success_without_commit", intent |-> i,
                    first_bad |-> s, evidence |-> {s}]
    BY <2>1, IssueOf
  <2>3. \E s \in SuccessWithoutCommit(L, i) :
               x = [kind |-> "success_without_commit", intent |-> i,
                    first_bad |-> s, evidence |-> {s}]
    BY <2>1, <2>2, RepeatFields
  <2>4. x.first_bad \in SuccessWithoutCommit(L, i) /\ i \in intents
    BY <2>1, <2>3
  <2>5. x.first_bad \in DOMAIN L
    BY <2>4 DEF SuccessWithoutCommit, Scoped
  <2>. QED
    BY <2>4, <2>5 DEF PhantomsIn
<1>2. ASSUME NEW i \in intents, NEW s \in SuccessWithoutCommit(L, i)
      PROVE  \E x \in M : x.first_bad = s
  <2>. DEFINE x == [kind |-> "success_without_commit", intent |-> i,
                    first_bad |-> s, evidence |-> {s}]
  <2>1. x.kind = "success_without_commit" /\ x.intent = i /\ x.first_bad = s
    OBVIOUS
  <2>2. s \in DOMAIN L /\ L[s].intent = i
    BY DEF SuccessWithoutCommit, Scoped
  <2>3. x \in verify_temporal(L)
    BY <2>2, IssueOf
  <2>. HIDE DEF x
  <2>4. x \in M
    BY <2>1, <2>3 DEF IssuesFor, issues_for_intents
  <2>. QED
    BY <2>1, <2>4
<1>. HIDE DEF M
<1>3. {x.first_bad : x \in M} = PhantomsIn(L, intents)
  BY <1>1, <1>2 DEF PhantomsIn
<1>. QED
  BY <1>3 DEF M

(* A request was refunded twice iff its commits in the ledger say so. *)
LEMMA RepeatedIsSeen ==
  ASSUME RecordInv, StoryInv, NEW intents
  PROVE  RepeatsIn(ledger, intents) # {} <=> \E i \in intents : Cardinality(RowsOf(i)) > 1
<1>. USE DEF RecordInv
<1>1. ASSUME NEW i \in intents, NEW p \in AdjacentCommits(ledger, i)
      PROVE  Cardinality(RowsOf(i)) > 1
  <2>1. /\ p[1] \in Commits /\ p[2] \in Commits /\ p[1] # p[2]
        /\ ledger[p[1]].intent = i /\ ledger[p[2]].intent = i
    BY PairOfCommits
  <2>2. RowAt(p[1]) \in RowsOf(i) /\ RowAt(p[2]) \in RowsOf(i) /\ RowAt(p[1]) # RowAt(p[2])
    BY <2>1, RowsAreCommits
  <2>3. ~ (Cardinality(RowsOf(i)) <= 1)
    BY <2>2, RowsAreCommits, AtMostOne
  <2>4. Cardinality(RowsOf(i)) \in Nat
    BY RowsAreCommits, FS_CardinalityType
  <2>. QED
    BY <2>3, <2>4
<1>2. ASSUME NEW i \in intents, Cardinality(RowsOf(i)) > 1
      PROVE  RepeatsIn(ledger, intents) # {}
  <2>1. Cardinality(RowsOf(i)) \in Nat
    BY RowsAreCommits, FS_CardinalityType
  <2>2. PICK q, r \in RowsOf(i) : q # r
    BY <1>2, <2>1, AtMostOneConverse
  <2>3. PICK s \in Commits : q = RowAt(s) /\ ledger[s].intent = i
    BY <2>2, RowsAreCommits
  <2>4. PICK t \in Commits : r = RowAt(t) /\ ledger[t].intent = i
    BY <2>2, RowsAreCommits
  <2>5. s # t /\ s \in Nat /\ t \in Nat
    BY <2>2, <2>3, <2>4, CommitRow
  <2>6. PICK u \in DuplicateRefunds(ledger) : ledger[u].intent = i
    <3>1. s < t \/ t < s
      BY <2>5
    <3>. QED
      BY <2>3, <2>4, <3>1 DEF DuplicateRefunds, Typed, Commits, EventsOf
  <2>7. PICK v : <<v, u>> \in AdjacentCommits(ledger, i)
    BY <2>6, EarlierCommit
  <2>8. u \in DOMAIN ledger /\ <<v, u>>[2] = u
    BY <2>6 DEF DuplicateRefunds, Typed
  <2>. QED
    BY <2>7, <2>8 DEF RepeatsIn
<1>. QED
  BY <1>1, <1>2 DEF RepeatsIn

-----------------------------------------------------------------------------
(* The reconciler, branch by branch. *)
FigureConflicts(L, claim, commits) ==
  LET valued == ValuedCommits(L, claim, commits)
  IN  OrderConflicts(L, claim, commits) \cup AmountConflicts(L, claim, valued)
        \cup CountConflicts(claim, valued) \cup FullConflicts(L, claim, valued)

MaterialFirsts(issues) == {x.first_bad : x \in MaterialIssues(issues)}

PhantomIssues(issues) == {x \in issues : x.kind = "success_without_commit"}
PhantomFirsts(issues) == {x.first_bad : x \in PhantomIssues(issues)}

Blamed(bad) == IF bad = {} THEN NoSeq ELSE Least(bad)

LEMMA CommitsJudged ==
  ASSUME NEW L, NEW claim, NEW commits, NEW issues, NEW bad,
         bad = FigureConflicts(L, claim, commits) \cup MaterialFirsts(issues)
  PROVE  LET r == ReconcileCommits(L, claim, commits, issues)
         IN  /\ r.status = IF bad = {} THEN "SUPPORTED" ELSE "CONTRADICTED"
             /\ r.first_bad = Blamed(bad)
             /\ r.evidence = WithIssueEvidence(commits, MaterialIssues(issues))
  BY DEF ReconcileCommits, FigureConflicts, MaterialFirsts, Blamed, Result

LEMMA PhantomJudged ==
  ASSUME NEW linked, NEW issues
  PROVE  LET r == ReconcilePhantom(linked, issues)
         IN  /\ r.status = IF IsLinked(linked) THEN "CONTRADICTED" ELSE "UNVERIFIABLE"
             /\ r.first_bad = IF ~IsLinked(linked) THEN NoSeq
                              ELSE IF PhantomFirsts(issues) # {} THEN Least(PhantomFirsts(issues))
                              ELSE Blamed(linked.terminals)
             /\ IsLinked(linked) =>
                  r.evidence = WithIssueEvidence(linked.terminals, PhantomIssues(issues))
  BY DEF ReconcilePhantom, PhantomFirsts, PhantomIssues, Blamed, Result, Unverifiable

LEMMA LinkFields ==
  ASSUME NEW L, NEW claim
  PROVE  LET linked == link_claim(L, claim)
             intents == infer_intents(claim)
             calls == LinkedCalls(claim, intents)
             related == RelatedRows(L, claim, intents, calls)
         IN  /\ linked.intents = intents /\ linked.calls = calls
             /\ linked.commits = {s \in related : L[s].tool = ISSUE_REFUND}
                                   \cap Typed(L, "state_changed")
             /\ linked.terminals = {s \in {t \in related : L[t].tool = ISSUE_REFUND} :
                                      L[s].type \in RefundTerminals}
  BY DEF link_claim

LEMMA ClaimTypes ==
  ASSUME NEW claim \in Claims
  PROVE  claim.type \in {"refund_issued", "refund_not_issued", "external_side_effect", "other"}
  BY DEF Claims, RefundIssued, RefundNotIssued, BareClaim

LEMMA Judged ==
  ASSUME NEW L, NEW claim, NEW all
  PROVE  LET linked == link_claim(L, claim)
             issues == issues_for_intents(all, linked.intents)
             r == reconcile_claim(L, claim, all)
         IN  /\ claim.type \in {"external_side_effect", "other"} => r = Unverifiable
             /\ claim.type = "refund_not_issued" => r = ReconcileDenial(linked)
             /\ (claim.type = "refund_issued" /\ linked.commits = {}) =>
                  r = ReconcilePhantom(linked, issues)
             /\ (claim.type = "refund_issued" /\ linked.commits # {}) =>
                  r = ReconcileCommits(L, claim, linked.commits, issues)
  BY DEF reconcile_claim

LEMMA RepeatsMatter ==
  ASSUME RecordInv, StoryInv, NEW claim \in Claims
  PROVE  LET with     == reconcile_claim(ledger, claim, Issues).status
             without  == reconcile_claim(ledger, claim, {}).status
             repeated == \E i \in infer_intents(claim) : Cardinality(RowsOf(i)) > 1
         IN  IF claim.type = "refund_issued" /\ without = "SUPPORTED"
               THEN (with = "CONTRADICTED" <=> repeated)
               ELSE with = without
<1>. DEFINE linked == link_claim(ledger, claim)
            intents == infer_intents(claim)
            with == reconcile_claim(ledger, claim, Issues)
            without == reconcile_claim(ledger, claim, {})
            repeats == RepeatsIn(ledger, intents)
            figures == FigureConflicts(ledger, claim, linked.commits)
<1>1. linked.intents = intents
  BY LinkFields
<1>2. issues_for_intents({}, intents) = {} /\ issues_for_intents(Issues, intents) = IssuesFor(ledger, intents)
  BY DEF issues_for_intents, IssuesFor, Issues
<1>3. CASE claim.type # "refund_issued"
  <2>1. with = without
    BY <1>3, ClaimTypes, Judged
  <2>. QED
    BY <1>3, <2>1
<1>4. CASE claim.type = "refund_issued" /\ linked.commits = {}
  <2>1. /\ with = ReconcilePhantom(linked, issues_for_intents(Issues, linked.intents))
        /\ without = ReconcilePhantom(linked, issues_for_intents({}, linked.intents))
    BY <1>4, Judged
  <2>2. with.status = without.status /\ without.status # "SUPPORTED"
    BY <2>1, PhantomJudged
  <2>. QED
    BY <2>2
<1>5. CASE claim.type = "refund_issued" /\ linked.commits # {}
  <2>1. /\ with = ReconcileCommits(ledger, claim, linked.commits, IssuesFor(ledger, intents))
        /\ without = ReconcileCommits(ledger, claim, linked.commits, {})
    BY <1>1, <1>2, <1>5, Judged
  <2>2. MaterialFirsts({}) = {} /\ MaterialFirsts(IssuesFor(ledger, intents)) = repeats
    BY RepeatsAre DEF MaterialFirsts, MaterialIssues
  <2>3. without.status = IF figures = {} THEN "SUPPORTED" ELSE "CONTRADICTED"
    <3>1. figures = figures \cup MaterialFirsts({})
      BY <2>2
    <3>. QED
      BY <2>1, <3>1, CommitsJudged
  <2>4. with.status = IF figures \cup repeats = {} THEN "SUPPORTED" ELSE "CONTRADICTED"
    <3>1. PICK bad : bad = figures \cup MaterialFirsts(IssuesFor(ledger, intents))
      OBVIOUS
    <3>2. with.status = IF bad = {} THEN "SUPPORTED" ELSE "CONTRADICTED"
      BY <2>1, <3>1, CommitsJudged
    <3>. QED
      BY <2>2, <3>1, <3>2
  <2>5. repeats # {} <=> \E i \in intents : Cardinality(RowsOf(i)) > 1
    BY RepeatedIsSeen
  <2>. HIDE DEF figures, with, without, repeats, intents
  <2>6. IF without.status = "SUPPORTED"
          THEN (with.status = "CONTRADICTED" <=> \E i \in intents : Cardinality(RowsOf(i)) > 1)
          ELSE with.status = without.status
    BY <2>3, <2>4, <2>5
  <2>. QED
    BY <1>5, <2>6 DEF with, without, intents
<1>. QED
  BY <1>3, <1>4, <1>5

(* In every case, on every claim: what the auditor loses without its       *)
(* temporal verifier is exactly the repeats.  It changes a verdict only    *)
(* where the figures of a claim are right and a linked request was         *)
(* refunded twice (auditor/pipeline.py, use_temporal_verifier).            *)
THEOREM VerifierAddsRepeats == Spec => []TemporalVerifierFindsRepeats
<1>1. RecordInv /\ StoryInv => TemporalVerifierFindsRepeats
  BY RepeatsMatter DEF TemporalVerifierFindsRepeats
<1>. QED
  BY <1>1, StoryInvariant, PTL

-----------------------------------------------------------------------------
(* Reading an excerpt of the ledger. *)
LEMMA ExcerptRows ==
  ASSUME NEW E, E \subseteq DOMAIN ledger, NEW i, NEW type
  PROVE  /\ DOMAIN Excerpt(E) = E /\ \A s \in E : Excerpt(E)[s] = ledger[s]
         /\ Scoped(Excerpt(E), i) = Scoped(ledger, i) \cap E
         /\ Typed(Excerpt(E), type) = Typed(ledger, type) \cap E
<1>1. DOMAIN Excerpt(E) = E /\ \A s \in E : Excerpt(E)[s] = ledger[s]
  BY DEF Excerpt
<1>. PICK X : X = Excerpt(E)
  OBVIOUS
<1>2. \A s : s \in Scoped(X, i) <=> s \in Scoped(ledger, i) /\ s \in E
  BY <1>1 DEF Scoped
<1>3. \A s : s \in Typed(X, type) <=> s \in Typed(ledger, type) /\ s \in E
  BY <1>1 DEF Typed
<1>4. Scoped(X, i) = Scoped(ledger, i) \cap E /\ Typed(X, type) = Typed(ledger, type) \cap E
  BY <1>2, <1>3
<1>. QED
  BY <1>1, <1>4

LEMMA ExcerptLinks ==
  ASSUME NEW E, E \subseteq DOMAIN ledger, NEW claim
  PROVE  LET linked == link_claim(ledger, claim)
             cut    == link_claim(Excerpt(E), claim)
         IN  /\ cut.intents = linked.intents /\ cut.calls = linked.calls
             /\ cut.commits = linked.commits \cap E
             /\ cut.terminals = linked.terminals \cap E
<1>. PICK X : X = Excerpt(E)
  OBVIOUS
<1>. DEFINE linked == link_claim(ledger, claim)
            cut == link_claim(X, claim)
            intents == infer_intents(claim)
            calls == LinkedCalls(claim, intents)
            whole == RelatedRows(ledger, claim, intents, calls)
            part == RelatedRows(X, claim, intents, calls)
<1>1. DOMAIN X = E /\ \A s \in E : X[s] = ledger[s] /\ s \in DOMAIN ledger
  BY ExcerptRows
<1>2. \A s : s \in part <=> s \in whole /\ s \in E
  BY <1>1 DEF RelatedRows
<1>3. /\ linked.intents = intents /\ linked.calls = calls
      /\ cut.intents = intents /\ cut.calls = calls
      /\ linked.commits = {s \in whole : ledger[s].tool = ISSUE_REFUND} \cap Typed(ledger, "state_changed")
      /\ linked.terminals = {s \in {t \in whole : ledger[t].tool = ISSUE_REFUND} :
                               ledger[s].type \in RefundTerminals}
      /\ cut.commits = {s \in part : X[s].tool = ISSUE_REFUND} \cap Typed(X, "state_changed")
      /\ cut.terminals = {s \in {t \in part : X[t].tool = ISSUE_REFUND} :
                               X[s].type \in RefundTerminals}
  BY LinkFields
<1>4. Typed(X, "state_changed") = Typed(ledger, "state_changed") \cap E
  BY ExcerptRows
<1>. HIDE DEF linked, cut, intents, calls, whole, part
<1>5. cut.commits = linked.commits \cap E
  BY <1>1, <1>2, <1>3, <1>4
<1>6. cut.terminals = linked.terminals \cap E
  BY <1>1, <1>2, <1>3
<1>. QED
  BY <1>3, <1>5, <1>6 DEF linked, cut

LEMMA ExcerptRepeats ==
  ASSUME NEW E, E \subseteq DOMAIN ledger, NEW intents,
         \A i \in intents : ScopedCommits(ledger, i) \subseteq E
  PROVE  RepeatsIn(Excerpt(E), intents) = RepeatsIn(ledger, intents)
<1>. PICK X : X = Excerpt(E)
  OBVIOUS
<1>1. ASSUME NEW i \in intents
      PROVE  AdjacentCommits(X, i) = AdjacentCommits(ledger, i)
  <2>1. ScopedCommits(X, i) = ScopedCommits(ledger, i)
    BY ExcerptRows DEF ScopedCommits
  <2>. QED
    BY <2>1 DEF AdjacentCommits
<1>2. ASSUME NEW i \in intents, NEW p \in AdjacentCommits(ledger, i)
      PROVE  p[2] \in E /\ p[2] \in DOMAIN ledger
  BY DEF AdjacentCommits
<1>3. DOMAIN X = E
  BY ExcerptRows
<1>. QED
  BY <1>1, <1>2, <1>3 DEF RepeatsIn

LEMMA ExcerptPhantoms ==
  ASSUME NEW E, E \subseteq DOMAIN ledger, NEW intents,
         \A i \in intents : \A s \in Scoped(ledger, i) :
           ledger[s].type # "state_changed" /\ (ledger[s].type \in RefundTerminals => s \in E)
  PROVE  PhantomsIn(Excerpt(E), intents) = PhantomsIn(ledger, intents)
<1>. PICK X : X = Excerpt(E)
  OBVIOUS
<1>1. DOMAIN X = E /\ \A s \in E : X[s] = ledger[s]
  BY ExcerptRows
<1>2. ASSUME NEW i \in intents
      PROVE  SuccessWithoutCommit(X, i) = SuccessWithoutCommit(ledger, i)
  <2>1. Scoped(X, i) = Scoped(ledger, i) \cap E
    BY ExcerptRows
  <2>2. Typed(X, "tool_call_completed") = Typed(ledger, "tool_call_completed") \cap E
    BY ExcerptRows
  <2>3. "tool_call_completed" \in RefundTerminals /\ "idempotent_replay" \in RefundTerminals
    BY DEF RefundTerminals
  <2>4. Scoped(X, i) \cap Typed(X, "tool_call_completed")
          = Scoped(ledger, i) \cap Typed(ledger, "tool_call_completed")
    BY <2>1, <2>2, <2>3 DEF Typed
  <2>5. \A s \in Scoped(ledger, i) \cap Typed(ledger, "tool_call_completed") : s \in E
    BY <2>3 DEF Typed
  <2>6. \A t \in Scoped(ledger, i) :
          ledger[t].type \in {"state_changed", "idempotent_replay"} => t \in Scoped(X, i)
    BY <2>1, <2>3
  <2>7. \A t \in Scoped(X, i) : t \in Scoped(ledger, i) /\ X[t] = ledger[t]
    BY <1>1, <2>1
  <2>8. \A s : s \in SuccessWithoutCommit(X, i) <=> s \in SuccessWithoutCommit(ledger, i)
    BY <1>1, <2>4, <2>5, <2>6, <2>7 DEF SuccessWithoutCommit
  <2>. QED
    BY <2>8 DEF SuccessWithoutCommit
<1>3. ASSUME NEW i \in intents, NEW s \in SuccessWithoutCommit(ledger, i)
      PROVE  s \in E /\ s \in DOMAIN ledger
  BY DEF SuccessWithoutCommit, Typed, RefundTerminals
<1>. QED
  BY <1>1, <1>2, <1>3 DEF PhantomsIn

LEMMA GreatestIn ==
  ASSUME NEW S, S \subseteq Nat, S # {}, NEW n \in Nat, \A x \in S : x <= n
  PROVE  Max(S) \in S /\ \A y \in S : y <= Max(S)
<1>1. PICK x \in S : \A y \in S : y <= x
  BY HasGreatest
<1>2. \A y \in S : x >= y
  BY <1>1
<1>3. Max(S) \in S /\ \A y \in S : Max(S) >= y
  BY <1>2 DEF Max
<1>. QED
  BY <1>3

LEMMA ExcerptFigures ==
  ASSUME TypeInv, NEW E, E \subseteq DOMAIN ledger, NEW claim, NEW commits,
         commits \subseteq E, commits # {}
  PROVE  FigureConflicts(Excerpt(E), claim, commits) = FigureConflicts(ledger, claim, commits)
<1>. PICK X : X = Excerpt(E)
  OBVIOUS
<1>1. \A s \in E : X[s] = ledger[s]
  BY ExcerptRows
<1>2. Matching(X, claim, commits) = Matching(ledger, claim, commits)
  BY <1>1 DEF Matching
<1>3. PICK valued : valued = ValuedCommits(ledger, claim, commits)
  OBVIOUS
<1>4. /\ ValuedCommits(X, claim, commits) = valued
      /\ valued \subseteq commits /\ valued # {}
  BY <1>2, <1>3 DEF ValuedCommits, Matching
<1>5. OrderConflicts(X, claim, commits) = OrderConflicts(ledger, claim, commits)
  BY <1>2 DEF OrderConflicts
<1>6. [s \in valued |-> refund_delta(X[s])] = [s \in valued |-> refund_delta(ledger[s])]
  BY <1>1, <1>4
<1>7. TotalDelta(X, valued) = TotalDelta(ledger, valued)
  BY <1>6 DEF TotalDelta
<1>8. AmountConflicts(X, claim, valued) = AmountConflicts(ledger, claim, valued)
  BY <1>7 DEF AmountConflicts
<1>9. Max(valued) \in valued
  BY <1>4, LedgerRows, GreatestIn
<1>10. FullConflicts(X, claim, valued) = FullConflicts(ledger, claim, valued)
  BY <1>1, <1>4, <1>9 DEF FullConflicts
<1>. QED
  BY <1>3, <1>4, <1>5, <1>8, <1>10 DEF FigureConflicts

(* The issues cite rows of the ledger. *)
LEMMA IssueEvidence ==
  ASSUME TypeInv, NEW intents, NEW x \in IssuesFor(ledger, intents)
  PROVE  x.evidence \subseteq DOMAIN ledger
<1>1. PICK i \in {ledger[s].intent : s \in DOMAIN ledger} :
        \/ \E p \in AdjacentCommits(ledger, i) : x = RepeatedCommitIssue(ledger, i, p[1], p[2])
        \/ \E s \in SuccessWithoutCommit(ledger, i) :
             x = [kind |-> "success_without_commit", intent |-> i,
                  first_bad |-> s, evidence |-> {s}]
  <2>1. x \in verify_temporal(ledger)
    BY DEF IssuesFor, issues_for_intents
  <2>. QED
    BY <2>1, IssueOf
<1>2. CASE \E s \in SuccessWithoutCommit(ledger, i) :
             x = [kind |-> "success_without_commit", intent |-> i,
                  first_bad |-> s, evidence |-> {s}]
  BY <1>2 DEF SuccessWithoutCommit, Scoped
<1>3. CASE \E p \in AdjacentCommits(ledger, i) : x = RepeatedCommitIssue(ledger, i, p[1], p[2])
  <2>1. PICK p \in AdjacentCommits(ledger, i) : x = RepeatedCommitIssue(ledger, i, p[1], p[2])
    BY <1>3
  <2>. DEFINE timeouts == PostCommitTimeouts(ledger, i, p[1], p[2])
  <2>2. x.evidence = {p[1], p[2]} \cup (IF timeouts = {} THEN {} ELSE {Least(timeouts)})
    BY <2>1 DEF RepeatedCommitIssue
  <2>3. timeouts \subseteq DOMAIN ledger /\ timeouts \subseteq Nat
    BY LedgerRows DEF PostCommitTimeouts, Scoped
  <2>4. timeouts # {} => Least(timeouts) \in timeouts
    BY <2>3, LeastIn
  <2>5. p[1] \in DOMAIN ledger /\ p[2] \in DOMAIN ledger
    BY DEF AdjacentCommits, ScopedCommits, Scoped
  <2>. HIDE DEF timeouts
  <2>. QED
    BY <2>2, <2>3, <2>4, <2>5
<1>. QED
  BY <1>1, <1>2, <1>3

(* The audit of the cited rows alone. *)
Again(claim) ==
  LET audit   == reconcile_claim(ledger, claim, Issues)
      excerpt == Excerpt(audit.evidence)
      again   == reconcile_claim(excerpt, claim, verify_temporal(excerpt))
  IN  again.status = audit.status /\ again.first_bad = audit.first_bad

LEMMA LinkedRows ==
  ASSUME NEW claim
  PROVE  LET linked == link_claim(ledger, claim)
         IN  /\ linked.commits \subseteq DOMAIN ledger /\ linked.terminals \subseteq DOMAIN ledger
             /\ \A i \in linked.intents : \A s \in Scoped(ledger, i) :
                  /\ ledger[s].type = "state_changed" => s \in linked.commits
                  /\ ledger[s].type \in RefundTerminals => s \in linked.terminals
  BY LinkFields DEF RelatedRows, Scoped, Typed

LEMMA DenialAgain ==
  ASSUME NEW claim, claim.type = "refund_not_issued"
  PROVE  Again(claim)
<1>. DEFINE linked == link_claim(ledger, claim)
            audit == reconcile_claim(ledger, claim, Issues)
            X == Excerpt(audit.evidence)
            cut == link_claim(X, claim)
            again == reconcile_claim(X, claim, verify_temporal(X))
<1>1. audit = ReconcileDenial(linked) /\ again = ReconcileDenial(cut)
  BY Judged
<1>2. /\ linked.commits # {} => audit.evidence = linked.commits
      /\ linked.commits = {} => audit.evidence \in {linked.terminals, {}}
  BY <1>1 DEF ReconcileDenial, Unverifiable, Result
<1>3. audit.evidence \subseteq DOMAIN ledger
  BY <1>2, LinkedRows
<1>4. /\ cut.intents = linked.intents /\ cut.calls = linked.calls
      /\ cut.commits = linked.commits
  <2>1. /\ cut.intents = linked.intents /\ cut.calls = linked.calls
        /\ cut.commits = linked.commits \cap audit.evidence
    BY <1>3, ExcerptLinks
  <2>. HIDE DEF linked, cut, audit, X
  <2>2. CASE linked.commits = {}
    BY <2>1, <2>2
  <2>3. CASE linked.commits # {}
    BY <1>2, <2>1, <2>3
  <2>. QED
    BY <2>2, <2>3
<1>5. IsLinked(cut) = IsLinked(linked)
  BY <1>4 DEF IsLinked
<1>. HIDE DEF linked, cut, audit, again, X
<1>6. again.status = audit.status /\ again.first_bad = audit.first_bad
  BY <1>1, <1>4, <1>5 DEF ReconcileDenial, Unverifiable, Result
<1>. QED
  BY <1>6 DEF Again, audit, again, X

LEMMA PhantomAgain ==
  ASSUME TypeInv, NEW claim, claim.type = "refund_issued",
         link_claim(ledger, claim).commits = {}
  PROVE  Again(claim)
<1>. DEFINE linked == link_claim(ledger, claim)
            audit == reconcile_claim(ledger, claim, Issues)
            E == audit.evidence
            X == Excerpt(E)
            cut == link_claim(X, claim)
            again == reconcile_claim(X, claim, verify_temporal(X))
            issues == IssuesFor(ledger, linked.intents)
<1>1. audit = ReconcilePhantom(linked, issues)
  <2>1. issues_for_intents(Issues, linked.intents) = issues
    BY DEF IssuesFor, Issues
  <2>. QED
    BY <2>1, Judged
<1>2. /\ IsLinked(linked) => E = WithIssueEvidence(linked.terminals, PhantomIssues(issues))
      /\ ~IsLinked(linked) => E = {}
  <2>1. ~IsLinked(linked) => E = {}
    BY <1>1 DEF ReconcilePhantom, Unverifiable, Result
  <2>. QED
    BY <1>1, <2>1, PhantomJudged
<1>3. E \subseteq DOMAIN ledger /\ (IsLinked(linked) => linked.terminals \subseteq E)
  <2>1. \A x \in PhantomIssues(issues) : x.evidence \subseteq DOMAIN ledger
    BY IssueEvidence DEF PhantomIssues
  <2>2. linked.terminals \subseteq DOMAIN ledger
    BY LinkedRows
  <2>. HIDE DEF linked, issues, E
  <2>. QED
    BY <1>2, <2>1, <2>2 DEF WithIssueEvidence
<1>4. /\ cut.intents = linked.intents /\ cut.calls = linked.calls /\ cut.commits = {}
      /\ cut.terminals = linked.terminals \cap E
  BY <1>3, ExcerptLinks
<1>5. IsLinked(cut) = IsLinked(linked)
  BY <1>4 DEF IsLinked
<1>6. again = ReconcilePhantom(cut, IssuesFor(X, linked.intents))
  <2>1. again = ReconcilePhantom(cut, issues_for_intents(verify_temporal(X), cut.intents))
    BY <1>4, Judged
  <2>. QED
    BY <1>4, <2>1 DEF IssuesFor
<1>7. ASSUME IsLinked(linked)
      PROVE  /\ PhantomFirsts(IssuesFor(X, linked.intents)) = PhantomFirsts(issues)
             /\ cut.terminals = linked.terminals
  <2>1. linked.terminals \subseteq E
    BY <1>3, <1>7
  <2>2. \A i \in linked.intents : \A s \in Scoped(ledger, i) :
          ledger[s].type # "state_changed" /\ (ledger[s].type \in RefundTerminals => s \in E)
    BY <2>1, LinkedRows
  <2>3. PhantomsIn(X, linked.intents) = PhantomsIn(ledger, linked.intents)
    BY <1>3, <2>2, ExcerptPhantoms
  <2>4. /\ PhantomFirsts(IssuesFor(X, linked.intents)) = PhantomsIn(X, linked.intents)
        /\ PhantomFirsts(issues) = PhantomsIn(ledger, linked.intents)
    BY PhantomsAre DEF PhantomFirsts, PhantomIssues
  <2>. QED
    BY <1>4, <2>1, <2>3, <2>4
<1>. HIDE DEF linked, audit, E, X, cut, again, issues
<1>8. again.status = audit.status
  BY <1>1, <1>5, <1>6, PhantomJudged
<1>9. again.first_bad = audit.first_bad
  <2>1. CASE IsLinked(linked)
    BY <1>1, <1>5, <1>6, <1>7, <2>1, PhantomJudged
  <2>2. CASE ~IsLinked(linked)
    BY <1>1, <1>5, <1>6, <2>2, PhantomJudged
  <2>. QED
    BY <2>1, <2>2
<1>. QED
  BY <1>8, <1>9 DEF Again, audit, E, X, again

LEMMA CommitsAgain ==
  ASSUME TypeInv, NEW claim, claim.type = "refund_issued",
         link_claim(ledger, claim).commits # {}
  PROVE  Again(claim)
<1>. DEFINE linked == link_claim(ledger, claim)
            commits == linked.commits
            audit == reconcile_claim(ledger, claim, Issues)
            E == audit.evidence
            X == Excerpt(E)
            cut == link_claim(X, claim)
            again == reconcile_claim(X, claim, verify_temporal(X))
            issues == IssuesFor(ledger, linked.intents)
<1>1. audit = ReconcileCommits(ledger, claim, commits, issues)
  <2>1. issues_for_intents(Issues, linked.intents) = issues
    BY DEF IssuesFor, Issues
  <2>. QED
    BY <2>1, Judged
<1>2. PICK bad : bad = FigureConflicts(ledger, claim, commits) \cup MaterialFirsts(issues)
  OBVIOUS
<1>3. /\ audit.status = IF bad = {} THEN "SUPPORTED" ELSE "CONTRADICTED"
      /\ audit.first_bad = Blamed(bad)
      /\ E = WithIssueEvidence(commits, MaterialIssues(issues))
  BY <1>1, <1>2, CommitsJudged
<1>4. E \subseteq DOMAIN ledger /\ commits \subseteq E
  <2>1. \A x \in MaterialIssues(issues) : x.evidence \subseteq DOMAIN ledger
    BY IssueEvidence DEF MaterialIssues
  <2>2. commits \subseteq DOMAIN ledger
    BY LinkedRows
  <2>. HIDE DEF commits, issues, E
  <2>. QED
    BY <1>3, <2>1, <2>2 DEF WithIssueEvidence
<1>5. cut.intents = linked.intents /\ cut.commits = commits
  <2>1. cut.intents = linked.intents /\ cut.commits = commits \cap E
    BY <1>4, ExcerptLinks
  <2>. HIDE DEF linked, commits, cut, E, X
  <2>. QED
    BY <1>4, <2>1
<1>6. again = ReconcileCommits(X, claim, commits, IssuesFor(X, linked.intents))
  <2>1. again = ReconcileCommits(X, claim, cut.commits,
                                 issues_for_intents(verify_temporal(X), cut.intents))
    BY <1>5, Judged
  <2>. QED
    BY <1>5, <2>1 DEF IssuesFor
<1>7. FigureConflicts(X, claim, commits) = FigureConflicts(ledger, claim, commits)
  BY <1>4, ExcerptFigures
<1>8. MaterialFirsts(IssuesFor(X, linked.intents)) = MaterialFirsts(issues)
  <2>1. \A i \in linked.intents : ScopedCommits(ledger, i) \subseteq commits
    BY LinkedRows DEF ScopedCommits, Typed
  <2>2. \A i \in linked.intents : ScopedCommits(ledger, i) \subseteq E
    BY <1>4, <2>1
  <2>3. RepeatsIn(X, linked.intents) = RepeatsIn(ledger, linked.intents)
    BY <1>4, <2>2, ExcerptRepeats
  <2>. QED
    BY <2>3, RepeatsAre DEF MaterialFirsts
<1>. HIDE DEF linked, commits, audit, E, X, cut, again, issues
<1>9. bad = FigureConflicts(X, claim, commits) \cup MaterialFirsts(IssuesFor(X, linked.intents))
  BY <1>2, <1>7, <1>8
<1>10. /\ again.status = IF bad = {} THEN "SUPPORTED" ELSE "CONTRADICTED"
       /\ again.first_bad = Blamed(bad)
  BY <1>6, <1>9, CommitsJudged
<1>. QED
  BY <1>3, <1>10 DEF Again, audit, E, X, again

LEMMA EveryAuditAgain ==
  ASSUME TypeInv, NEW claim \in Claims
  PROVE  Again(claim)
<1>1. CASE claim.type \in {"external_side_effect", "other"}
  BY <1>1, Judged, Zenon DEF Again
<1>2. CASE claim.type = "refund_not_issued"
  BY <1>2, DenialAgain
<1>3. CASE claim.type = "refund_issued"
  BY <1>3, PhantomAgain, CommitsAgain
<1>. QED
  BY <1>1, <1>2, <1>3, ClaimTypes

(* In every case, on every claim: the rows an audit cites are the whole    *)
(* case for its verdict and for the event it blames (auditor/reconciler.py *)
(* reconcile_claim, _evidence).                                            *)
THEOREM CitedRowsSuffice == Spec => []EvidenceIsEnough
<1>1. RecordInv => EvidenceIsEnough
  BY EveryAuditAgain DEF RecordInv, EvidenceIsEnough, Again
<1>. QED
  BY <1>1, RecordInvariant, PTL
-----------------------------------------------------------------------------
(* What a verdict says of the refunds table. *)

(* The rows that some commits wrote count and add up as the auditor counts *)
(* and adds up the commits.                                                *)
LEMMA RowsAddUp ==
  ASSUME RecordInv, SnapshotsChain, NEW C, C \subseteq Commits
  PROVE  LET rows == {RowAt(s) : s \in C}
         IN  /\ Cardinality(rows) = Cardinality(C) /\ Cardinality(C) \in Nat
             /\ TotalOf(rows) = TotalDelta(ledger, C)
<1>. DEFINE rows == {RowAt(s) : s \in C}
            row == [s \in C |-> RowAt(s)]
            amounts == [r \in rows |-> r.amount]
            deltas == [s \in C |-> refund_delta(ledger[s])]
<1>1. ASSUME NEW s \in C
      PROVE  deltas[s] = row[s].amount /\ row[s].txn = s /\ deltas[s] \in Int
  BY CommitDelta DEF RecordInv, RowAt
<1>2. IsFiniteSet(C)
  <2>1. C \subseteq 1 .. Len(ledger) /\ Len(ledger) \in Nat
    BY LedgerRows DEF RecordInv, Commits, EventsOf
  <2>2. IsFiniteSet(1 .. Len(ledger))
    BY <2>1, FS_Interval
  <2>. QED
    BY <2>1, <2>2, FS_Subset
<1>3. row \in Bijection(C, rows)
  <2>1. row \in [C -> rows] /\ \A r \in rows : \E s \in C : row[s] = r
    BY DEF row
  <2>2. \A s, t \in C : row[s] = row[t] => s = t
    BY <1>1
  <2>. HIDE DEF row, rows
  <2>. QED
    BY <2>1, <2>2 DEF Bijection, Injection, Surjection, IsInjective
<1>4. Cardinality(rows) = Cardinality(C)
  BY <1>2, <1>3, FS_Bijection DEF ExistsBijection
<1>5. /\ DOMAIN deltas = C /\ IsFiniteSet(DOMAIN deltas)
      /\ \A s \in DOMAIN deltas : deltas[s] \in Int
      /\ DOMAIN amounts = {row[s] : s \in DOMAIN deltas}
      /\ \A s, t \in DOMAIN deltas : row[s] = row[t] => s = t
      /\ \A s \in DOMAIN deltas : amounts[row[s]] = deltas[s]
  BY <1>1, <1>2
<1>6. SumFunction(amounts) = SumFunction(deltas)
  <2>. HIDE DEF amounts, deltas, row
  <2>. QED
    BY <1>5, SumsAgree
<1>7. TotalOf(rows) = SumFunction(amounts) /\ TotalDelta(ledger, C) = SumFunction(deltas)
  BY DEF TotalOf, TotalDelta
<1>8. Cardinality(C) \in Nat
  BY <1>2, FS_CardinalityType
<1>. HIDE DEF rows, row, amounts, deltas
<1>. QED
  BY <1>4, <1>6, <1>7, <1>8 DEF rows

LEMMA RowsAreOf ==
  ASSUME RecordInv
  PROVE  /\ \A o : RowsOn(o) = {RowAt(s) : s \in {t \in Commits : ledger[t].entity = o}}
         /\ \A intents : {r \in refunds : r.intent \in intents}
                           = {RowAt(s) : s \in {t \in Commits : ledger[t].intent \in intents}}
         /\ refunds = {RowAt(s) : s \in Commits}
         /\ \A s \in Commits : ledger[s].entity \in Orders
<1>1. refunds = {RowAt(s) : s \in Commits} /\ refunds \subseteq RefundRow
  BY DEF RecordInv, LedgerMirrorsRefunds, TypeInv, TypeOK
<1>2. \A s \in Commits : RowAt(s).intent = ledger[s].intent /\ RowAt(s).order = ledger[s].entity
  BY DEF RowAt
<1>3. \A s \in Commits : RowAt(s).order \in Orders
  BY <1>1 DEF RefundRow
<1>. HIDE DEF RowAt
<1>. QED
  BY <1>1, <1>2, <1>3 DEF RowsOn

(* The commits a claim about refunds is linked to. *)
LEMMA LinkedCommits ==
  ASSUME RecordInv, StoryInv, NEW claim, claim.type # "external_side_effect"
  PROVE  LET commits == link_claim(ledger, claim).commits
             intents == infer_intents(claim)
         IN  /\ commits \subseteq Commits
             /\ \A s \in Commits : ledger[s].intent \in intents => s \in commits
             /\ claim.order # NoOrder =>
                  /\ Matching(ledger, claim, commits) = {s \in Commits : ledger[s].entity = claim.order}
                  /\ \A s \in commits : \/ ledger[s].intent \in intents
                                        \/ ledger[s].entity = claim.order
             /\ claim.order = NoOrder =>
                  commits = {s \in Commits : intents = {} \/ ledger[s].intent \in intents}
<1>. DEFINE commits == link_claim(ledger, claim).commits
            intents == infer_intents(claim)
            calls == LinkedCalls(claim, intents)
<1>1. commits = {s \in RelatedRows(ledger, claim, intents, calls) : ledger[s].tool = ISSUE_REFUND}
                  \cap Typed(ledger, "state_changed")
  BY LinkFields
<1>2. Commits = Typed(ledger, "state_changed")
  BY DEF Commits, EventsOf, Typed
<1>3. \A s \in Commits : s \in DOMAIN ledger /\ ledger[s].tool = ISSUE_REFUND
  BY CommitRow DEF RecordInv
<1>4. commits = {s \in Commits : \/ ledger[s].intent \in intents
                                 \/ ledger[s].call \in calls
                                 \/ MentionsOrder(ledger[s], claim.order)}
  BY <1>1, <1>2, <1>3 DEF RelatedRows
<1>5. ASSUME NEW s \in Commits
      PROVE  ledger[s].call \in calls <=>
               ledger[s].intent \in intents \/ (intents = {} /\ claim.order = NoOrder)
  <2>1. /\ ledger[s].call \in DOMAIN answers
        /\ answers[ledger[s].call].tool = ISSUE_REFUND
        /\ answers[ledger[s].call].intent = ledger[s].intent
    BY CommitRow DEF RecordInv
  <2>. QED
    BY <2>1 DEF LinkedCalls, CallsTo
<1>6. ASSUME NEW s \in Commits, MentionsOrder(ledger[s], claim.order)
      PROVE  claim.order # NoOrder /\ (ledger[s].entity = claim.order \/ ledger[s].intent \in intents)
  <2>1. claim.order # NoOrder /\ claim.order \in {ledger[s].entity, ledger[s].asked.order}
    BY <1>6 DEF MentionsOrder
  <2>2. CASE ledger[s].asked.order = claim.order
    <3>1. /\ ledger[s].call \in DOMAIN answers
          /\ answers[ledger[s].call].asked = ledger[s].asked
          /\ answers[ledger[s].call].intent = ledger[s].intent
      BY CommitRow DEF RecordInv
    <3>2. ledger[s].intent \in NamedIntents(claim)
      BY <2>1, <2>2, <3>1 DEF NamedIntents, IntentsOf
    <3>3. NamedIntents(claim) \subseteq intents
      BY <3>2 DEF infer_intents
    <3>. QED
      BY <2>1, <3>2, <3>3
  <2>. QED
    BY <2>1, <2>2
<1>7. \A s \in Commits : claim.order # NoOrder /\ ledger[s].entity = claim.order
                           => MentionsOrder(ledger[s], claim.order)
  BY DEF MentionsOrder
<1>. HIDE DEF commits, intents, calls
<1>8. claim.order # NoOrder =>
        /\ Matching(ledger, claim, commits) = {s \in Commits : ledger[s].entity = claim.order}
        /\ \A s \in commits : \/ ledger[s].intent \in intents
                              \/ ledger[s].entity = claim.order
  BY <1>4, <1>5, <1>6, <1>7 DEF Matching
<1>9. claim.order = NoOrder =>
        commits = {s \in Commits : intents = {} \/ ledger[s].intent \in intents}
  BY <1>4, <1>5, <1>6
<1>. QED
  BY <1>4, <1>8, <1>9 DEF commits, intents

(* The rows a claim is about are those its commits wrote. *)
LEMMA RowsAreAbout ==
  ASSUME RecordInv, StoryInv, NEW claim, claim.type # "external_side_effect"
  PROVE  LET commits == link_claim(ledger, claim).commits
         IN  RowsAbout(claim) = {RowAt(s) : s \in IF claim.order = NoOrder THEN commits
                                                  ELSE Matching(ledger, claim, commits)}
<1>. DEFINE intents == infer_intents(claim)
<1>1. CASE claim.order = NoOrder
  <2>1. RowsAbout(claim) = {r \in refunds : intents = {} \/ r.intent \in intents}
    BY <1>1 DEF RowsAbout
  <2>2. CASE intents = {}
    BY <1>1, <2>1, <2>2, RowsAreOf, LinkedCommits
  <2>3. CASE intents # {}
    <3>1. link_claim(ledger, claim).commits = {s \in Commits : ledger[s].intent \in intents}
      BY <1>1, <2>3, LinkedCommits
    <3>2. RowsAbout(claim) = {r \in refunds : r.intent \in intents}
      BY <2>1, <2>3
    <3>. HIDE DEF intents
    <3>. QED
      BY <1>1, <3>1, <3>2, RowsAreOf
  <2>. QED
    BY <2>2, <2>3
<1>2. CASE claim.order # NoOrder
  BY <1>2, RowsAreOf, LinkedCommits DEF RowsAbout
<1>. QED
  BY <1>1, <1>2

(* An order paid back in full is marked so. *)
PaidBackIsMarked ==
  \A o \in Orders :
    orders[o].refunded_cents > 0 /\ orders[o].refunded_cents >= OrderAmount[o]
      => orders[o].status = "refunded"

LEMMA MarkInit == Init => PaidBackIsMarked
  BY DEF Init, PaidBackIsMarked

LEMMA MarkStep ==
  ASSUME TypeInv, PaidBackIsMarked, [Next]_vars
  PROVE  PaidBackIsMarked'
<1>1. CASE UNCHANGED orders
  BY <1>1 DEF PaidBackIsMarked
<1>2. CASE CommitStep
  <2>1. PICK o \in Orders, amount \in Nat \ {0} : orders' = OrdersAfter(o, amount)
    BY <1>2 DEF CommitStep, CommitOf
  <2>2. orders \in [Orders -> OrderRow]
    BY DEF TypeInv, TypeOK
  <2>3. ASSUME NEW p \in Orders, p # o
        PROVE  orders'[p] = orders[p]
    BY <2>1, <2>2, <2>3 DEF OrdersAfter
  <2>4. orders'[o] = OrderAfter(o, amount)
    BY <2>1, <2>2 DEF OrdersAfter
  <2>5. orders'[o].refunded_cents >= OrderAmount[o] => orders'[o].status = "refunded"
    BY <2>4 DEF OrderAfter
  <2>. QED
    BY <2>3, <2>5 DEF PaidBackIsMarked
<1>3. CASE QuietStep
  BY <1>1, <1>3 DEF QuietStep, db
<1>. QED
  BY <1>1, <1>2, <1>3, NextStep DEF vars

(* The last commit on an order leaves it as the database has it. *)
LEMMA LastCommit ==
  ASSUME RecordInv, SnapshotsChain, NEW o \in Orders,
         NEW C, C = {s \in Commits : ledger[s].entity = o}, C # {}
  PROVE  /\ ledger[Max(C)].after = snapshot_order(o)
         /\ orders[o].refunded_cents \in Nat /\ orders[o].refunded_cents > 0
<1>1. C \subseteq Nat /\ Len(ledger) \in Nat /\ \A s \in C : s \in DOMAIN ledger /\ s <= Len(ledger)
  BY LedgerRows DEF RecordInv, Commits, EventsOf
<1>2. Max(C) \in C /\ \A s \in C : s <= Max(C)
  BY <1>1, GreatestIn
<1>3. C = CommitsOn(o, Len(ledger))
  BY <1>1 DEF CommitsOn
<1>4. IsSnapshotAt(snapshot_order(o), o, Len(ledger))
  BY DEF SnapshotsChain
<1>5. ledger[Max(C)].after = snapshot_order(o)
  <2>1. PICK last : last = Max(C)
    OBVIOUS
  <2>. QED
    BY <1>2, <1>3, <1>4, <2>1 DEF IsSnapshotAt
<1>6. PICK s \in Commits : s = Max(C)
  BY <1>2
<1>7. ledger[s] \in Event /\ ledger[s].before.refunded_cents \in Nat
  BY LedgerRows DEF RecordInv, Commits, EventsOf, Event, Snapshot, NoSnapshot
<1>8. ledger[s].committed \in Nat \ {0}
  <2>1. RowAt(s) \in RefundRow
    BY RowsAreOf DEF RecordInv, TypeInv, TypeOK
  <2>. QED
    BY <2>1 DEF RefundRow, RowAt
<1>9. ledger[s].after.refunded_cents = ledger[s].before.refunded_cents + ledger[s].committed
  BY DEF SnapshotsChain
<1>10. ledger[s].after.refunded_cents = orders[o].refunded_cents
  BY <1>5, <1>6 DEF snapshot_order, SnapshotIn
<1>. QED
  BY <1>5, <1>7, <1>8, <1>9, <1>10

(* A claim as the commits have it: no figure of it conflicts. *)
LEMMA NoConflict ==
  ASSUME RecordInv, SnapshotsChain, NEW claim, NEW commits, commits \subseteq Commits, commits # {},
         claim.count \in Nat,
         NEW valued, valued = ValuedCommits(ledger, claim, commits)
  PROVE  FigureConflicts(ledger, claim, commits) = {} <=>
           /\ claim.order # NoOrder => Matching(ledger, claim, commits) # {}
           /\ claim.amount # NoAmount => TotalDelta(ledger, valued) = claim.amount
           /\ Cardinality(valued) = claim.count
           /\ claim.full => LET final == ledger[Max(valued)].after
                            IN  final.status = "refunded" /\ final.refunded_cents = final.amount_cents
<1>1. valued \subseteq Commits
  BY DEF ValuedCommits, Matching
<1>2. Cardinality(valued) \in Nat
  BY <1>1, RowsAddUp
<1>3. OrderConflicts(ledger, claim, commits) = {}
        <=> (claim.order # NoOrder => Matching(ledger, claim, commits) # {})
  BY DEF OrderConflicts
<1>4. AmountConflicts(ledger, claim, valued) = {}
        <=> (claim.amount # NoAmount => TotalDelta(ledger, valued) = claim.amount)
  BY DEF AmountConflicts
<1>5. CountConflicts(claim, valued) = {} <=> Cardinality(valued) = claim.count
  BY <1>2 DEF CountConflicts
<1>6. FullConflicts(ledger, claim, valued) = {}
        <=> (claim.full => LET final == ledger[Max(valued)].after
                           IN  final.status = "refunded" /\ final.refunded_cents = final.amount_cents)
  BY DEF FullConflicts
<1>. QED
  BY <1>3, <1>4, <1>5, <1>6 DEF FigureConflicts

LEMMA ClaimFields ==
  ASSUME NEW claim \in Claims
  PROVE  /\ claim.type \in {"refund_issued", "refund_not_issued", "external_side_effect", "other"}
         /\ claim.count \in Nat
  BY ClaimsAssumption DEF Claims, RefundIssued, RefundNotIssued, BareClaim

LEMMA SupportedHolds ==
  ASSUME RecordInv, SnapshotsChain, StoryInv, NEW claim \in Claims,
         reconcile_claim(ledger, claim, Issues).status = "SUPPORTED"
  PROVE  LET rows == RowsAbout(claim)
         IN  IF claim.type = "refund_not_issued" THEN rows = {}
             ELSE /\ Cardinality(rows) = claim.count
                  /\ claim.amount # NoAmount => TotalOf(rows) = claim.amount
                  /\ (claim.full /\ claim.order # NoOrder) =>
                       orders[claim.order].refunded_cents = OrderAmount[claim.order]
<1>. DEFINE linked == link_claim(ledger, claim)
            commits == linked.commits
            matching == Matching(ledger, claim, commits)
            issues == issues_for_intents(Issues, linked.intents)
            rows == RowsAbout(claim)
<1>1. claim.type \in {"refund_issued", "refund_not_issued"}
  BY ClaimFields, Judged DEF Unverifiable, Result
<1>2. /\ commits \subseteq Commits /\ matching \subseteq commits
      /\ rows = {RowAt(s) : s \in IF claim.order = NoOrder THEN commits ELSE matching}
      /\ claim.order # NoOrder => matching = {s \in Commits : ledger[s].entity = claim.order}
  BY <1>1, LinkedCommits, RowsAreAbout DEF Matching
<1>3. CASE claim.type = "refund_not_issued"
  <2>1. commits = {}
    BY <1>3, Judged DEF ReconcileDenial, Result
  <2>2. rows = {}
    BY <1>2, <2>1
  <2>. QED
    BY <1>3, <2>2
<1>4. CASE claim.type = "refund_issued"
  <2>1. commits # {}
    BY <1>4, Judged, PhantomJudged
  <2>2. reconcile_claim(ledger, claim, Issues) = ReconcileCommits(ledger, claim, commits, issues)
    BY <1>4, <2>1, Judged
  <2>3. FigureConflicts(ledger, claim, commits) = {}
    <3>1. PICK bad : bad = FigureConflicts(ledger, claim, commits) \cup MaterialFirsts(issues)
      OBVIOUS
    <3>2. reconcile_claim(ledger, claim, Issues).status = IF bad = {} THEN "SUPPORTED" ELSE "CONTRADICTED"
      BY <2>2, <3>1, CommitsJudged
    <3>. QED
      BY <3>1, <3>2
  <2>4. PICK valued : valued = ValuedCommits(ledger, claim, commits)
    OBVIOUS
  <2>5. /\ claim.order # NoOrder => matching # {}
        /\ claim.amount # NoAmount => TotalDelta(ledger, valued) = claim.amount
        /\ Cardinality(valued) = claim.count
        /\ claim.full => LET final == ledger[Max(valued)].after
                         IN  final.status = "refunded" /\ final.refunded_cents = final.amount_cents
    BY <1>2, <2>1, <2>3, <2>4, ClaimFields, NoConflict
  <2>6. valued \subseteq Commits /\ rows = {RowAt(s) : s \in valued}
    <3>1. claim.order = NoOrder => matching = {}
      BY <1>2, RowsAreOf, OrdersAssumption DEF Matching, AnyOrder
    <3>. HIDE DEF rows
    <3>. QED
      BY <1>2, <2>4, <2>5, <3>1 DEF ValuedCommits
  <2>7. Cardinality(rows) = Cardinality(valued) /\ TotalOf(rows) = TotalDelta(ledger, valued)
    BY <2>6, RowsAddUp
  <2>8. ASSUME claim.full, claim.order # NoOrder
        PROVE  orders[claim.order].refunded_cents = OrderAmount[claim.order]
    <3>1. valued = {s \in Commits : ledger[s].entity = claim.order} /\ valued # {}
      BY <1>2, <2>4, <2>5, <2>8 DEF ValuedCommits
    <3>2. claim.order \in Orders
      BY <3>1, RowsAreOf
    <3>3. ledger[Max(valued)].after = snapshot_order(claim.order)
      BY <3>1, <3>2, LastCommit
    <3>4. snapshot_order(claim.order).refunded_cents = snapshot_order(claim.order).amount_cents
      BY <2>5, <2>8, <3>3
    <3>. QED
      BY <3>4 DEF snapshot_order, SnapshotIn
  <2>. HIDE DEF rows
  <2>9. /\ Cardinality(rows) = claim.count
        /\ claim.amount # NoAmount => TotalOf(rows) = claim.amount
    BY <2>5, <2>7
  <2>. QED
    BY <1>4, <2>8, <2>9 DEF rows
<1>. QED
  BY <1>1, <1>3, <1>4

LEMMA TruePasses ==
  ASSUME RecordInv, SnapshotsChain, StoryInv, PaidBackIsMarked, NEW o \in Orders,
         reconcile_claim(ledger, Truth(o), Issues).status = "CONTRADICTED"
  PROVE  \/ \E i \in infer_intents(Truth(o)) : Cardinality(RowsOf(i)) > 1
         \/ /\ Truth(o).type = "refund_not_issued"
            /\ \E i \in infer_intents(Truth(o)) : RowsOf(i) # {}
<1>. PICK claim : claim = Truth(o)
  OBVIOUS
<1>. DEFINE linked == link_claim(ledger, claim)
            commits == linked.commits
            intents == infer_intents(claim)
            issues == IssuesFor(ledger, intents)
            matching == Matching(ledger, claim, commits)
<1>1. /\ o # NoOrder /\ claim.order = o
      /\ RowsOn(o) = {} => claim.type = "refund_not_issued"
      /\ RowsOn(o) # {} =>
           /\ claim.type = "refund_issued" /\ claim.amount = TotalOf(RowsOn(o))
           /\ claim.count = Cardinality(RowsOn(o))
           /\ claim.full = (orders[o].refunded_cents = OrderAmount[o])
  BY OrdersAssumption DEF AnyOrder, Truth, RefundNotIssued, RefundIssued, BareClaim
<1>2. linked.intents = intents /\ issues_for_intents(Issues, linked.intents) = issues
  BY LinkFields DEF IssuesFor, Issues
<1>3. /\ commits \subseteq Commits
      /\ \A s \in commits : ledger[s].intent \in intents \/ ledger[s].entity = o
      /\ matching = {s \in Commits : ledger[s].entity = o}
      /\ matching \subseteq commits
  BY <1>1, LinkedCommits DEF Matching
<1>4. RowsOn(o) = {RowAt(s) : s \in matching}
  BY <1>3, RowsAreOf
<1>5. CASE RowsOn(o) = {}
  <2>1. commits # {}
    BY <1>1, <1>5, Judged DEF ReconcileDenial, Result, Unverifiable
  <2>2. PICK s \in commits : TRUE
    BY <2>1
  <2>3. s \notin matching
    BY <1>4, <1>5
  <2>4. ledger[s].intent \in intents
    BY <1>3, <2>3
  <2>5. RowAt(s) \in RowsOf(ledger[s].intent)
    BY <1>3, RowsAreCommits
  <2>. QED
    BY <1>1, <1>5, <2>4, <2>5
<1>6. CASE RowsOn(o) # {}
  <2>1. matching # {} /\ commits # {}
    BY <1>3, <1>4, <1>6
  <2>2. ValuedCommits(ledger, claim, commits) = matching
    BY <2>1 DEF ValuedCommits
  <2>3. reconcile_claim(ledger, claim, Issues) = ReconcileCommits(ledger, claim, commits, issues)
    BY <1>1, <1>2, <1>6, <2>1, Judged
  <2>4. /\ Cardinality(RowsOn(o)) = Cardinality(matching) /\ Cardinality(matching) \in Nat
        /\ TotalOf(RowsOn(o)) = TotalDelta(ledger, matching)
    BY <1>3, <1>4, RowsAddUp
  <2>5. claim.full => LET final == ledger[Max(matching)].after
                     IN  final.status = "refunded" /\ final.refunded_cents = final.amount_cents
    <3>1. /\ ledger[Max(matching)].after = snapshot_order(o)
          /\ orders[o].refunded_cents \in Nat /\ orders[o].refunded_cents > 0
      BY <1>3, <2>1, LastCommit
    <3>2. claim.full => orders[o].refunded_cents = OrderAmount[o]
      BY <1>1, <1>6
    <3>3. claim.full => orders[o].status = "refunded"
      BY <3>1, <3>2 DEF PaidBackIsMarked
    <3>. QED
      BY <3>1, <3>2, <3>3 DEF snapshot_order, SnapshotIn
  <2>6. FigureConflicts(ledger, claim, commits) = {}
    <3>1. claim.count \in Nat /\ Cardinality(matching) = claim.count
          /\ TotalDelta(ledger, matching) = claim.amount
      BY <1>1, <1>6, <2>4
    <3>2. PICK valued : valued = ValuedCommits(ledger, claim, commits) /\ valued = matching
      BY <2>2
    <3>3. Matching(ledger, claim, commits) # {}
      BY <2>1
    <3>4. claim.full => LET final == ledger[Max(valued)].after
                       IN  final.status = "refunded" /\ final.refunded_cents = final.amount_cents
      BY <2>5, <3>2
    <3>5. /\ claim.count \in Nat /\ Cardinality(valued) = claim.count
          /\ TotalDelta(ledger, valued) = claim.amount /\ commits \subseteq Commits /\ commits # {}
      BY <1>3, <2>1, <3>1, <3>2
    <3>. HIDE DEF matching, commits
    <3>. QED
      BY <3>2, <3>3, <3>4, <3>5, NoConflict
  <2>7. MaterialFirsts(issues) # {}
    <3>1. PICK bad : bad = FigureConflicts(ledger, claim, commits) \cup MaterialFirsts(issues)
      OBVIOUS
    <3>2. reconcile_claim(ledger, claim, Issues).status = IF bad = {} THEN "SUPPORTED" ELSE "CONTRADICTED"
      BY <2>3, <3>1, CommitsJudged
    <3>. QED
      BY <2>6, <3>1, <3>2
  <2>8. RepeatsIn(ledger, intents) # {}
    BY <2>7, RepeatsAre DEF MaterialFirsts
  <2>. QED
    BY <2>8, RepeatedIsSeen
<1>. QED
  BY <1>5, <1>6

LEMMA MarkInvariant == Spec => []PaidBackIsMarked
<1>1. RecordInv => TypeInv
  BY DEF RecordInv
<1>. QED
  BY <1>1, MarkInit, MarkStep, RecordInvariant, PTL DEF Spec

(* In every case and on every claim, what the auditor's verdict says of    *)
(* the refunds table is so: a supported claim counts and adds up the rows  *)
(* there are, a supported denial has none, and the report that tells the   *)
(* truth about an order is contradicted only for a request refunded twice  *)
(* (auditor/reconciler.py reconcile_claim).                                *)
THEOREM VerdictsAreTrue == Spec => []VerdictsTellTheTruth
<1>1. RecordInv /\ SnapshotsChain /\ StoryInv /\ PaidBackIsMarked => VerdictsTellTheTruth
  <2>. SUFFICES ASSUME RecordInv, SnapshotsChain, StoryInv, PaidBackIsMarked
                PROVE  VerdictsTellTheTruth
    OBVIOUS
  <2>1. SupportedClaimsHold
    BY SupportedHolds DEF SupportedClaimsHold
  <2>2. TrueClaimsPass
    BY TruePasses DEF TrueClaimsPass
  <2>. QED
    BY <2>1, <2>2 DEF VerdictsTellTheTruth
<1>. QED
  BY <1>1, StoryInvariant, MarkInvariant, PTL

-----------------------------------------------------------------------------
(* What an agent was told, and what was injected. *)

(* No fault plan of the scenario families has a second fault. *)
OneFault == \A p \in FaultPlans : \A m, n \in 1 .. MaxCalls :
              p[m] # NoFault /\ p[n] # NoFault => m = n

(* The agent's keys are derived from what it asks for, or not looked at. *)
KeysAreDerived == IdempotencyEnabled => ExplicitKeys = {}

(* The injector's log is of the plan, and a call that names its key asked  *)
(* for something.                                                          *)
FiredAsPlanned ==
  \A j \in DOMAIN fired : fired[j].index \in 1 .. MaxCalls /\ fired[j].kind = plan[fired[j].index]

AskInv ==
  \A c \in DOMAIN answers : answers[c].key # NoKey =>
    /\ answers[c].ok => answers[c].asked.amount > 0
    /\ ExplicitKeys = {} => answers[c].key = MakeKey(answers[c].intent, answers[c].asked)

LEMMA RefundAnswer ==
  ASSUME NEW intent, NEW ask \in Ask, NEW key, IssueRefund(intent, ask, key)
  PROVE  /\ EnterRefund(intent)
         /\ \E ok, error, txn : /\ Reply(ISSUE_REFUND, intent, ask, key, ok, error, txn)
                                /\ ok => ask.amount > 0
<1>1. ~Invalid(ask) => ask.amount > 0
  <2>1. ask.amount \in Int
    BY CallsAssumption DEF Ask
  <2>. QED
    BY <2>1 DEF Invalid
<1>2. CASE RefuseInvalid(intent, ask, key) \/ RefuseConflict(intent, ask, key)
           \/ RefuseNonPositive(intent, ask, key) \/ RollBack(intent, ask, key)
  <2>1. EnterRefund(intent) /\ \E error : FailWith(intent, ask, key, error)
    BY <1>2 DEF RefuseInvalid, RefuseConflict, RefuseNonPositive, RollBack
  <2>. QED
    BY <2>1 DEF FailWith
<1>3. CASE Replay(intent, ask, key)
  BY <1>1, <1>3 DEF Replay
<1>4. CASE TimeoutBeforeCommit(intent, ask, key)
  BY <1>4 DEF TimeoutBeforeCommit
<1>5. CASE PhantomSuccess(intent, ask, key)
  BY <1>1, <1>5 DEF PhantomSuccess, Fresh
<1>6. CASE MisrouteWithoutTarget(intent, ask, key)
  BY <1>6 DEF MisrouteWithoutTarget
<1>7. CASE Commit(intent, ask, key)
  BY <1>1, <1>7 DEF Commit, Proceeds, Fresh
<1>. QED
  BY <1>2, <1>3, <1>4, <1>5, <1>6, <1>7 DEF IssueRefund

LEMMA AskStep ==
  ASSUME TypeInv, AskInv, [Next]_vars
  PROVE  AskInv'
<1>. DEFINE Sound(a) == a.key # NoKey =>
              /\ a.ok => a.asked.amount > 0
              /\ ExplicitKeys = {} => a.key = MakeKey(a.intent, a.asked)
<1>1. UNCHANGED answers \/ \E a : answers' = Append(answers, a) /\ Sound(a)
  <2>1. CASE UNCHANGED vars
    BY <2>1 DEF vars
  <2>2. CASE OtherStep
    BY <2>2, OtherStepAnswer
  <2>3. CASE RefundStep
    <3>1. PICK intent \in Intents, ask \in Ask : \E key \in {MakeKey(intent, ask)} \cup ExplicitKeys :
            IssueRefund(intent, ask, key)
      BY <2>3 DEF RefundStep
    <3>0. PICK key \in {MakeKey(intent, ask)} \cup ExplicitKeys : IssueRefund(intent, ask, key)
      BY <3>1
    <3>2. PICK ok, error, txn : /\ Reply(ISSUE_REFUND, intent, ask, key, ok, error, txn)
                                /\ ok => ask.amount > 0
      BY <3>0, RefundAnswer
    <3>. DEFINE a == [tool |-> ISSUE_REFUND, intent |-> intent, asked |-> ask, key |-> key,
                      ok |-> ok, error |-> error, txn |-> txn]
    <3>3. answers' = Append(answers, a)
      BY <3>2 DEF Reply
    <3>4. Sound(a)
      BY <3>0, <3>2
    <3>. QED
      BY <3>3, <3>4
  <2>. QED
    BY <2>1, <2>2, <2>3 DEF Next
<1>2. answers \in Seq(Answer)
  BY DEF TypeInv, TypeOK
<1>3. \A c \in DOMAIN answers : Sound(answers[c])
  BY DEF AskInv
<1>. HIDE DEF Sound
<1>4. \A c \in DOMAIN answers' : Sound(answers'[c])
  <2>1. CASE UNCHANGED answers
    BY <1>3, <2>1
  <2>2. ASSUME NEW a, answers' = Append(answers, a), Sound(a)
        PROVE  \A c \in DOMAIN answers' : Sound(answers'[c])
    <3>1. \A c \in DOMAIN answers' : (c \in DOMAIN answers /\ answers'[c] = answers[c]) \/ answers'[c] = a
      BY <1>2, <2>2
    <3>. QED
      BY <1>3, <2>2, <3>1
  <2>. QED
    BY <1>1, <2>1, <2>2
<1>. QED
  BY <1>4 DEF AskInv, Sound

LEMMA PlanStep ==
  ASSUME TypeInv, FiredAsPlanned, [Next]_vars
  PROVE  FiredAsPlanned'
<1>1. UNCHANGED plan
  BY OtherStepAnswer, RefundAnswer DEF Next, RefundStep, EnterRefund, vars
<1>2. CASE UNCHANGED fired
  BY <1>1, <1>2 DEF FiredAsPlanned
<1>3. ASSUME NEW intent, EnterRefund(intent)
      PROVE  FiredAsPlanned'
  <2>. DEFINE new == [kind |-> Fault, call |-> Call, index |-> CallIndex]
  <2>1. fired' = fired \/ fired' = Append(fired, new)
    BY <1>3 DEF EnterRefund
  <2>2. CallIndex \in 1 .. MaxCalls
    <3>1. /\ refundCalls \in Nat /\ refundCalls <= Len(answers) /\ Len(answers) \in Nat
          /\ Len(answers) < MaxCalls /\ MaxCalls \in Nat
      BY <1>3, FaultsAssumption DEF EnterRefund, Served, TypeInv, TypeOK
    <3>. QED
      BY <3>1 DEF CallIndex
  <2>3. new.index \in 1 .. MaxCalls /\ new.kind = plan[new.index]
    BY <2>2 DEF Fault
  <2>. HIDE DEF new
  <2>4. CASE fired' = Append(fired, new)
    <3>1. fired \in Seq([kind : FaultKinds, call : Nat, index : Nat])
      BY DEF TypeInv, TypeOK
    <3>2. \A j \in DOMAIN fired' : (j \in DOMAIN fired /\ fired'[j] = fired[j]) \/ fired'[j] = new
      BY <2>4, <3>1
    <3>. QED
      BY <1>1, <2>3, <3>2 DEF FiredAsPlanned
  <2>. QED
    BY <1>2, <2>1, <2>4
<1>4. CASE OtherStep
  <2>1. UNCHANGED fired
    BY <1>4 DEF OtherStep, RecordUserIntent, ReadTool, SendEmail, RejectedDispatch
  <2>. QED
    BY <1>2, <2>1
<1>5. CASE RefundStep
  BY <1>3, <1>5, RefundAnswer DEF RefundStep
<1>. QED
  BY <1>2, <1>4, <1>5 DEF Next, vars

LEMMA OnlyOneFires ==
  ASSUME TypeInv, ScheduleInv, FiredAsPlanned, OneFault,
         NEW c, NEW d, FiredAt(c) # {}, FiredAt(d) # {}
  PROVE  c = d
<1>1. PICK i \in DOMAIN fired : fired[i].call = c
  BY DEF FiredAt
<1>2. PICK j \in DOMAIN fired : fired[j].call = d
  BY DEF FiredAt
<1>3. plan \in FaultPlans
  BY DEF TypeInv, TypeOK
<1>0. PICK Fired : /\ Fired = [kind : FaultKinds, call : Nat, index : Nat]
                   /\ fired \in Seq(Fired)
  BY DEF TypeInv, TypeOK
<1>4. ASSUME NEW k \in DOMAIN fired
      PROVE  /\ k \in Nat /\ fired[k].index \in Nat /\ fired[k].index \in 1 .. MaxCalls
             /\ plan[fired[k].index] # NoFault
  <2>0. fired[k] \in Fired /\ k \in Nat
    <3>1. fired \in Seq(Fired)
      BY <1>0
    <3>. QED
      BY <3>1
  <2>1. fired[k] \in [kind : FaultKinds, call : Nat, index : Nat] /\ k \in Nat
    BY <1>0, <2>0
  <2>2. fired[k].kind # NoFault
    BY <2>1 DEF FaultKinds, NoFault
  <2>. QED
    BY <2>1, <2>2 DEF FiredAsPlanned
<1>5. fired[i].index = fired[j].index
  BY <1>3, <1>4 DEF OneFault
<1>6. \A k, m \in DOMAIN fired : k < m => fired[k].index < fired[m].index
  BY DEF ScheduleInv, FaultsFireOnSchedule
<1>7. ~ (i < j) /\ ~ (j < i) /\ i \in Nat /\ j \in Nat
  BY <1>4, <1>5, <1>6
<1>8. i = j
  BY <1>7
<1>. QED
  BY <1>1, <1>2, <1>8

(* What a successful answer names: a commit of what was asked for, or, for *)
(* an invented success, nothing.                                           *)
LEMMA SuccessNames ==
  ASSUME RecordInv, StoryInv, AskInv, KeysAreDerived, NEW o, NEW c \in SuccessCalls(o)
  PROVE  /\ c \in DOMAIN answers /\ answers[c].ok /\ answers[c].tool = ISSUE_REFUND
         /\ answers[c].asked \in Ask /\ answers[c].asked.order = o /\ answers[c].asked.amount \in Nat
         /\ \/ answers[c].txn \in Commits /\ ledger[answers[c].txn].asked = answers[c].asked
            \/ answers[c].txn < 0 /\ answers[c].txn \notin Commits
<1>1. /\ c \in DOMAIN answers /\ answers[c].ok /\ answers[c].tool = ISSUE_REFUND
      /\ answers[c].asked.order = o
  BY DEF SuccessCalls, CallsTo
<1>2. PICK t \in Nat : Tale(c, t)
  BY <1>1 DEF StoryInv
<1>3. ~TellsSilent(c) /\ ~TellsRefused(c, t) /\ ~TellsLost(c, t) /\ ~TellsAbandoned(c, t)
  BY <1>1 DEF TellsSilent, TellsRefused, TellsLost, TellsAbandoned
<1>4. ~TellsRead(c, t)
  BY <1>1, CallsAssumption DEF TellsRead, ISSUE_REFUND
<1>5. answers[c].asked \in Ask /\ answers[c].key \in Keys
  BY <1>2, <1>3, <1>4 DEF Tale, TellsInvented, TellsConfirmed, TellsCommitted, Tells
<1>6. answers[c].asked.amount \in Nat
  <2>1. answers[c].asked.amount \in Int
    BY <1>5, CallsAssumption DEF Ask
  <2>2. answers[c].key # NoKey
    BY <1>5, CallsAssumption
  <2>3. answers[c].asked.amount > 0
    BY <1>1, <2>2 DEF AskInv
  <2>. QED
    BY <2>1, <2>3
<1>7. \A s \in Commits : s \in Nat
  BY LedgerRows DEF RecordInv, Commits, EventsOf
<1>8. CASE TellsInvented(c, t)
  <2>1. answers[c].txn < 0
    BY <1>8 DEF TellsInvented
  <2>2. answers[c].txn \notin Commits
    BY <1>7, <2>1
  <2>. QED
    BY <1>1, <1>5, <1>6, <2>1, <2>2
<1>9. CASE TellsConfirmed(c, t)
  <2>. DEFINE s == answers[c].txn
              d == ledger[s].call
  <2>1. IdempotencyEnabled /\ s \in Commits /\ ledger[s].key = answers[c].key
    BY <1>9 DEF TellsConfirmed
  <2>2. /\ d \in DOMAIN answers /\ ledger[s].key = answers[d].key /\ ledger[s].asked = answers[d].asked
        /\ \E u \in Nat : TellsCommitted(d, u) /\ s = u + 1
    <3>1. PICK z \in Commits : z = s
      BY <2>1
    <3>. HIDE DEF s
    <3>. QED
      BY <3>1, CommitRow DEF RecordInv
  <2>3. answers[d].asked \in Ask
    BY <2>2 DEF TellsCommitted, Tells
  <2>4. ExplicitKeys = {} /\ answers[c].key # NoKey
    BY <1>5, <2>1, CallsAssumption DEF KeysAreDerived
  <2>. HIDE DEF d
  <2>5. MakeKey(answers[c].intent, answers[c].asked) = MakeKey(answers[d].intent, answers[d].asked)
    BY <1>1, <2>1, <2>2, <2>4 DEF AskInv
  <2>6. answers[c].asked = answers[d].asked
    BY <1>5, <2>3, <2>5 DEF MakeKey, Ask
  <2>. QED
    BY <1>1, <1>5, <1>6, <2>1, <2>2, <2>6
<1>10. CASE TellsCommitted(c, t)
  <2>1. answers[c].txn = t + 1 /\ ledger[t + 1].type = "state_changed"
    BY <1>1, <1>10 DEF TellsCommitted
  <2>2. t + 1 \in t .. t + 3 - 1
    OBVIOUS
  <2>3. t + 1 \in RowsAt(c) /\ ledger[t + 1].asked = answers[c].asked
    BY <1>10, <2>2 DEF TellsCommitted, Tells, RowOf
  <2>4. t + 1 \in Commits
    BY <2>1, <2>3 DEF RowsAt, Commits, EventsOf
  <2>. QED
    BY <1>1, <1>5, <1>6, <2>1, <2>3, <2>4
<1>. QED
  BY <1>2, <1>3, <1>4, <1>8, <1>9, <1>10 DEF Tale

LEMMA SuccessesAre ==
  ASSUME RecordInv, StoryInv, AskInv, KeysAreDerived, NEW o
  PROVE  /\ IsFiniteSet(Successes(o))
         /\ \A txn \in Successes(o) :
              /\ AmountTold(o, txn) \in Nat
              /\ txn \in Commits => AmountTold(o, txn) = ledger[txn].asked.amount
<1>1. IsFiniteSet(Successes(o))
  <2>1. answers \in Seq(Answer) /\ Len(answers) \in Nat
    BY DEF RecordInv, TypeInv, TypeOK
  <2>2. SuccessCalls(o) \subseteq 1 .. Len(answers)
    BY <2>1 DEF SuccessCalls, CallsTo
  <2>3. IsFiniteSet(SuccessCalls(o))
    <3>1. IsFiniteSet(1 .. Len(answers))
      BY <2>1, FS_Interval
    <3>. QED
      BY <2>2, <3>1, FS_Subset
  <2>4. [c \in SuccessCalls(o) |-> answers[c].txn] \in Surjection(SuccessCalls(o), Successes(o))
    BY DEF Surjection, Successes
  <2>. QED
    BY <2>3, <2>4, FS_Surjection
<1>2. ASSUME NEW txn \in Successes(o)
      PROVE  /\ AmountTold(o, txn) \in Nat
             /\ txn \in Commits => AmountTold(o, txn) = ledger[txn].asked.amount
  <2>. DEFINE c == CHOOSE x \in SuccessCalls(o) : answers[x].txn = txn
  <2>1. c \in SuccessCalls(o) /\ answers[c].txn = txn
    BY DEF Successes
  <2>2. AmountTold(o, txn) = answers[c].asked.amount
    BY DEF AmountTold
  <2>. HIDE DEF c
  <2>. QED
    BY <2>1, <2>2, SuccessNames
<1>. QED
  BY <1>1, <1>2

(* The call that made a commit, if it was answered with success, named it; *)
(* and where nothing was injected it was, and did what was asked.          *)
LEMMA CommitsTold ==
  ASSUME TypeInv, StoryInv, NEW s \in Commits
  PROVE  LET c == ledger[s].call
             o == ledger[s].asked.order
         IN  /\ c \in DOMAIN answers /\ answers[c].tool = ISSUE_REFUND
             /\ answers[c].asked = ledger[s].asked /\ answers[c].asked \in Ask
             /\ answers[c].intent = ledger[s].intent
             /\ answers[c].ok => answers[c].txn = s /\ c \in SuccessCalls(o) /\ s \in Successes(o)
             /\ FiredAt(c) = {} => answers[c].ok /\ Backs(s, ledger[s].asked)
             /\ ~Backs(s, ledger[s].asked) => answers[c].ok /\ FiredAt(c) # {}
<1>. DEFINE c == ledger[s].call
            o == ledger[s].asked.order
<1>1. /\ c \in DOMAIN answers /\ answers[c].tool = ISSUE_REFUND
      /\ answers[c].asked = ledger[s].asked /\ answers[c].intent = ledger[s].intent
      /\ \E t \in Nat : TellsCommitted(c, t) /\ s = t + 1
  BY CommitRow
<1>2. PICK t \in Nat : TellsCommitted(c, t) /\ s = t + 1
  BY <1>1
<1>3. answers[c].asked \in Ask
  BY <1>2 DEF TellsCommitted, Tells
<1>. HIDE DEF c
<1>4. /\ Backs(s, answers[c].asked) \/ FiredAt(c) \cap WriteFaults # {}
      /\ \/ answers[c].ok = FALSE /\ FiredAt(c) = {"timeout_after_commit"}
         \/ answers[c].ok = TRUE /\ answers[c].txn = s
  BY <1>2 DEF TellsCommitted
<1>5. answers[c].ok => answers[c].txn = s
  BY <1>4
<1>6. answers[c].ok => c \in SuccessCalls(o) /\ s \in Successes(o)
  BY <1>1, <1>5 DEF SuccessCalls, Successes, CallsTo
<1>7. FiredAt(c) = {} => answers[c].ok /\ Backs(s, answers[c].asked)
  BY <1>4
<1>8. ~Backs(s, answers[c].asked) => answers[c].ok /\ FiredAt(c) # {}
  BY <1>4 DEF WriteFaults
<1>. QED
  BY <1>1, <1>3, <1>5, <1>6, <1>7, <1>8 DEF c

-----------------------------------------------------------------------------
(* The report about one order. *)
ReportOn(o) ==
  IF Successes(o) = {} THEN RefundNotIssued(o)
  ELSE RefundIssued(o, SumFunction([txn \in Successes(o) |-> AmountTold(o, txn)]),
                    Cardinality(Successes(o)), FALSE)

LEMMA ReportIs ==
  ASSUME RecordInv, StoryInv, AskInv, KeysAreDerived, NEW o, NEW claim, claim = ReportOn(o)
  PROVE  /\ claim.order = o
         /\ Successes(o) = {} => claim.type = "refund_not_issued"
         /\ Successes(o) # {} =>
              /\ claim.type = "refund_issued"
              /\ claim.amount = SumFunction([txn \in Successes(o) |-> AmountTold(o, txn)])
              /\ claim.amount \in Nat
              /\ claim.count = Cardinality(Successes(o)) /\ claim.count \in Nat
              /\ claim.full = FALSE
<1>. DEFINE told == [txn \in Successes(o) |-> AmountTold(o, txn)]
<1>1. /\ claim.order = o
      /\ Successes(o) = {} => claim.type = "refund_not_issued"
      /\ Successes(o) # {} =>
           /\ claim.type = "refund_issued" /\ claim.amount = SumFunction(told)
           /\ claim.count = Cardinality(Successes(o)) /\ claim.full = FALSE
  BY DEF ReportOn, RefundNotIssued, RefundIssued, BareClaim
<1>2. SumFunction(told) \in Nat
  <2>1. IsFiniteSet(DOMAIN told) /\ \A txn \in DOMAIN told : told[txn] \in Nat
    BY SuccessesAre
  <2>. HIDE DEF told
  <2>. QED
    BY <2>1, SumOfNaturals
<1>3. Cardinality(Successes(o)) \in Nat
  BY SuccessesAre, FS_CardinalityType
<1>. QED
  BY <1>1, <1>2, <1>3

(* The requests behind a call are linked to the report about its order.    *)
LEMMA CallerIsLinked ==
  ASSUME NEW c \in DOMAIN answers, NEW o, answers[c].asked.order = o, o # NoOrder,
         NEW claim, claim.order = o
  PROVE  answers[c].intent \in infer_intents(claim)
<1>1. answers[c].intent \in NamedIntents(claim)
  BY DEF NamedIntents, IntentsOf
<1>. QED
  BY <1>1 DEF infer_intents

(* A report about an order with linked commits passes only without a       *)
(* repeat and with the figures of the commits on that order.               *)
LEMMA ReportPasses ==
  ASSUME RecordInv, SnapshotsChain, StoryInv, AskInv, KeysAreDerived,
         NEW o, o # NoOrder, NEW claim, claim = ReportOn(o),
         infer_intents(claim) # {},
         reconcile_claim(ledger, claim, Issues).status # "CONTRADICTED",
         NEW C, C = {s \in Commits : ledger[s].entity = o}
  PROVE  /\ \A s \in Commits : ledger[s].intent \in infer_intents(claim) =>
              Successes(o) # {} /\ s \notin DuplicateRefunds(ledger)
         /\ Successes(o) # {} =>
              /\ Cardinality(C) = Cardinality(Successes(o))
              /\ TotalDelta(ledger, C) = SumFunction([txn \in Successes(o) |-> AmountTold(o, txn)])
<1>. DEFINE linked == link_claim(ledger, claim)
            commits == linked.commits
            intents == infer_intents(claim)
            issues == IssuesFor(ledger, intents)
<1>1. /\ claim.order = o /\ claim.type \in {"refund_issued", "refund_not_issued"}
      /\ Successes(o) = {} <=> claim.type = "refund_not_issued"
  BY ReportIs
<1>2. linked.intents = intents /\ issues_for_intents(Issues, linked.intents) = issues
  BY LinkFields DEF IssuesFor, Issues
<1>3. /\ commits \subseteq Commits
      /\ \A s \in Commits : ledger[s].intent \in intents => s \in commits
      /\ Matching(ledger, claim, commits) = C
  BY <1>1, LinkedCommits
<1>4. CASE Successes(o) = {}
  <2>1. commits = {}
    BY <1>1, <1>4, Judged DEF ReconcileDenial, Result
  <2>. QED
    BY <1>3, <1>4, <2>1
<1>5. CASE Successes(o) # {}
  <2>1. commits # {}
    <3>1. linked.commits = {} => reconcile_claim(ledger, claim, Issues) =
                                   ReconcilePhantom(linked, issues_for_intents(Issues, linked.intents))
      BY <1>1, <1>5, Judged
    <3>2. IsLinked(linked)
      BY <1>2 DEF IsLinked
    <3>3. ReconcilePhantom(linked, issues_for_intents(Issues, linked.intents)).status = "CONTRADICTED"
      BY <3>2, PhantomJudged
    <3>. QED
      BY <3>1, <3>3
  <2>2. reconcile_claim(ledger, claim, Issues) = ReconcileCommits(ledger, claim, commits, issues)
    BY <1>1, <1>2, <1>5, <2>1, Judged
  <2>3. FigureConflicts(ledger, claim, commits) = {} /\ MaterialFirsts(issues) = {}
    <3>1. PICK bad : bad = FigureConflicts(ledger, claim, commits) \cup MaterialFirsts(issues)
      OBVIOUS
    <3>2. reconcile_claim(ledger, claim, Issues).status = IF bad = {} THEN "SUPPORTED" ELSE "CONTRADICTED"
      BY <2>2, <3>1, CommitsJudged
    <3>. QED
      BY <3>1, <3>2
  <2>4. ASSUME NEW s \in Commits, ledger[s].intent \in intents
        PROVE  s \notin DuplicateRefunds(ledger)
    <3>1. RepeatsIn(ledger, intents) = {}
      BY <2>3, RepeatsAre DEF MaterialFirsts
    <3>2. ASSUME s \in DuplicateRefunds(ledger)
          PROVE  s \in RepeatsIn(ledger, intents)
      <4>1. PICK t : <<t, s>> \in AdjacentCommits(ledger, ledger[s].intent)
        BY <3>2, EarlierCommit DEF RecordInv
      <4>2. <<t, s>>[2] = s /\ s \in DOMAIN ledger
        BY DEF Commits, EventsOf
      <4>. QED
        BY <2>4, <4>1, <4>2 DEF RepeatsIn
    <3>. QED
      BY <3>1, <3>2
  <2>5. PICK valued : valued = ValuedCommits(ledger, claim, commits)
    OBVIOUS
  <2>6. claim.count \in Nat /\ claim.amount \in Nat
    BY <1>5, ReportIs
  <2>7. /\ Matching(ledger, claim, commits) # {}
        /\ claim.amount # NoAmount => TotalDelta(ledger, valued) = claim.amount
        /\ Cardinality(valued) = claim.count
    <3>1. FigureConflicts(ledger, claim, commits) = {}
      BY <2>3
    <3>. HIDE DEF commits
    <3>. QED
      BY <1>1, <1>3, <2>1, <2>5, <2>6, <3>1, NoConflict
  <2>8. valued = C
    BY <1>3, <2>5, <2>7 DEF ValuedCommits
  <2>9. claim.amount # NoAmount
    BY <2>6 DEF NoAmount
  <2>10. /\ claim.count = Cardinality(Successes(o))
         /\ claim.amount = SumFunction([txn \in Successes(o) |-> AmountTold(o, txn)])
    BY <1>5, ReportIs
  <2>. QED
    BY <1>5, <2>4, <2>7, <2>8, <2>9, <2>10
<1>. QED
  BY <1>4, <1>5

(* The report about the order a lying call was asked to refund does not    *)
(* pass: either it counts a success that is no commit of that order, or    *)
(* the same commits add up to something else.                              *)
LEMMA LiarIsCaught ==
  ASSUME RecordInv, SnapshotsChain, StoryInv, ScheduleInv, FiredAsPlanned, AskInv,
         OneFault, KeysAreDerived,
         NEW o, o # NoOrder, NEW c \in SuccessCalls(o), FiredAt(c) # {},
         NEW told, told = answers[c].txn,
         told \in Commits => ledger[told].call = c /\ ~Backs(told, ledger[told].asked)
  PROVE  reconcile_claim(ledger, ReportOn(o), Issues).status = "CONTRADICTED"
<1>. PICK claim : claim = ReportOn(o)
  OBVIOUS
<1>. PICK C : C = {s \in Commits : ledger[s].entity = o}
  OBVIOUS
<1>. SUFFICES ASSUME reconcile_claim(ledger, claim, Issues).status # "CONTRADICTED"
              PROVE  FALSE
  OBVIOUS
<1>1. /\ c \in DOMAIN answers /\ answers[c].ok /\ answers[c].asked.order = o
      /\ told \in Successes(o)
      /\ told \in Commits => ledger[told].asked = answers[c].asked
  <2>1. told \in Successes(o)
    BY DEF Successes
  <2>2. \A s \in Commits : s \in Nat
    BY LedgerRows DEF RecordInv, Commits, EventsOf
  <2>. QED
    BY <2>1, <2>2, SuccessNames
<1>2. infer_intents(claim) # {}
  <2>1. claim.order = o
    BY ReportIs
  <2>. QED
    BY <1>1, <2>1, CallerIsLinked
<1>3. /\ Cardinality(C) = Cardinality(Successes(o))
      /\ TotalDelta(ledger, C) = SumFunction([txn \in Successes(o) |-> AmountTold(o, txn)])
  BY <1>1, <1>2, ReportPasses
<1>4. ASSUME NEW s \in Commits, s # told
      PROVE  /\ Backs(s, ledger[s].asked)
             /\ s \in Successes(ledger[s].asked.order)
  <2>1. ledger[s].call # c
    BY <1>1, <1>4, CommitsTold DEF RecordInv
  <2>2. FiredAt(ledger[s].call) = {}
    BY <2>1, OnlyOneFires DEF RecordInv
  <2>. QED
    BY <2>2, CommitsTold DEF RecordInv
<1>5. C \subseteq Successes(o)
  <2>. SUFFICES ASSUME NEW s \in C, s # told
                PROVE  s \in Successes(o)
    BY <1>1
  <2>. QED
    BY <1>4 DEF Backs
<1>6. C = Successes(o)
  BY <1>3, <1>5, SuccessesAre, FS_Subset
<1>7. told \in C /\ told \in Commits /\ ledger[told].committed # ledger[told].asked.amount
  BY <1>1, <1>6 DEF Backs
<1>. DEFINE deltas == [s \in C |-> refund_delta(ledger[s])]
            amounts == [s \in C |-> AmountTold(o, s)]
<1>8. ASSUME NEW s \in C
      PROVE  /\ deltas[s] = ledger[s].committed /\ deltas[s] \in Int
             /\ amounts[s] = ledger[s].asked.amount /\ amounts[s] \in Int
             /\ s # told => ledger[s].committed = ledger[s].asked.amount
  BY <1>4, <1>6, CommitDelta, SuccessesAre DEF RecordInv, Backs
<1>9. /\ DOMAIN deltas = C /\ DOMAIN amounts = C /\ IsFiniteSet(C)
      /\ TotalDelta(ledger, C) = SumFunction(deltas)
      /\ SumFunction([txn \in Successes(o) |-> AmountTold(o, txn)]) = SumFunction(amounts)
  BY <1>6, SuccessesAre DEF TotalDelta
<1>. HIDE DEF deltas, amounts
<1>10. SumFunction(deltas) # SumFunction(amounts)
  BY <1>7, <1>8, <1>9, SumsDiffer
<1>. QED
  BY <1>3, <1>9, <1>10

(* A request that was refunded twice spoils the report about its order. *)
LEMMA RepeatIsCaught ==
  ASSUME RecordInv, SnapshotsChain, StoryInv, AskInv, KeysAreDerived,
         NEW s \in DuplicateRefunds(ledger), NEW o, o = ledger[s].asked.order, o # NoOrder
  PROVE  reconcile_claim(ledger, ReportOn(o), Issues).status = "CONTRADICTED"
<1>. PICK claim : claim = ReportOn(o)
  OBVIOUS
<1>. PICK C : C = {t \in Commits : ledger[t].entity = o}
  OBVIOUS
<1>1. s \in Commits
  BY DEF DuplicateRefunds, Typed, Commits, EventsOf
<1>2. ledger[s].intent \in infer_intents(claim)
  <2>1. claim.order = o
    BY ReportIs
  <2>2. /\ ledger[s].call \in DOMAIN answers
        /\ answers[ledger[s].call].asked = ledger[s].asked
        /\ answers[ledger[s].call].intent = ledger[s].intent
    BY <1>1, CommitRow DEF RecordInv
  <2>. QED
    BY <2>1, <2>2, CallerIsLinked
<1>. QED
  BY <1>1, <1>2, ReportPasses

(* Every anomaly spoils the report about an order the agent asked for. *)
LEMMA AnomalyIsCaught ==
  ASSUME RecordInv, SnapshotsChain, StoryInv, ScheduleInv, FiredAsPlanned, AskInv,
         OneFault, KeysAreDerived, Anomalies(ledger) # {}
  PROVE  \E o \in AskedFor : reconcile_claim(ledger, ReportOn(o), Issues).status = "CONTRADICTED"
<1>1. PICK s \in Anomalies(ledger) : TRUE
  OBVIOUS
<1>2. \A ask \in Ask : ask.order # NoOrder
  BY OrdersAssumption DEF Ask, AnyOrder
<1>3. ASSUME s \in Commits
      PROVE  /\ ledger[s].asked.order \in AskedFor /\ ledger[s].asked.order # NoOrder
  <2>1. /\ ledger[s].call \in DOMAIN answers /\ answers[ledger[s].call].tool = ISSUE_REFUND
        /\ answers[ledger[s].call].asked = ledger[s].asked /\ ledger[s].asked \in Ask
    BY <1>3, CommitsTold DEF RecordInv
  <2>. QED
    BY <1>2, <2>1 DEF AskedFor, CallsTo
<1>4. CASE s \in DuplicateRefunds(ledger)
  <2>1. s \in Commits
    BY <1>4 DEF DuplicateRefunds, Typed, Commits, EventsOf
  <2>. QED
    BY <1>3, <1>4, <2>1, RepeatIsCaught
<1>5. CASE s \in MisroutedWrites(ledger) \/ s \in AmountMismatches(ledger)
  <2>1. s \in Commits
    BY <1>5 DEF MisroutedWrites, AmountMismatches, Typed, Commits, EventsOf
  <2>2. ~Backs(s, ledger[s].asked)
    BY <1>5, <2>1, DoesWhatIsAsked DEF RecordInv
  <2>. PICK o : o = ledger[s].asked.order
    OBVIOUS
  <2>. PICK c : c = ledger[s].call
    OBVIOUS
  <2>3. answers[c].ok /\ FiredAt(c) # {} /\ answers[c].txn = s /\ c \in SuccessCalls(o)
    BY <2>1, <2>2, CommitsTold DEF RecordInv
  <2>. QED
    BY <1>3, <2>1, <2>2, <2>3, LiarIsCaught
<1>6. CASE s \in PhantomSuccesses(ledger)
  <2>1. /\ s \in DOMAIN ledger /\ ledger[s].type = "tool_call_completed"
        /\ ledger[s].tool = ISSUE_REFUND
        /\ \A t \in DOMAIN ledger : ledger[t].type \in {"state_changed", "idempotent_replay"}
                                      => ledger[t].call # ledger[s].call
    BY <1>6 DEF PhantomSuccesses, Typed, CallsOf
  <2>. PICK c : c = ledger[s].call
    OBVIOUS
  <2>2. c \in DOMAIN answers /\ \E t \in Nat : TellsInvented(c, t)
    BY <2>1, PhantomRow DEF RecordInv
  <2>3. /\ answers[c].tool = ISSUE_REFUND /\ answers[c].ok /\ answers[c].txn < 0
        /\ answers[c].asked \in Ask /\ FiredAt(c) # {}
    BY <2>2 DEF TellsInvented, Tells
  <2>. PICK o : o = answers[c].asked.order
    OBVIOUS
  <2>4. c \in SuccessCalls(o) /\ o \in AskedFor /\ o # NoOrder
    BY <1>2, <2>2, <2>3 DEF SuccessCalls, AskedFor, CallsTo
  <2>5. answers[c].txn \notin Commits
    <3>1. \A t \in Commits : t \in Nat
      BY LedgerRows DEF RecordInv, Commits, EventsOf
    <3>. QED
      BY <2>3, <3>1
  <2>. QED
    BY <2>3, <2>4, <2>5, LiarIsCaught
<1>. QED
  BY <1>1, <1>4, <1>5, <1>6 DEF Anomalies

(* Whenever the label builder finds an anomaly, the report of an agent     *)
(* that believes its tools is contradicted (auditor/pipeline.py run), if   *)
(* at most one fault is injected, as in every scenario family              *)
(* (scenarios/families.py), and keys are derived from what is asked, as    *)
(* the agent loop's are.                                                   *)
THEOREM BelievedLiesShow == OneFault /\ KeysAreDerived => (Spec => []BelievedLiesAreCaught)
<1>. SUFFICES ASSUME OneFault, KeysAreDerived
              PROVE  Spec => []BelievedLiesAreCaught
  OBVIOUS
<1>1. Init => AskInv /\ FiredAsPlanned /\ ScheduleInv
  <2>1. Init => AskInv /\ FiredAsPlanned
    BY DEF Init, AskInv, FiredAsPlanned
  <2>. QED
    BY <2>1, ScheduleInit
<1>2. TypeInv /\ AskInv /\ [Next]_vars => AskInv'
  BY AskStep
<1>3. TypeInv /\ FiredAsPlanned /\ [Next]_vars => FiredAsPlanned'
  BY PlanStep
<1>4. RecordInv /\ StoryInv /\ ScheduleInv /\ [Next]_vars => ScheduleInv'
  BY ScheduleStep
<1>5. RecordInv => TypeInv
  BY DEF RecordInv
<1>6. RecordInv /\ SnapshotsChain /\ StoryInv /\ ScheduleInv /\ FiredAsPlanned /\ AskInv
        => BelievedLiesAreCaught
  <2>. SUFFICES ASSUME RecordInv, SnapshotsChain, StoryInv, ScheduleInv, FiredAsPlanned, AskInv,
                       Label.verdict = "CONTRADICTED"
                PROVE  run(ledger, BelievingReport, TRUE).verdict = "CONTRADICTED"
    BY DEF BelievedLiesAreCaught
  <2>1. Anomalies(ledger) # {}
    BY LabelIs
  <2>2. PICK o \in AskedFor : reconcile_claim(ledger, ReportOn(o), Issues).status = "CONTRADICTED"
    BY <2>1, AnomalyIsCaught
  <2>3. ReportOn(o) \in BelievingReport
    BY DEF ReportOn, BelievingReport
  <2>. DEFINE statuses == {r.status : r \in {reconcile_claim(ledger, x, Issues) : x \in BelievingReport}}
  <2>4. "CONTRADICTED" \in statuses
    BY <2>2, <2>3
  <2>5. run(ledger, BelievingReport, TRUE).verdict = aggregate_verdict(statuses)
    BY DEF run, TemporalIssues, Issues
  <2>. HIDE DEF statuses
  <2>6. aggregate_verdict(statuses) = "CONTRADICTED"
    BY <2>4 DEF aggregate_verdict
  <2>. QED
    BY <2>5, <2>6
<1>. QED
  BY <1>1, <1>2, <1>3, <1>4, <1>5, <1>6, StoryInvariant, PTL DEF Spec
=============================================================================
