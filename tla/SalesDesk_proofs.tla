-------------------------- MODULE SalesDesk_proofs --------------------------
(***************************************************************************)
(* Theorems about SalesDesk, for any PO references, values, limit, users   *)
(* and bounds.                                                             *)
(***************************************************************************)
EXTENDS SalesDesk, FiniteSetTheorems, TLAPS

\* The numbers given out so far, and no others, have an order.
PlacedHaveOrders == \A o \in 1..MaxOrders : o \in Placed <=> orders[o] \in Order

\* The index of PO references names an order of that reference ...
IndexNamesItsOrder ==
  \A p \in Pos : byPo[p] # 0 => byPo[p] \in Placed /\ orders[byPo[p]].po = p

\* ... and every order that counts is the one its reference leads to.
CountingIsIndexed ==
  \A o \in Placed : Live(o) /\ orders[o].po # NoPo => byPo[orders[o].po] = o

\* An order whose goods are out is neither open nor closed any more.
DespatchedIsInProcess ==
  \A o \in despatched : o \in Placed /\ orders[o].status = "InProcess"

\* A call that is under way was begun on a quotation that SAP has.
CallsAreOnQuotations ==
  \A b \in Buyers :
    call[b].does \in {"convert", "create", "revise"} => quotation[call[b].i] \in Quotation

BookInv == BookTypeOK /\ PlacedHaveOrders /\ IndexNamesItsOrder /\ CountingIsIndexed
             /\ DespatchedIsInProcess /\ LimitIsKept

DeskInv == TypeOK /\ CallsAreOnQuotations /\ RevisionsAreAnnounced

Inv == BookInv /\ DeskInv

----------------------------------------------------------------------------
(* Sums over finite sets                                                   *)
(*                                                                         *)
(* The fold of the library is a recursive function on the subsets of a     *)
(* set.  Without an induction to instantiate, what it computes is proved   *)
(* from a smallest set on which it would not.  As in Payment_proofs.        *)

Pick(S) == CHOOSE x \in S : TRUE

\* h is the recursive function that adds up f on the subsets of U.
AddsUp(h, f, U) ==
  h = [S \in SUBSET U |-> IF S = {} THEN 0 ELSE f[Pick(S)] + h[S \ {Pick(S)}]]

Total(f, U) == (CHOOSE h : AddsUp(h, f, U))[U]

\* An element to start with.
LEMMA PickIsIn == ASSUME NEW S, S # {} PROVE Pick(S) \in S
  BY DEF Pick

\* Of some sets of elements of a finite set, one has none of the others inside.
LEMMA SmallestSet ==
  ASSUME NEW U, IsFiniteSet(U), NEW T, T \subseteq SUBSET U, T # {}
  PROVE  \E S \in T : \A R \in SUBSET S : R # S => R \notin T
<1>1. IsWellFoundedOn(StrictSubsetOrdering(U), SUBSET U)
  BY FS_StrictSubsetOrderingWellFounded, FS_FiniteSubsetsOfFinite
<1>2. PICK S \in T : \A R \in T : <<R, S>> \notin StrictSubsetOrdering(U)
  BY <1>1, WFMin
<1>3. ASSUME NEW R \in SUBSET S, R # S, R \in T PROVE FALSE
  BY <1>2, <1>3 DEF StrictSubsetOrdering
<1> QED
  BY <1>3

\* Two such functions give the same for a set that both know, when what they
\* add up is the same there.
LEMMA AddUpAlike ==
  ASSUME NEW h1, NEW f1, NEW U1, AddsUp(h1, f1, U1),
         NEW h2, NEW f2, NEW U2, AddsUp(h2, f2, U2),
         NEW S, IsFiniteSet(S), S \subseteq U1, S \subseteq U2,
         \A x \in S : f1[x] = f2[x]
  PROVE  h1[S] = h2[S]
<1> DEFINE T == {R \in SUBSET S : h1[R] # h2[R]}
<1>1. ASSUME T # {} PROVE FALSE
  <2>0. T \subseteq SUBSET S
    OBVIOUS
  <2> HIDE DEF T
  <2>1. PICK R \in T : \A Q \in SUBSET R : Q # R => Q \notin T
    BY <1>1, <2>0, SmallestSet
  <2> USE DEF T
  <2>2. /\ h1[R] = IF R = {} THEN 0 ELSE f1[Pick(R)] + h1[R \ {Pick(R)}]
        /\ h2[R] = IF R = {} THEN 0 ELSE f2[Pick(R)] + h2[R \ {Pick(R)}]
    BY DEF AddsUp
  <2>3. CASE R = {}
    BY <2>2, <2>3
  <2>4. CASE R # {}
    <3>1. Pick(R) \in R /\ f1[Pick(R)] = f2[Pick(R)]
      BY <2>4, PickIsIn
    <3>2. h1[R \ {Pick(R)}] = h2[R \ {Pick(R)}]
      BY <2>1, <3>1
    <3> QED
      BY <2>2, <2>4, <3>1, <3>2
  <2> QED
    BY <2>3, <2>4
<1> QED
  BY <1>1

\* There is such a function for every finite set.
LEMMA AddsUpExists == ASSUME NEW f, NEW U, IsFiniteSet(U) PROVE \E h : AddsUp(h, f, U)
<1> DEFINE T == {V \in SUBSET U : ~ \E h : AddsUp(h, f, V)}
<1>1. ASSUME T # {} PROVE FALSE
  <2>0. T \subseteq SUBSET U
    OBVIOUS
  <2> HIDE DEF T
  <2>1. PICK V \in T : \A W \in SUBSET V : W # V => W \notin T
    BY <1>1, <2>0, SmallestSet
  <2> USE DEF T
  <2>2. IsFiniteSet(V)
    BY FS_Subset
  <2> DEFINE H(W) == CHOOSE h : AddsUp(h, f, W)
             all == [S \in SUBSET V |-> IF S = {} THEN 0
                                        ELSE f[Pick(S)] + H(S \ {Pick(S)})[S \ {Pick(S)}]]
  <2>3. ASSUME NEW W \in SUBSET V, W # V PROVE AddsUp(H(W), f, W)
    <3>1. \E h : AddsUp(h, f, W)
      BY <2>1, <2>3
    <3> QED
      BY <3>1
  <2>4. ASSUME NEW W \in SUBSET V, W # V PROVE all[W] = H(W)[W]
    <3>0. AddsUp(H(W), f, W)
      BY <2>3, <2>4
    <3> HIDE DEF H
    <3>1. H(W)[W] = IF W = {} THEN 0 ELSE f[Pick(W)] + H(W)[W \ {Pick(W)}]
      BY <3>0 DEF AddsUp
    <3>2. CASE W = {}
      BY <3>1, <3>2
    <3>3. CASE W # {}
      <4> DEFINE R == W \ {Pick(W)}
      <4>1. R \in SUBSET V /\ R # V /\ R \subseteq W /\ IsFiniteSet(R)
        BY <2>2, <2>4, <3>3, PickIsIn, FS_Subset
      <4>2. AddsUp(H(R), f, R)
        BY <2>3, <4>1
      <4>3. H(W)[R] = H(R)[R]
        BY <3>0, <4>1, <4>2, AddUpAlike
      <4> QED
        BY <3>1, <3>3, <4>3
    <3> QED
      BY <3>2, <3>3
  <2> HIDE DEF H
  <2>5. ASSUME NEW S \in SUBSET V, S # {} PROVE all[S] = f[Pick(S)] + all[S \ {Pick(S)}]
    <3>1. S \ {Pick(S)} \in SUBSET V /\ S \ {Pick(S)} # V
      BY <2>5, PickIsIn
    <3>2. all[S \ {Pick(S)}] = H(S \ {Pick(S)})[S \ {Pick(S)}]
      BY <2>4, <3>1
    <3> QED
      BY <2>5, <3>2
  <2>6. AddsUp(all, f, V)
    <3>1. all = [S \in SUBSET V |-> IF S = {} THEN 0 ELSE f[Pick(S)] + all[S \ {Pick(S)}]]
      BY <2>5
    <3> QED
      BY <3>1 DEF AddsUp
  <2> QED
    BY <2>6
<1>2. U \notin T
  BY <1>1
<1> QED
  BY <1>2

\* It can be read off any function that adds up.
LEMMA TotalIs ==
  ASSUME NEW h, NEW f, NEW g, NEW U, AddsUp(h, f, U), IsFiniteSet(U),
         NEW S, S \subseteq U, \A x \in S : f[x] = g[x]
  PROVE  h[S] = Total(g, S)
<1>1. IsFiniteSet(S)
  BY FS_Subset
<1>2. AddsUp(CHOOSE k : AddsUp(k, g, S), g, S)
  BY <1>1, AddsUpExists
<1> HIDE DEF AddsUp
<1>3. h[S] = (CHOOSE k : AddsUp(k, g, S))[S]
  BY <1>1, <1>2, AddUpAlike
<1> QED
  BY <1>3 DEF Total

\* Nothing adds up to nothing; the first element is added to the rest.
LEMMA TotalPick ==
  ASSUME NEW f, NEW U, IsFiniteSet(U)
  PROVE  Total(f, U) = IF U = {} THEN 0 ELSE f[Pick(U)] + Total(f, U \ {Pick(U)})
<1>1. PICK h : AddsUp(h, f, U)
  BY AddsUpExists
<1>2. h[U] = Total(f, U) /\ h[U \ {Pick(U)}] = Total(f, U \ {Pick(U)})
  BY <1>1, TotalIs
<1>3. h[U] = IF U = {} THEN 0 ELSE f[Pick(U)] + h[U \ {Pick(U)}]
  BY <1>1 DEF AddsUp
<1> QED
  BY <1>2, <1>3

\* Whole numbers add up to a whole number, natural ones to a natural one.
LEMMA TotalType ==
  ASSUME NEW f, NEW U, IsFiniteSet(U), \A x \in U : f[x] \in Int
  PROVE  Total(f, U) \in Int /\ ((\A x \in U : f[x] >= 0) => Total(f, U) >= 0)
<1> DEFINE Good(S) == Total(f, S) \in Int /\ ((\A x \in U : f[x] >= 0) => Total(f, S) >= 0)
           T == {S \in SUBSET U : ~Good(S)}
<1>1. ASSUME T # {} PROVE FALSE
  <2>0. T \subseteq SUBSET U
    OBVIOUS
  <2> HIDE DEF T
  <2>1. PICK S \in T : \A R \in SUBSET S : R # S => R \notin T
    BY <1>1, <2>0, SmallestSet
  <2> USE DEF T
  <2>2. Total(f, S) = IF S = {} THEN 0 ELSE f[Pick(S)] + Total(f, S \ {Pick(S)})
    BY TotalPick, FS_Subset
  <2>3. S # {} => Good(S \ {Pick(S)}) /\ Pick(S) \in U
    BY <2>1, PickIsIn
  <2> QED
    BY <2>2, <2>3
<1> QED
  BY <1>1

\* The order does not matter: any element can be taken out first.
LEMMA TotalRemove ==
  ASSUME NEW f, NEW U, IsFiniteSet(U), \A x \in U : f[x] \in Int, NEW x \in U
  PROVE  Total(f, U) = f[x] + Total(f, U \ {x})
<1> DEFINE T == {S \in SUBSET U : \E y \in S : Total(f, S) # f[y] + Total(f, S \ {y})}
<1>1. ASSUME T # {} PROVE FALSE
  <2>0. T \subseteq SUBSET U
    OBVIOUS
  <2> HIDE DEF T
  <2>1. PICK S \in T : \A R \in SUBSET S : R # S => R \notin T
    BY <1>1, <2>0, SmallestSet
  <2> USE DEF T
  <2>2. PICK y \in S : Total(f, S) # f[y] + Total(f, S \ {y})
    BY <2>1
  <2> DEFINE z == Pick(S)
  <2>3. z \in S
    BY <2>2, PickIsIn
  <2> HIDE DEF z
  <2>4. Total(f, S) = f[z] + Total(f, S \ {z})
    BY <2>2, TotalPick, FS_Subset DEF z
  <2>5. y # z
    BY <2>2, <2>4
  <2>6. Total(f, S \ {z}) = f[y] + Total(f, (S \ {z}) \ {y})
    BY <2>1, <2>3, <2>5
  <2>7. Total(f, S \ {y}) = f[z] + Total(f, (S \ {y}) \ {z})
    BY <2>1, <2>3, <2>5
  <2>8. (S \ {z}) \ {y} = (S \ {y}) \ {z}
    OBVIOUS
  <2>9. f[y] \in Int /\ f[z] \in Int /\ Total(f, (S \ {y}) \ {z}) \in Int
    <3>1. IsFiniteSet((S \ {y}) \ {z})
      BY FS_Subset
    <3> QED
      BY <2>3, <3>1, TotalType
  <2> DEFINE rest == Total(f, (S \ {y}) \ {z})
  <2>10. /\ rest \in Int /\ f[y] \in Int /\ f[z] \in Int
         /\ Total(f, S) = f[z] + (f[y] + rest) /\ Total(f, S \ {y}) = f[z] + rest
    BY <2>4, <2>6, <2>7, <2>8, <2>9
  <2> HIDE DEF rest
  <2> QED
    BY <2>2, <2>10
<1> QED
  BY <1>1

\* An element that is added adds what it is worth.
LEMMA TotalAdd ==
  ASSUME NEW f, NEW U, IsFiniteSet(U), NEW x, x \notin U,
         \A y \in U \union {x} : f[y] \in Int
  PROVE  Total(f, U \union {x}) = f[x] + Total(f, U)
<1>1. IsFiniteSet(U \union {x}) /\ (U \union {x}) \ {x} = U
  BY FS_AddElement
<1> QED
  BY <1>1, TotalRemove

----------------------------------------------------------------------------
(* The book                                                                *)

LEMMA OrderFields ==
  ASSUME NEW x \in Order
  PROVE  /\ x.po \in Pos \union {NoPo} /\ x.value \in Values
         /\ x.status \in {"Open", "InProcess", "Closed"}
         /\ x.credit \in {"CreditHold", "Confirmed"}
         /\ x # NoOrder
BY DEF Order, NoOrder

\* Placing an order keeps the book in order.
LEMMA CreatePreserves ==
  ASSUME BookInv, NEW po \in Pos \union {NoPo}, NEW value \in Values, CreateSalesOrder(po, value)
  PROVE  BookInv' /\ placed \in 0..MaxOrders /\ OrderOf(po) \in 1..MaxOrders
<1> USE BookAssumption DEF BookAssumption
<1>t. BookTypeOK /\ PlacedHaveOrders /\ IndexNamesItsOrder /\ CountingIsIndexed
      /\ DespatchedIsInProcess /\ LimitIsKept
  BY DEF BookInv
<1>1. CASE ~IsNew(po)
  <2>1. UNCHANGED bookVars
    BY <1>1 DEF CreateSalesOrder
  <2>2. BookInv'
    BY <2>1 DEF bookVars, BookInv, BookTypeOK, PlacedHaveOrders, IndexNamesItsOrder,
                CountingIsIndexed, DespatchedIsInProcess, LimitIsKept, Placed, Live
  <2>3. OrderOf(po) \in 1..MaxOrders
    BY <1>1, <1>t DEF OrderOf, IsNew, BookTypeOK
  <2> QED
    BY <2>2, <2>3, <1>t DEF BookTypeOK
<1>2. CASE IsNew(po)
  <2> DEFINE n == placed + 1
             new == [po |-> po, value |-> value, status |-> "Open",
                     credit |-> IF Fails(value) THEN "CreditHold" ELSE "Confirmed"]
  <2>1. /\ placed < MaxOrders /\ placed' = n
        /\ orders' = [orders EXCEPT ![n] = new]
        /\ byPo' = [p \in Pos |-> IF p = po THEN n ELSE byPo[p]]
        /\ utilized' = IF Fails(value) THEN utilized ELSE utilized + value
        /\ UNCHANGED <<blocked, blocks, despatched>>
    BY <1>2 DEF CreateSalesOrder
  <2>2. n \in 1..MaxOrders /\ n \notin Placed /\ Placed' = Placed \union {n}
        /\ Placed \subseteq 1..MaxOrders
    BY <2>1, <1>t DEF BookTypeOK, Placed
  <2>3. new \in Order /\ new.po = po /\ new.status = "Open"
    BY DEF Order
  <2> HIDE DEF new
  <2>4. orders'[n] = new /\ \A o \in Placed : orders'[o] = orders[o]
    BY <2>1, <2>2, <1>t DEF BookTypeOK
  <2>5. \A p \in Pos : byPo'[p] = IF p = po THEN n ELSE byPo[p]
    BY <2>1
  <2> HIDE DEF n
  <2>6. BookTypeOK'
    BY <2>1, <2>2, <2>3, <1>t DEF BookTypeOK
  <2>7. PlacedHaveOrders'
    <3>1. ASSUME NEW o \in 1..MaxOrders, o # n PROVE orders'[o] = orders[o] /\ (o \in Placed' <=> o \in Placed)
      BY <2>1, <2>2, <3>1, <1>t DEF BookTypeOK
    <3> QED
      BY <3>1, <2>2, <2>3, <2>4, <1>t DEF PlacedHaveOrders
  <2>8. IndexNamesItsOrder'
    <3> SUFFICES ASSUME NEW p \in Pos, byPo'[p] # 0
                 PROVE  byPo'[p] \in Placed' /\ orders'[byPo'[p]].po = p
      BY DEF IndexNamesItsOrder
    <3>1. CASE p = po
      BY <3>1, <2>2, <2>3, <2>4, <2>5
    <3>2. CASE p # po
      <4>1. byPo'[p] = byPo[p] /\ byPo[p] \in Placed /\ orders[byPo[p]].po = p
        BY <3>2, <2>5, <1>t DEF IndexNamesItsOrder
      <4> QED
        BY <4>1, <2>2, <2>4
    <3> QED
      BY <3>1, <3>2
  <2>9. CountingIsIndexed'
    <3> SUFFICES ASSUME NEW o \in Placed', orders'[o].status # "Closed", orders'[o].po # NoPo
                 PROVE  byPo'[orders'[o].po] = o
      BY DEF CountingIsIndexed, Live
    <3>1. CASE o = n
      BY <3>1, <2>3, <2>4, <2>5
    <3>2. CASE o # n
      <4>1. o \in Placed /\ orders'[o] = orders[o] /\ orders[o] \in Order
        BY <3>2, <2>2, <2>4, <1>t DEF PlacedHaveOrders
      <4>2. byPo[orders[o].po] = o /\ orders[o].po \in Pos
        BY <4>1, <1>t, OrderFields DEF CountingIsIndexed, Live
      <4>3. o # 0
        BY <4>1, <1>t DEF Placed, BookTypeOK
      <4>4. orders[o].po # po
        BY <1>2, <4>2, <4>3 DEF IsNew
      <4> QED
        BY <4>1, <4>2, <4>4, <2>5
    <3> QED
      BY <3>1, <3>2
  <2>10. DespatchedIsInProcess'
    BY <2>1, <2>2, <2>4, <1>t DEF DespatchedIsInProcess
  <2>11. LimitIsKept'
    BY <2>1, <1>t DEF LimitIsKept, Fails, BookTypeOK
  <2> QED
    BY <2>2, <2>6, <2>7, <2>8, <2>9, <2>10, <2>11, <1>2, <1>t DEF BookInv, OrderOf, BookTypeOK, n
<1> QED
  BY <1>1, <1>2

\* So does cancelling one.
LEMMA CancelPreserves ==
  ASSUME BookInv, NEW o \in 1..MaxOrders, CancelSalesOrder(o)
  PROVE  BookInv'
<1> USE BookAssumption DEF BookAssumption
<1>t. BookTypeOK /\ PlacedHaveOrders /\ IndexNamesItsOrder /\ CountingIsIndexed
      /\ DespatchedIsInProcess /\ LimitIsKept
  BY DEF BookInv
<1> DEFINE new == [orders[o] EXCEPT !.status = "Closed"]
<1>1. /\ o \in Placed /\ orders[o].status = "Open"
      /\ utilized' = IF Held(o) THEN utilized ELSE utilized - orders[o].value
      /\ orders' = [orders EXCEPT ![o] = new]
      /\ byPo' = [p \in Pos |-> IF p = orders[o].po THEN 0 ELSE byPo[p]]
      /\ UNCHANGED <<placed, blocked, blocks, despatched>>
  BY DEF CancelSalesOrder, Live, Closed, ForgetPo
<1>2. orders[o] \in Order /\ orders[o].value \in Nat \ {0}
  BY <1>1, <1>t, OrderFields DEF PlacedHaveOrders
<1>3. new \in Order /\ new.status = "Closed" /\ new.po = orders[o].po
  BY <1>2 DEF Order
<1> HIDE DEF new
<1>4. orders'[o] = new /\ \A x \in 1..MaxOrders : x # o => orders'[x] = orders[x]
  BY <1>1, <1>t DEF BookTypeOK
<1>5. Placed' = Placed /\ Placed \subseteq 1..MaxOrders
  BY <1>1, <1>t DEF Placed, BookTypeOK
<1>6. \A p \in Pos : byPo'[p] = IF p = orders[o].po THEN 0 ELSE byPo[p]
  BY <1>1
<1>7. BookTypeOK'
  <2>1. utilized' \in Int
    BY <1>1, <1>2, <1>t DEF BookTypeOK
  <2>2. orders' \in [1..MaxOrders -> Order \union {NoOrder}]
    BY <1>1, <1>3, <1>t DEF BookTypeOK
  <2>3. byPo' \in [Pos -> 0..MaxOrders]
    BY <1>1, <1>t DEF BookTypeOK
  <2> QED
    BY <1>1, <2>1, <2>2, <2>3, <1>t DEF BookTypeOK
<1>8. PlacedHaveOrders'
  BY <1>1, <1>3, <1>4, <1>5, <1>t DEF PlacedHaveOrders
<1>9. IndexNamesItsOrder'
  <2> SUFFICES ASSUME NEW p \in Pos, byPo'[p] # 0
               PROVE  byPo'[p] \in Placed /\ orders'[byPo'[p]].po = p
    BY <1>5 DEF IndexNamesItsOrder
  <2>1. byPo'[p] = byPo[p] /\ byPo[p] \in Placed /\ orders[byPo[p]].po = p /\ p # orders[o].po
    BY <1>6, <1>t DEF IndexNamesItsOrder
  <2>2. byPo[p] # o
    BY <2>1
  <2> QED
    BY <2>1, <2>2, <1>4, <1>5
<1>10. CountingIsIndexed'
  <2> SUFFICES ASSUME NEW x \in Placed, orders'[x].status # "Closed", orders'[x].po # NoPo
               PROVE  byPo'[orders'[x].po] = x
    BY <1>5 DEF CountingIsIndexed, Live
  <2>1. x # o /\ orders'[x] = orders[x] /\ orders[x] \in Order
    BY <1>3, <1>4, <1>5, <1>t DEF PlacedHaveOrders
  <2>2. byPo[orders[x].po] = x /\ orders[x].po \in Pos
    BY <2>1, <1>t, OrderFields DEF CountingIsIndexed, Live
  <2>3. ASSUME orders[x].po = orders[o].po PROVE FALSE
    <3>1. byPo[orders[o].po] = o
      BY <1>1, <2>1, <2>3, <1>t DEF CountingIsIndexed, Live
    <3> QED
      BY <2>1, <2>2, <2>3, <3>1
  <2> QED
    BY <2>1, <2>2, <2>3, <1>6
<1>11. DespatchedIsInProcess'
  BY <1>1, <1>4, <1>5, <1>t DEF DespatchedIsInProcess
<1>12. LimitIsKept'
  BY <1>1, <1>2, <1>t DEF LimitIsKept, BookTypeOK
<1> QED
  BY <1>7, <1>8, <1>9, <1>10, <1>11, <1>12 DEF BookInv

\* A step that leaves the reference of an order alone, and reopens nothing,
\* keeps the index right.
LEMMA IndexFrame ==
  ASSUME BookInv, NEW o \in 1..MaxOrders, o \in Placed, NEW new \in Order,
         orders' = [orders EXCEPT ![o] = new], new.po = orders[o].po,
         new.status = "Closed" <=> orders[o].status = "Closed",
         o \in despatched' => new.status = "InProcess",
         \A x \in despatched' : x # o => x \in despatched,
         UNCHANGED <<placed, byPo>>, utilized' \in Int, utilized' <= CreditLimit,
         blocked' = blocked, blocks' = blocks
  PROVE  BookInv'
<1>t. BookTypeOK /\ PlacedHaveOrders /\ IndexNamesItsOrder /\ CountingIsIndexed
      /\ DespatchedIsInProcess /\ LimitIsKept
  BY DEF BookInv
<1>1. orders'[o] = new /\ \A x \in 1..MaxOrders : x # o => orders'[x] = orders[x]
  BY <1>t DEF BookTypeOK
<1>2. Placed' = Placed /\ Placed \subseteq 1..MaxOrders
  BY BookAssumption, <1>t DEF Placed, BookTypeOK, BookAssumption
<1>3. BookTypeOK'
  <2>1. despatched' \in SUBSET (1..MaxOrders)
    BY <1>t DEF BookTypeOK
  <2> QED
    BY <2>1, <1>t DEF BookTypeOK
<1>4. PlacedHaveOrders'
  BY <1>1, <1>2, <1>t DEF PlacedHaveOrders
<1>5. IndexNamesItsOrder'
  <2> SUFFICES ASSUME NEW p \in Pos, byPo[p] # 0
               PROVE  byPo[p] \in Placed /\ orders'[byPo[p]].po = p
    BY <1>2 DEF IndexNamesItsOrder
  <2> QED
    BY <1>1, <1>2, <1>t DEF IndexNamesItsOrder
<1>6. CountingIsIndexed'
  <2> SUFFICES ASSUME NEW x \in Placed, orders'[x].status # "Closed", orders'[x].po # NoPo
               PROVE  byPo[orders'[x].po] = x
    BY <1>2 DEF CountingIsIndexed, Live
  <2> QED
    BY <1>1, <1>2, <1>t DEF CountingIsIndexed, Live
<1>7. DespatchedIsInProcess'
  BY <1>1, <1>2, <1>t DEF DespatchedIsInProcess
<1> QED
  BY <1>3, <1>4, <1>5, <1>6, <1>7 DEF BookInv, LimitIsKept

\* What happens in SAP alone keeps the book in order.
LEMMA BookPreserved ==
  ASSUME BookInv, BookNext
  PROVE  BookInv'
<1> USE BookAssumption DEF BookAssumption
<1>t. BookTypeOK /\ PlacedHaveOrders /\ LimitIsKept /\ DespatchedIsInProcess
  BY DEF BookInv
<1>p. Placed \subseteq 1..MaxOrders
  BY <1>t DEF Placed, BookTypeOK
<1>1. ASSUME NEW o \in Placed, ReleaseCreditBlock(o) PROVE BookInv'
  <2> DEFINE new == [orders[o] EXCEPT !.credit = "Confirmed"]
  <2>1. orders[o] \in Order /\ orders[o].value \in Nat
    BY <1>p, <1>t, OrderFields DEF PlacedHaveOrders
  <2>2. new \in Order /\ new.po = orders[o].po /\ new.status = orders[o].status
    BY <2>1 DEF Order
  <2>3. orders' = [orders EXCEPT ![o] = new] /\ UNCHANGED <<placed, byPo, blocked, blocks, despatched>>
    BY <1>1 DEF ReleaseCreditBlock, Confirm
  <2>4. utilized' \in Int /\ utilized' <= CreditLimit
    BY <1>1, <2>1, <1>t DEF ReleaseCreditBlock, Fails, BookTypeOK
  <2>5. o \in despatched' => new.status = "InProcess"
    BY <2>2, <2>3, <1>t DEF DespatchedIsInProcess
  <2> HIDE DEF new
  <2> QED
    BY <1>p, <2>2, <2>3, <2>4, <2>5, IndexFrame
<1>2. ASSUME NEW o \in Placed, Deliver(o) PROVE BookInv'
  <2> DEFINE new == [orders[o] EXCEPT !.status = "InProcess"]
  <2>1. orders[o] \in Order /\ orders[o].status = "Open"
    BY <1>2, <1>p, <1>t DEF PlacedHaveOrders, Deliver
  <2>2. new \in Order /\ new.po = orders[o].po /\ new.status = "InProcess"
    BY <2>1 DEF Order
  <2>3. orders' = [orders EXCEPT ![o] = new] /\ despatched' = despatched \union {o}
        /\ UNCHANGED <<placed, byPo, utilized, blocked, blocks>>
    BY <1>2 DEF Deliver
  <2>4. utilized' \in Int /\ utilized' <= CreditLimit
    BY <2>3, <1>t DEF BookTypeOK, LimitIsKept
  <2> HIDE DEF new
  <2> QED
    BY <1>p, <2>1, <2>2, <2>3, <2>4, IndexFrame
<1>3. ASSUME NEW to \in BOOLEAN, SetBlock(to) PROVE BookInv'
  <2>1. BookTypeOK'
    BY <1>3, <1>t DEF SetBlock, BookTypeOK
  <2> QED
    BY <1>3, <2>1 DEF SetBlock, BookInv, PlacedHaveOrders, IndexNamesItsOrder, CountingIsIndexed,
                      DespatchedIsInProcess, LimitIsKept, Placed, Live
<1> QED
  BY <1>1, <1>2, <1>3 DEF BookNext

\* An order counts when it is alive or delivered; two that count have
\* different references.
LEMMA InvImpliesNoPoTwice == BookInv => NoPoTwice
<1> SUFFICES ASSUME BookInv, NEW o1 \in Placed, NEW o2 \in Placed, o1 # o2,
                    Live(o1) \/ o1 \in despatched, Live(o2) \/ o2 \in despatched,
                    orders[o1].po # NoPo
             PROVE  orders[o1].po # orders[o2].po
  BY DEF NoPoTwice
<1>1. Live(o1) /\ Live(o2)
  BY DEF BookInv, DespatchedIsInProcess, Live
<1> QED
  BY <1>1 DEF BookInv, CountingIsIndexed

----------------------------------------------------------------------------
(* Exposure                                                                *)

\* What a set of orders of a book is worth.
Worth(book, S) == MapThenSumSet(LAMBDA o : book[o].value, S)

\* It is a sum, whatever function gives the values of the orders.
LEMMA WorthIsTotal ==
  ASSUME NEW book, NEW S, IsFiniteSet(S), NEW f, \A o \in S : f[o] = book[o].value
  PROVE  Worth(book, S) = Total(f, S)
<1> DEFINE Folds(h) == h = [R \in SUBSET S |-> IF R = {} THEN 0
                                              ELSE book[Pick(R)].value + h[R \ {Pick(R)}]]
           fold == CHOOSE h : Folds(h)
<1>1. Worth(book, S) = fold[S]
  BY DEF Worth, MapThenSumSet, MapThenFoldSet, Pick
<1>2. ASSUME NEW h PROVE Folds(h) <=> AddsUp(h, f, S)
  <2>1. \A R \in SUBSET S : R # {} => f[Pick(R)] = book[Pick(R)].value
    BY PickIsIn
  <2>2. [R \in SUBSET S |-> IF R = {} THEN 0 ELSE book[Pick(R)].value + h[R \ {Pick(R)}]]
          = [R \in SUBSET S |-> IF R = {} THEN 0 ELSE f[Pick(R)] + h[R \ {Pick(R)}]]
    BY <2>1
  <2> QED
    BY <2>2 DEF AddsUp
<1>3. \E h : Folds(h)
  BY <1>2, AddsUpExists
<1>4. AddsUp(fold, f, S)
  <2>1. Folds(fold)
    <3> HIDE DEF Folds
    <3> QED
      BY <1>3
  <2> HIDE DEF fold
  <2> QED
    BY <1>2, <2>1
<1> HIDE DEF fold
<1> QED
  BY <1>1, <1>4, TotalIs

\* Orders that are worth the same, worth together the same.
LEMMA WorthSame ==
  ASSUME NEW book, NEW other, NEW S, IsFiniteSet(S), \A o \in S : book[o].value = other[o].value
  PROVE  Worth(book, S) = Worth(other, S)
<1> DEFINE f == [o \in S |-> book[o].value]
<1>1. \A o \in S : f[o] = book[o].value /\ f[o] = other[o].value
  OBVIOUS
<1> HIDE DEF f
<1> QED
  BY <1>1, WorthIsTotal

\* Natural values add up to a natural one.
LEMMA WorthType ==
  ASSUME NEW book, NEW S, IsFiniteSet(S), \A o \in S : book[o].value \in Nat
  PROVE  Worth(book, S) \in Nat
<1> DEFINE f == [o \in S |-> book[o].value]
<1>1. \A o \in S : f[o] = book[o].value
  OBVIOUS
<1> HIDE DEF f
<1> QED
  BY <1>1, WorthIsTotal, TotalType

\* An order more is worth its value more.
LEMMA WorthAdd ==
  ASSUME NEW book, NEW S, IsFiniteSet(S), NEW o, o \notin S,
         \A x \in S \union {o} : book[x].value \in Nat
  PROVE  /\ Worth(book, S) \in Nat
         /\ Worth(book, S \union {o}) = Worth(book, S) + book[o].value
<1> DEFINE f == [x \in S \union {o} |-> book[x].value]
<1>1. \A x \in S \union {o} : f[x] = book[x].value
  OBVIOUS
<1> HIDE DEF f
<1>2. IsFiniteSet(S \union {o})
  BY FS_AddElement
<1>3. Worth(book, S) = Total(f, S) /\ Worth(book, S \union {o}) = Total(f, S \union {o})
  BY <1>1, <1>2, WorthIsTotal
<1>4. Total(f, S) \in Int /\ Total(f, S) >= 0
  BY <1>1, TotalType
<1>5. Total(f, S \union {o}) = f[o] + Total(f, S)
  BY <1>1, TotalAdd
<1> QED
  BY <1>1, <1>3, <1>4, <1>5

\* The orders that may be delivered are worth no more than what SAP reports.
Covered == ExposureOf(LiveConfirmed) <= utilized

\* The orders of the book have values, and there are finitely many.
LEMMA BookIsFinite ==
  ASSUME BookInv
  PROVE  /\ IsFiniteSet(Placed) /\ Placed \subseteq 1..MaxOrders
         /\ LiveConfirmed \subseteq Placed /\ IsFiniteSet(LiveConfirmed)
         /\ \A o \in Placed : orders[o] \in Order /\ orders[o].value \in Nat
<1>1. placed \in Nat /\ Placed \subseteq 1..MaxOrders
  BY BookAssumption DEF BookAssumption, BookInv, BookTypeOK, Placed
<1>2. IsFiniteSet(Placed)
  BY <1>1, FS_Interval DEF Placed
<1>3. LiveConfirmed \subseteq Placed
  BY DEF LiveConfirmed
<1>4. \A o \in Placed : orders[o] \in Order /\ orders[o].value \in Nat
  BY <1>1, OrderFields, BookAssumption DEF BookAssumption, BookInv, PlacedHaveOrders
<1> QED
  BY <1>1, <1>2, <1>3, <1>4, FS_Subset

\* When the orders keep their values and no more of them count, the exposure
\* may only rise.
LEMMA CoveredStays ==
  ASSUME BookInv, Covered, utilized \in Int, utilized' \in Int, utilized <= utilized',
         LiveConfirmed' = LiveConfirmed,
         \A o \in LiveConfirmed : orders'[o].value = orders[o].value
  PROVE  Covered'
<1>1. IsFiniteSet(LiveConfirmed) /\ \A o \in LiveConfirmed : orders[o].value \in Nat
  BY BookIsFinite
<1>2. /\ Worth(orders', LiveConfirmed) = Worth(orders, LiveConfirmed)
      /\ Worth(orders, LiveConfirmed) \in Nat
  BY <1>1, WorthSame, WorthType
<1>3. /\ ExposureOf(LiveConfirmed) = Worth(orders, LiveConfirmed)
      /\ ExposureOf(LiveConfirmed)' = Worth(orders', LiveConfirmed)
  BY DEF ExposureOf, Worth, MapThenSumSet, MapThenFoldSet
<1> QED
  BY <1>2, <1>3 DEF Covered

\* An order that begins to count is paid for with its value.
LEMMA CoveredGrows ==
  ASSUME BookInv, Covered, utilized \in Int,
         NEW o, o \notin LiveConfirmed, LiveConfirmed' = LiveConfirmed \union {o},
         \A x \in LiveConfirmed : orders'[x].value = orders[x].value,
         orders'[o].value \in Nat, utilized' = utilized + orders'[o].value
  PROVE  Covered'
<1>1. IsFiniteSet(LiveConfirmed) /\ \A x \in LiveConfirmed : orders[x].value \in Nat
  BY BookIsFinite
<1>2. Worth(orders', LiveConfirmed) = Worth(orders, LiveConfirmed)
  BY <1>1, WorthSame
<1>3. /\ Worth(orders', LiveConfirmed) \in Nat
      /\ Worth(orders', LiveConfirmed \union {o})
           = Worth(orders', LiveConfirmed) + orders'[o].value
  BY <1>1, WorthAdd
<1>4. /\ ExposureOf(LiveConfirmed) = Worth(orders, LiveConfirmed)
      /\ ExposureOf(LiveConfirmed)' = Worth(orders', LiveConfirmed \union {o})
  BY DEF ExposureOf, Worth, MapThenSumSet, MapThenFoldSet
<1> QED
  BY <1>2, <1>3, <1>4 DEF Covered

\* An order that no longer counts gives back its value.
LEMMA CoveredShrinks ==
  ASSUME BookInv, Covered, utilized \in Int,
         NEW o \in LiveConfirmed, LiveConfirmed' = LiveConfirmed \ {o},
         \A x \in LiveConfirmed \ {o} : orders'[x].value = orders[x].value,
         utilized' = utilized - orders[o].value
  PROVE  Covered'
<1> DEFINE rest == LiveConfirmed \ {o}
<1>1. /\ IsFiniteSet(rest) /\ o \notin rest /\ rest \union {o} = LiveConfirmed
      /\ \A x \in rest \union {o} : orders[x].value \in Nat
  BY BookIsFinite, FS_Subset
<1> HIDE DEF rest
<1>2. /\ Worth(orders, rest) \in Nat
      /\ Worth(orders, LiveConfirmed) = Worth(orders, rest) + orders[o].value
  BY <1>1, WorthAdd
<1>3. Worth(orders', rest) = Worth(orders, rest)
  BY <1>1, WorthSame DEF rest
<1>4. /\ ExposureOf(LiveConfirmed) = Worth(orders, LiveConfirmed)
      /\ ExposureOf(LiveConfirmed)' = Worth(orders', rest)
  BY DEF ExposureOf, Worth, MapThenSumSet, MapThenFoldSet, rest
<1> QED
  BY <1>1, <1>2, <1>3, <1>4 DEF Covered

\* What a caller of SAP, or SAP alone, may do to the book.
BookStep ==
  \/ \E po \in Pos \union {NoPo}, value \in Values : CreateSalesOrder(po, value)
  \/ \E o \in 1..MaxOrders : CancelSalesOrder(o)
  \/ BookNext
  \/ UNCHANGED bookVars

\* None of it lets the orders that may be delivered outgrow the exposure.
LEMMA CoveredStep == BookInv /\ Covered /\ BookStep => Covered'
<1> SUFFICES ASSUME BookInv, Covered, BookStep PROVE Covered'
  OBVIOUS
<1> USE BookAssumption DEF BookAssumption
<1>t. /\ BookTypeOK /\ utilized \in Int
      /\ orders \in [1..MaxOrders -> Order \union {NoOrder}] /\ placed \in 0..MaxOrders
  BY DEF BookInv, BookTypeOK
<1>o. Placed \subseteq 1..MaxOrders /\ \A o \in Placed : orders[o] \in Order /\ orders[o].value \in Nat
  BY BookIsFinite
<1>s. ASSUME UNCHANGED bookVars PROVE Covered'
  BY <1>s, <1>t, CoveredStays DEF bookVars, LiveConfirmed, Live, Held, Placed
<1>1. ASSUME NEW po \in Pos \union {NoPo}, NEW value \in Values, CreateSalesOrder(po, value)
      PROVE  Covered'
  <2> DEFINE n == placed + 1
             new == [po |-> po, value |-> value, status |-> "Open",
                     credit |-> IF Fails(value) THEN "CreditHold" ELSE "Confirmed"]
  <2>1. CASE ~IsNew(po)
    BY <1>1, <1>s, <2>1 DEF CreateSalesOrder
  <2>2. CASE IsNew(po)
    <3>1. /\ placed < MaxOrders /\ placed' = n
          /\ orders' = [orders EXCEPT ![n] = new]
          /\ utilized' = IF Fails(value) THEN utilized ELSE utilized + value
      BY <1>1, <2>2 DEF CreateSalesOrder
    <3>2. n \in 1..MaxOrders /\ n \notin Placed /\ Placed' = Placed \union {n}
      BY <1>t, <3>1 DEF Placed
    <3>3. new.value = value /\ new.status = "Open" /\ value \in Nat
          /\ new.credit = IF Fails(value) THEN "CreditHold" ELSE "Confirmed"
      OBVIOUS
    <3> HIDE DEF new, n
    <3>4. orders'[n] = new /\ \A o \in Placed : orders'[o] = orders[o]
      BY <1>o, <1>t, <3>1, <3>2
    <3>5. /\ n \notin LiveConfirmed /\ LiveConfirmed \subseteq Placed
          /\ LiveConfirmed' = IF Fails(value) THEN LiveConfirmed ELSE LiveConfirmed \union {n}
      BY <3>2, <3>3, <3>4 DEF LiveConfirmed, Live, Held
    <3>6. CASE Fails(value)
      BY <1>t, <3>1, <3>4, <3>5, <3>6, CoveredStays
    <3>7. CASE ~Fails(value)
      BY <1>t, <3>1, <3>3, <3>4, <3>5, <3>7, CoveredGrows
    <3> QED
      BY <3>6, <3>7
  <2> QED
    BY <2>1, <2>2
<1>2. ASSUME NEW o \in 1..MaxOrders, CancelSalesOrder(o) PROVE Covered'
  <2> DEFINE new == [orders[o] EXCEPT !.status = "Closed"]
  <2>1. /\ o \in Placed /\ orders[o].status = "Open" /\ placed' = placed
        /\ utilized' = IF Held(o) THEN utilized ELSE utilized - orders[o].value
        /\ orders' = [orders EXCEPT ![o] = new]
    BY <1>2 DEF CancelSalesOrder, Live, Closed
  <2>2. new.status = "Closed"
    BY <1>o, <2>1 DEF Order
  <2> HIDE DEF new
  <2>3. orders'[o] = new /\ (\A x \in Placed : x # o => orders'[x] = orders[x]) /\ Placed' = Placed
    BY <1>o, <1>t, <2>1 DEF Placed
  <2>4. /\ LiveConfirmed' = LiveConfirmed \ {o} /\ LiveConfirmed \subseteq Placed
        /\ (o \in LiveConfirmed <=> ~Held(o))
    BY <2>1, <2>2, <2>3 DEF LiveConfirmed, Live, Held
  <2>5. CASE Held(o)
    BY <1>t, <2>1, <2>3, <2>4, <2>5, CoveredStays
  <2>6. CASE ~Held(o)
    BY <1>t, <2>1, <2>3, <2>4, <2>6, CoveredShrinks
  <2> QED
    BY <2>5, <2>6
<1>3. ASSUME NEW o \in Placed, ReleaseCreditBlock(o) PROVE Covered'
  <2> DEFINE new == [orders[o] EXCEPT !.credit = "Confirmed"]
  <2>1. /\ orders[o].credit = "CreditHold" /\ placed' = placed
        /\ utilized' = utilized + orders[o].value
        /\ orders' = [orders EXCEPT ![o] = new]
    BY <1>3 DEF ReleaseCreditBlock, Confirm, Held
  <2>2. new.status = orders[o].status /\ new.value = orders[o].value /\ new.credit = "Confirmed"
    BY <1>o DEF Order
  <2> HIDE DEF new
  <2>3. orders'[o] = new /\ (\A x \in Placed : x # o => orders'[x] = orders[x]) /\ Placed' = Placed
    BY <1>o, <1>t, <2>1 DEF Placed
  <2>4. /\ o \notin LiveConfirmed /\ LiveConfirmed \subseteq Placed
        /\ LiveConfirmed' = IF Live(o) THEN LiveConfirmed \union {o} ELSE LiveConfirmed
    BY <2>1, <2>2, <2>3 DEF LiveConfirmed, Live, Held
  <2>5. CASE Live(o)
    BY <1>o, <1>t, <2>1, <2>2, <2>3, <2>4, <2>5, CoveredGrows
  <2>6. CASE ~Live(o)
    <3>1. utilized' \in Int /\ utilized <= utilized'
      BY <1>o, <1>t, <2>1
    <3> QED
      BY <1>t, <2>3, <2>4, <2>6, <3>1, CoveredStays
  <2> QED
    BY <2>5, <2>6
<1>4. ASSUME NEW o \in Placed, Deliver(o) PROVE Covered'
  <2> DEFINE new == [orders[o] EXCEPT !.status = "InProcess"]
  <2>1. /\ Live(o) /\ ~Held(o) /\ placed' = placed /\ utilized' = utilized
        /\ orders' = [orders EXCEPT ![o] = new]
    BY <1>4 DEF Deliver
  <2>2. new.status = "InProcess" /\ new.value = orders[o].value /\ new.credit = orders[o].credit
    BY <1>o DEF Order
  <2> HIDE DEF new
  <2>3. orders'[o] = new /\ (\A x \in Placed : x # o => orders'[x] = orders[x]) /\ Placed' = Placed
    BY <1>o, <1>t, <2>1 DEF Placed
  <2>4. LiveConfirmed' = LiveConfirmed
    BY <2>1, <2>2, <2>3 DEF LiveConfirmed, Live, Held
  <2>5. \A x \in LiveConfirmed : orders'[x].value = orders[x].value
    BY <2>2, <2>3 DEF LiveConfirmed
  <2> QED
    BY <1>t, <2>1, <2>4, <2>5, CoveredStays
<1>5. ASSUME NEW to \in BOOLEAN, SetBlock(to) PROVE Covered'
  <2>1. UNCHANGED <<placed, orders, utilized>>
    BY <1>5 DEF SetBlock
  <2> QED
    BY <1>t, <2>1, CoveredStays DEF LiveConfirmed, Live, Held, Placed
<1> QED
  BY <1>s, <1>1, <1>2, <1>3, <1>4, <1>5 DEF BookStep, BookNext

----------------------------------------------------------------------------
(* The desk                                                                *)

\* A call ends, or goes on to its next step.
LEMMA CallGoes ==
  ASSUME TypeOK, NEW b \in Buyers, NEW next \in Call \union {Idle}, Goes(b, next)
  PROVE  /\ call' \in [Buyers -> Call \union {Idle}]
         /\ call'[b] = next /\ \A c \in Buyers : c # b => call'[c] = call[c]
BY DEF Goes, TypeOK

LEMMA CallFields ==
  ASSUME NEW x \in Call \union {Idle}
  PROVE  /\ x.does = "cancel" => x.o \in 1..MaxOrders
         /\ x.does \in {"convert", "create"} => x.i \in Inquiries /\ x.po \in Pos \union {NoPo}
         /\ x.does = "revise" => x.i \in Inquiries
         /\ x.does = "announce" => x.event \in Event
         /\ x.does # "nothing" => x \in Call
BY DEF Call, Idle

\* What was, or is to be, announced of a quotation, when a step asks for no
\* revision and drops no announcement.
LEMMA RevisionsFrame ==
  ASSUME TypeOK, RevisionsAreAnnounced,
         \A i \in Inquiries :
           quotation'[i] \in Quotation => \/ quotation'[i].revisions = 0
                                          \/ /\ quotation[i] \in Quotation
                                             /\ quotation'[i].revisions = quotation[i].revisions,
         quotation' \in [Inquiries -> Quotation \union {NoQuotation, Asked}],
         events \union lost \subseteq events' \union lost',
         \A b \in Buyers : call[b].does = "announce" /\ call[b].event[1] = "revision" =>
           call'[b] = call[b] \/ call[b].event \in events' \union lost'
  PROVE  RevisionsAreAnnounced'
<1> SUFFICES ASSUME NEW i \in Inquiries, quotation'[i] \in Quotation,
                    NEW n \in 1..quotation'[i].revisions,
                    <<"revision", i, n>> \notin events' \union lost'
             PROVE  \E b \in Buyers : call'[b].does = "announce" /\ call'[b].event = <<"revision", i, n>>
  BY DEF RevisionsAreAnnounced, Quoted, Does
<1>1. quotation[i] \in Quotation /\ n \in 1..quotation[i].revisions
  BY DEF Quotation
<1>2. Quoted(i)
  BY <1>1 DEF Quoted, Quotation, NoQuotation, Asked
<1>3. PICK b \in Buyers : call[b].does = "announce" /\ call[b].event = <<"revision", i, n>>
  BY <1>1, <1>2 DEF RevisionsAreAnnounced, Does
<1> QED
  BY <1>3

\* Where calls go on, they go on with quotations that SAP has.
LEMMA CallsFrame ==
  ASSUME TypeOK, CallsAreOnQuotations, NEW b \in Buyers,
         \A i \in Inquiries : quotation[i] \in Quotation => quotation'[i] \in Quotation,
         \A c \in Buyers : c # b => call'[c] = call[c],
         call'[b].does \in {"convert", "create", "revise"} => quotation'[call'[b].i] \in Quotation
  PROVE  CallsAreOnQuotations'
<1> SUFFICES ASSUME NEW c \in Buyers, c # b, call[c].does \in {"convert", "create", "revise"}
             PROVE  quotation'[call[c].i] \in Quotation
  BY DEF CallsAreOnQuotations
<1>1. call[c].i \in Inquiries
  BY CallFields DEF TypeOK
<1> QED
  BY <1>1 DEF CallsAreOnQuotations

\* What a step of the desk has to keep.
DeskStep ==
  /\ quotation' \in [Inquiries -> Quotation \union {NoQuotation, Asked}]
  /\ events' \in SUBSET Event /\ lost' \in SUBSET Event
  /\ call' \in [Buyers -> Call \union {Idle}]
  /\ deskFaults' \in 0..MaxDeskFaults
  /\ CallsAreOnQuotations' /\ RevisionsAreAnnounced'

\* A call begins or goes on, and nothing but its own step changes.
LEMMA CallStep ==
  ASSUME Inv, NEW b \in Buyers, NEW next \in Call \union {Idle}, Goes(b, next),
         call[b].does = "announce" => call[b].event \in events',
         next.does \in {"convert", "create", "revise"} => quotation[next.i] \in Quotation,
         events \subseteq events', events' \in SUBSET Event,
         UNCHANGED <<quotation, lost, deskFaults>>
  PROVE  DeskStep
<1>i. TypeOK /\ CallsAreOnQuotations /\ RevisionsAreAnnounced
  BY DEF Inv, DeskInv
<1>1. /\ call' \in [Buyers -> Call \union {Idle}]
      /\ call'[b] = next /\ \A c \in Buyers : c # b => call'[c] = call[c]
  BY <1>i, CallGoes
<1>2. CallsAreOnQuotations'
  BY <1>i, <1>1, CallsFrame
<1>3. RevisionsAreAnnounced'
  <2>1. \A c \in Buyers : call[c].does = "announce" /\ call[c].event[1] = "revision" =>
           call'[c] = call[c] \/ call[c].event \in events' \union lost'
    BY <1>1
  <2>2. quotation' \in [Inquiries -> Quotation \union {NoQuotation, Asked}]
    BY <1>i DEF TypeOK
  <2>3. events \union lost \subseteq events' \union lost'
    OBVIOUS
  <2> QED
    BY <1>i, <2>1, <2>2, <2>3, RevisionsFrame
<1> QED
  BY <1>i, <1>1, <1>2, <1>3 DEF DeskStep, TypeOK

\* A quotation is written, no call moves and no revision is asked for.
LEMMA QuotationStep ==
  ASSUME Inv, NEW i \in Inquiries, NEW new \in Quotation \union {NoQuotation, Asked},
         quotation' = [quotation EXCEPT ![i] = new],
         quotation[i] \in Quotation =>
           new \in Quotation /\ new.revisions = quotation[i].revisions,
         quotation[i] \notin Quotation /\ new \in Quotation => new.revisions = 0,
         events \subseteq events', lost \subseteq lost',
         events' \in SUBSET Event, lost' \in SUBSET Event, deskFaults' \in 0..MaxDeskFaults,
         UNCHANGED call
  PROVE  DeskStep
<1>i. TypeOK /\ CallsAreOnQuotations /\ RevisionsAreAnnounced
  BY DEF Inv, DeskInv
<1>1. /\ quotation' \in [Inquiries -> Quotation \union {NoQuotation, Asked}]
      /\ quotation'[i] = new /\ \A j \in Inquiries : j # i => quotation'[j] = quotation[j]
  BY <1>i DEF TypeOK
<1>2. \A j \in Inquiries : quotation[j] \in Quotation => quotation'[j] \in Quotation
  BY <1>1
<1>3. CallsAreOnQuotations'
  <2> SUFFICES ASSUME NEW c \in Buyers, call[c].does \in {"convert", "create", "revise"}
               PROVE  quotation'[call[c].i] \in Quotation
    BY DEF CallsAreOnQuotations
  <2>1. call[c].i \in Inquiries
    BY <1>i, CallFields DEF TypeOK
  <2> QED
    BY <2>1, <1>2, <1>i DEF CallsAreOnQuotations
<1>4. RevisionsAreAnnounced'
  <2>1. \A j \in Inquiries :
           quotation'[j] \in Quotation => \/ quotation'[j].revisions = 0
                                          \/ /\ quotation[j] \in Quotation
                                             /\ quotation'[j].revisions = quotation[j].revisions
    BY <1>1
  <2>2. events \union lost \subseteq events' \union lost'
    OBVIOUS
  <2>3. \A c \in Buyers : call[c].does = "announce" /\ call[c].event[1] = "revision" =>
           call'[c] = call[c] \/ call[c].event \in events' \union lost'
    OBVIOUS
  <2> QED
    BY <1>i, <1>1, <2>1, <2>2, <2>3, RevisionsFrame
<1> QED
  BY <1>i, <1>1, <1>3, <1>4 DEF DeskStep, TypeOK

\* A quotation that can be acted upon is one that SAP has.
LEMMA QuotedIsQuotation ==
  ASSUME TypeOK, NEW i \in Inquiries, Quoted(i) PROVE quotation[i] \in Quotation
BY DEF TypeOK, Quoted

LEMMA QuotationFields ==
  ASSUME NEW x \in Quotation
  PROVE  x.revisions \in 0..MaxRevisions /\ x # NoQuotation /\ x # Asked
BY DEF Quotation, NoQuotation, Asked

LEMMA QuotationConverted ==
  ASSUME NEW x \in Quotation, NEW o \in 1..MaxOrders
  PROVE  LET y == [x EXCEPT !.order = o, !.status = "Closed"]
         IN y \in Quotation /\ y.revisions = x.revisions
<1>1. o \in 0..MaxOrders /\ "Closed" \in {"Open", "Closed"}
  BY BookAssumption DEF BookAssumption
<1>2. [x EXCEPT !.order = o, !.status = "Closed"] \in Quotation
  BY ONLY x \in Quotation, <1>1, Zenon DEF Quotation
<1>3. [x EXCEPT !.order = o, !.status = "Closed"].revisions = x.revisions
  BY DEF Quotation
<1> QED
  BY <1>2, <1>3

LEMMA BookUntouched == ASSUME BookInv, UNCHANGED bookVars PROVE BookInv'
BY DEF bookVars, BookInv, BookTypeOK, PlacedHaveOrders, IndexNamesItsOrder,
       CountingIsIndexed, DespatchedIsInProcess, LimitIsKept, Placed, Live

\* Every step keeps the invariant.
LEMMA InvPreserved ==
  ASSUME Inv, Next
  PROVE  Inv'
<1> USE BookAssumption, DeskAssumption DEF BookAssumption, DeskAssumption
<1>i. BookInv /\ BookTypeOK /\ TypeOK /\ CallsAreOnQuotations /\ RevisionsAreAnnounced
  BY DEF Inv, DeskInv, BookInv
<1>t. /\ quotation \in [Inquiries -> Quotation \union {NoQuotation, Asked}]
      /\ events \in SUBSET Event /\ lost \in SUBSET Event
      /\ call \in [Buyers -> Call \union {Idle}]
      /\ deskFaults \in 0..MaxDeskFaults
  BY <1>i DEF TypeOK
<1>k. ASSUME BookInv', DeskStep PROVE Inv'
  BY <1>k DEF Inv, DeskInv, DeskStep, TypeOK, BookInv
<1>d. ASSUME UNCHANGED deskVars PROVE DeskStep
  BY <1>d, <1>i DEF deskVars, DeskStep, TypeOK, CallsAreOnQuotations, RevisionsAreAnnounced,
                    Quoted, Does
<1>f. ASSUME Fault PROVE deskFaults' \in 0..MaxDeskFaults
  BY <1>f, <1>t DEF Fault
<1>1. ASSUME BookNext, UNCHANGED deskVars PROVE Inv'
  BY <1>1, <1>i, <1>d, <1>k, BookPreserved
<1>2. ASSUME NEW b \in Buyers, NEW po \in Pos \union {NoPo}, NEW v \in Values,
             CreateOrder(b, po, v)
      PROVE  Inv'
  BY <1>2, <1>i, <1>d, <1>k, CreatePreserves DEF CreateOrder
<1>3. ASSUME NEW b \in Buyers, NEW o \in Placed, CheckCancel(b, o) PROVE Inv'
  <2> DEFINE next == [does |-> "cancel", o |-> o]
  <2>1. next \in Call /\ next.does = "cancel"
    BY <1>i DEF Call, Placed, BookTypeOK
  <2>2. UNCHANGED bookVars /\ UNCHANGED <<quotation, events, lost, deskFaults>>
        /\ call[b].does = "nothing" /\ Goes(b, next)
    BY <1>3 DEF CheckCancel, Idle
  <2> HIDE DEF next
  <2>3. DeskStep
    BY <2>1, <2>2, <1>t, CallStep
  <2> QED
    BY <1>i, <1>k, <2>2, <2>3, BookUntouched
<1>4. ASSUME NEW b \in Buyers, CancelOrder(b) PROVE Inv'
  <2>1. Goes(b, Idle) /\ UNCHANGED <<quotation, events, lost, deskFaults>>
        /\ call[b].does = "cancel" /\ call[b].o \in 1..MaxOrders
    BY <1>4, <1>t, CallFields DEF CancelOrder, Does
  <2>2. DeskStep
    BY <2>1, <1>t, CallStep DEF Idle
  <2>3. BookInv'
    <3>1. CASE CancelSalesOrder(call[b].o)
      BY <3>1, <2>1, <1>i, CancelPreserves
    <3>2. CASE CancelRefused(call[b].o)
      BY <3>2, <1>i, BookUntouched DEF CancelRefused
    <3> QED
      BY <1>4, <3>1, <3>2 DEF CancelOrder
  <2> QED
    BY <1>k, <2>2, <2>3
<1>5. ASSUME NEW b \in Buyers, NEW i \in Inquiries, CreateInquiry(b, i) PROVE Inv'
  <2>1. DeskStep
    BY <1>5, <1>t, QuotationStep, QuotationFields DEF CreateInquiry, Asked, NoQuotation, Quotation
  <2> QED
    BY <1>5, <1>i, <1>k, <2>1, BookUntouched DEF CreateInquiry
<1>6. ASSUME NEW b \in Buyers, NEW i \in Inquiries, CheckRevision(b, i) PROVE Inv'
  <2> DEFINE next == [does |-> "revise", i |-> i]
  <2>1. next \in Call /\ next.does = "revise" /\ next.i = i /\ quotation[i] \in Quotation
    BY <1>6, <1>i, QuotedIsQuotation DEF CheckRevision, Call
  <2>2. UNCHANGED bookVars /\ UNCHANGED <<quotation, events, lost, deskFaults>>
        /\ call[b].does = "nothing" /\ Goes(b, next)
    BY <1>6 DEF CheckRevision, Idle
  <2> HIDE DEF next
  <2>3. DeskStep
    BY <2>1, <2>2, <1>t, CallStep
  <2> QED
    BY <1>i, <1>k, <2>2, <2>3, BookUntouched
<1>7. ASSUME NEW b \in Buyers, NEW i \in Inquiries, NEW po \in Pos \union {NoPo},
             AcceptQuotation(b, i, po)
      PROVE  Inv'
  <2> DEFINE next == [does |-> "convert", i |-> i, po |-> po]
  <2>1. next \in Call /\ next.does = "convert" /\ next.i = i /\ quotation[i] \in Quotation
    BY <1>7, <1>i, QuotedIsQuotation DEF AcceptQuotation, Acceptable, Call
  <2>2. UNCHANGED bookVars /\ UNCHANGED <<quotation, events, lost, deskFaults>>
        /\ call[b].does = "nothing" /\ Goes(b, next)
    BY <1>7 DEF AcceptQuotation, Idle
  <2> HIDE DEF next
  <2>3. DeskStep
    BY <2>1, <2>2, <1>t, CallStep
  <2> QED
    BY <1>i, <1>k, <2>2, <2>3, BookUntouched
<1>8. ASSUME NEW b \in Buyers, ConvertQuoteToOrder(b) PROVE Inv'
  <2>1. call[b].does = "convert" /\ call[b].i \in Inquiries /\ call[b].po \in Pos \union {NoPo}
        /\ quotation[call[b].i] \in Quotation
    BY <1>8, <1>i, <1>t, CallFields DEF ConvertQuoteToOrder, Does, CallsAreOnQuotations
  <2>2. UNCHANGED bookVars /\ UNCHANGED <<quotation, events, lost, deskFaults>>
    BY <1>8 DEF ConvertQuoteToOrder
  <2> DEFINE next == [does |-> "create", i |-> call[b].i, po |-> call[b].po]
  <2>3. next \in Call /\ next.does = "create" /\ next.i = call[b].i
    BY <2>1 DEF Call
  <2>4. Goes(b, next) \/ Goes(b, Idle)
    BY <1>8 DEF ConvertQuoteToOrder
  <2> HIDE DEF next
  <2>5. DeskStep
    <3>1. CASE Goes(b, next)
      BY <2>1, <2>2, <2>3, <3>1, <1>t, CallStep
    <3>2. CASE Goes(b, Idle)
      BY <2>1, <2>2, <3>2, <1>t, CallStep DEF Idle
    <3> QED
      BY <2>4, <3>1, <3>2
  <2> QED
    BY <1>i, <1>k, <2>2, <2>5, BookUntouched
<1>9. ASSUME NEW b \in Buyers, CreateFromQuotation(b) PROVE Inv'
  <2> DEFINE i == call[b].i  o == OrderOf(call[b].po)
             new == [quotation[i] EXCEPT !.order = o, !.status = "Closed"]
             next == [does |-> "announce", event |-> <<"accepted", i, o>>]
  <2>1. call[b].does = "create" /\ i \in Inquiries /\ call[b].po \in Pos \union {NoPo}
        /\ quotation[i] \in Quotation
    BY <1>9, <1>i, <1>t, CallFields DEF CreateFromQuotation, Does, CallsAreOnQuotations
  <2>2. BookInv' /\ o \in 1..MaxOrders
    BY <1>9, <1>i, <2>1, CreatePreserves DEF CreateFromQuotation
  <2>3. new \in Quotation /\ new.revisions = quotation[i].revisions
    BY <2>1, <2>2, QuotationConverted
  <2>4. next \in Call /\ next.does = "announce"
    BY <2>1, <2>2 DEF Call, Event
  <2>5. quotation' = [quotation EXCEPT ![i] = new] /\ Goes(b, next)
        /\ UNCHANGED <<events, lost, deskFaults>>
    BY <1>9 DEF CreateFromQuotation
  <2> HIDE DEF new, next, i, o
  <2>6. /\ quotation' \in [Inquiries -> Quotation \union {NoQuotation, Asked}]
        /\ quotation'[i] = new /\ \A j \in Inquiries : j # i => quotation'[j] = quotation[j]
    BY <2>1, <2>3, <2>5, <1>t
  <2>7. /\ call' \in [Buyers -> Call \union {Idle}]
        /\ call'[b] = next /\ \A c \in Buyers : c # b => call'[c] = call[c]
    BY <2>4, <2>5, <1>i, CallGoes
  <2>8. CallsAreOnQuotations'
    BY <2>1, <2>3, <2>4, <2>6, <2>7, <1>i, CallsFrame
  <2>9. RevisionsAreAnnounced'
    <3>1. \A j \in Inquiries :
             quotation'[j] \in Quotation => \/ quotation'[j].revisions = 0
                                            \/ /\ quotation[j] \in Quotation
                                               /\ quotation'[j].revisions = quotation[j].revisions
      BY <2>1, <2>3, <2>6
    <3>2. \A c \in Buyers : call[c].does = "announce" /\ call[c].event[1] = "revision" =>
             call'[c] = call[c] \/ call[c].event \in events' \union lost'
      BY <2>1, <2>7
    <3>3. events \union lost \subseteq events' \union lost'
      BY <2>5
    <3> QED
      BY <1>i, <2>6, <3>1, <3>2, <3>3, RevisionsFrame
  <2>10. DeskStep
    BY <2>5, <2>6, <2>7, <2>8, <2>9, <1>t DEF DeskStep
  <2> QED
    BY <1>k, <2>2, <2>10
<1>10. ASSUME NEW b \in Buyers, RequestRevision(b) PROVE Inv'
  <2> DEFINE i == call[b].i  n == quotation[i].revisions + 1
             new == [quotation[i] EXCEPT !.revisions = n]
             next == [does |-> "announce", event |-> <<"revision", i, n>>]
  <2>1. call[b].does = "revise" /\ i \in Inquiries /\ quotation[i] \in Quotation
        /\ quotation[i].revisions \in 0..MaxRevisions
    BY <1>10, <1>i, <1>t, CallFields, QuotationFields DEF RequestRevision, Does, CallsAreOnQuotations
  <2>2. UNCHANGED bookVars /\ UNCHANGED <<events, lost, deskFaults>>
    BY <1>10 DEF RequestRevision
  <2>3. CASE quotation[i].order = 0 /\ n <= MaxRevisions
    <3>1. new \in Quotation /\ new.revisions = n /\ n \in 1..MaxRevisions
          /\ n = quotation[i].revisions + 1
      BY <2>1, <2>3 DEF Quotation
    <3>2. next \in Call /\ next.does = "announce" /\ next.event = <<"revision", i, n>>
      BY <2>1, <3>1 DEF Call, Event
    <3>3. quotation' = [quotation EXCEPT ![i] = new] /\ Goes(b, next)
      BY <1>10, <2>3 DEF RequestRevision
    <3> HIDE DEF new, next, i, n
    <3>4. /\ quotation' \in [Inquiries -> Quotation \union {NoQuotation, Asked}]
          /\ quotation'[i] = new /\ \A j \in Inquiries : j # i => quotation'[j] = quotation[j]
      BY <2>1, <3>1, <3>3, <1>t
    <3>5. /\ call' \in [Buyers -> Call \union {Idle}]
          /\ call'[b] = next /\ \A c \in Buyers : c # b => call'[c] = call[c]
      BY <3>2, <3>3, <1>i, CallGoes
    <3>6. CallsAreOnQuotations'
      BY <2>1, <3>1, <3>2, <3>4, <3>5, <1>i, CallsFrame
    <3>7. RevisionsAreAnnounced'
      <4> SUFFICES ASSUME NEW j \in Inquiries, quotation'[j] \in Quotation,
                          NEW x \in 1..quotation'[j].revisions
                   PROVE  \/ <<"revision", j, x>> \in events \union lost
                          \/ \E c \in Buyers : call'[c].does = "announce"
                                               /\ call'[c].event = <<"revision", j, x>>
        BY <2>2, <3>4 DEF RevisionsAreAnnounced, Quoted, Does
      <4>1. CASE j = i /\ x = n
        BY <4>1, <3>2, <3>5
      <4>2. CASE ~(j = i /\ x = n)
        <5>1. quotation[j] \in Quotation /\ x \in 1..quotation[j].revisions
          BY <4>2, <2>1, <3>1, <3>4
        <5>2. Quoted(j)
          BY <5>1, QuotationFields DEF Quoted
        <5>3. \/ <<"revision", j, x>> \in events \union lost
              \/ \E c \in Buyers : call[c].does = "announce"
                                   /\ call[c].event = <<"revision", j, x>>
          BY <5>1, <5>2, <1>i DEF RevisionsAreAnnounced, Does
        <5> QED
          BY <5>3, <2>1, <3>5
      <4> QED
        BY <4>1, <4>2
    <3>8. DeskStep
      BY <2>2, <3>4, <3>5, <3>6, <3>7, <1>t DEF DeskStep
    <3> QED
      BY <1>i, <1>k, <2>2, <3>8, BookUntouched
  <2>4. CASE ~(quotation[i].order = 0 /\ n <= MaxRevisions)
    <3>1. Goes(b, Idle) /\ UNCHANGED quotation
      BY <1>10, <2>4 DEF RequestRevision
    <3>2. DeskStep
      BY <2>1, <2>2, <3>1, <1>t, CallStep DEF Idle
    <3> QED
      BY <1>i, <1>k, <2>2, <3>2, BookUntouched
  <2> QED
    BY <2>3, <2>4
<1>11. ASSUME NEW b \in Buyers, Announce(b) PROVE Inv'
  <2>1. call[b].does = "announce" /\ call[b].event \in Event
    BY <1>11, <1>t, CallFields DEF Announce, Does
  <2>2. UNCHANGED bookVars /\ UNCHANGED <<quotation, lost, deskFaults>> /\ Goes(b, Idle)
    BY <1>11 DEF Announce
  <2> DEFINE e == call[b].event
  <2>3. events' = IF e[1] = "accepted" /\ \E f \in events : f[1] = e[1] /\ f[2] = e[2]
                  THEN events ELSE events \union {e}
    BY <1>11 DEF Announce
  <2>4. events \subseteq events' /\ events' \in SUBSET Event
        /\ (e[1] = "revision" => e \in events')
    BY <2>1, <2>3, <1>t
  <2> HIDE DEF e
  <2>5. /\ call' \in [Buyers -> Call \union {Idle}]
        /\ call'[b] = Idle /\ \A c \in Buyers : c # b => call'[c] = call[c]
    BY <2>2, <1>i, CallGoes
  <2>6. CallsAreOnQuotations'
    BY <2>2, <2>5, <1>i, CallsFrame DEF Idle
  <2>7. RevisionsAreAnnounced'
    <3>1. \A c \in Buyers : call[c].does = "announce" /\ call[c].event[1] = "revision" =>
             call'[c] = call[c] \/ call[c].event \in events' \union lost'
      BY <2>4, <2>5 DEF e
    <3>2. events \union lost \subseteq events' \union lost'
      BY <2>2, <2>4
    <3> QED
      BY <1>i, <1>t, <2>2, <3>1, <3>2, RevisionsFrame
  <2>8. DeskStep
    BY <2>2, <2>4, <2>5, <2>6, <2>7, <1>t DEF DeskStep
  <2> QED
    BY <1>i, <1>k, <2>2, <2>8, BookUntouched
<1>12. ASSUME NEW b \in Buyers, CallFails(b) PROVE Inv'
  <2>1. UNCHANGED bookVars /\ UNCHANGED <<quotation, events>> /\ Goes(b, Idle) /\ Fault
        /\ lost' = IF call[b].does = "announce" THEN lost \union {call[b].event} ELSE lost
    BY <1>12 DEF CallFails, Does
  <2>2. lost \subseteq lost' /\ lost' \in SUBSET Event
    BY <2>1, <1>t, CallFields
  <2>3. /\ call' \in [Buyers -> Call \union {Idle}]
        /\ call'[b] = Idle /\ \A c \in Buyers : c # b => call'[c] = call[c]
    BY <2>1, <1>i, CallGoes
  <2>4. CallsAreOnQuotations'
    BY <2>1, <2>3, <1>i, CallsFrame DEF Idle
  <2>5. RevisionsAreAnnounced'
    <3>1. \A c \in Buyers : call[c].does = "announce" /\ call[c].event[1] = "revision" =>
             call'[c] = call[c] \/ call[c].event \in events' \union lost'
      BY <2>1, <2>3
    <3>2. events \union lost \subseteq events' \union lost'
      BY <2>1, <2>2
    <3> QED
      BY <1>i, <1>t, <2>1, <3>1, <3>2, RevisionsFrame
  <2>6. DeskStep
    BY <2>1, <2>2, <2>3, <2>4, <2>5, <1>t, <1>f DEF DeskStep
  <2> QED
    BY <1>i, <1>k, <2>1, <2>6, BookUntouched
<1>13. ASSUME NEW i \in Inquiries, AutoQuote(i) \/ IssueQuotation(i) PROVE Inv'
  <2> DEFINE new == [status |-> "Open", lapsed |-> FALSE, order |-> 0, revisions |-> 0]
  <2>1. new \in Quotation /\ new.revisions = 0
    BY <1>i DEF Quotation, BookTypeOK
  <2>2. quotation[i] = Asked /\ quotation' = [quotation EXCEPT ![i] = new]
        /\ UNCHANGED bookVars /\ UNCHANGED call
    BY <1>13 DEF AutoQuote, IssueQuotation, Issue
  <2>3. quotation[i] \notin Quotation
    BY <2>2, QuotationFields
  <2>4. /\ events \subseteq events' /\ lost \subseteq lost'
        /\ events' \in SUBSET Event /\ lost' \in SUBSET Event
        /\ deskFaults' \in 0..MaxDeskFaults
    <3>1. <<"issued", i, 0>> \in Event
      BY DEF Event
    <3> QED
      BY <1>13, <1>t, <1>f, <3>1 DEF AutoQuote, IssueQuotation
  <2> HIDE DEF new
  <2>5. DeskStep
    BY <2>1, <2>2, <2>3, <2>4, QuotationStep
  <2> QED
    BY <1>i, <1>k, <2>2, <2>5, BookUntouched
<1>14. ASSUME NEW i \in Inquiries, Lapse(i) PROVE Inv'
  <2> DEFINE new == [quotation[i] EXCEPT !.lapsed = TRUE]
  <2>1. quotation[i] \in Quotation
    BY <1>14, <1>i, QuotedIsQuotation DEF Lapse
  <2>2. new \in Quotation /\ new.revisions = quotation[i].revisions
    BY <2>1 DEF Quotation
  <2>3. quotation' = [quotation EXCEPT ![i] = new]
        /\ UNCHANGED bookVars /\ UNCHANGED <<events, lost, call, deskFaults>>
    BY <1>14 DEF Lapse
  <2> HIDE DEF new
  <2>4. DeskStep
    BY <2>1, <2>2, <2>3, <1>t, QuotationStep
  <2> QED
    BY <1>i, <1>k, <2>3, <2>4, BookUntouched
<1> QED
  BY <1>1, <1>2, <1>3, <1>4, <1>5, <1>6, <1>7, <1>8, <1>9, <1>10, <1>11, <1>12, <1>13, <1>14
     DEF Next

\* Whatever the desk does, what it does to the book is what the book allows.
LEMMA DeskStepIsBookStep == Inv /\ [Next]_vars => BookStep
<1> SUFFICES ASSUME Inv, [Next]_vars PROVE BookStep
  OBVIOUS
<1> USE BookAssumption, DeskAssumption DEF BookAssumption, DeskAssumption, BookStep
<1>t. BookInv /\ TypeOK
  BY DEF Inv, DeskInv
<1>1. ASSUME NEW b \in Buyers, NEW po \in Pos \union {NoPo}, NEW v \in Values,
             CreateOrder(b, po, v)
      PROVE  BookStep
  BY <1>1 DEF CreateOrder
<1>2. ASSUME NEW b \in Buyers, CancelOrder(b) PROVE BookStep
  <2>1. call[b].o \in 1..MaxOrders
    BY <1>2, <1>t, CallFields DEF CancelOrder, Does, TypeOK
  <2> QED
    BY <1>2, <2>1 DEF CancelOrder, CancelRefused
<1>3. ASSUME NEW b \in Buyers, CreateFromQuotation(b) PROVE BookStep
  <2>1. call[b].po \in Pos \union {NoPo}
    BY <1>3, <1>t, CallFields DEF CreateFromQuotation, Does, TypeOK
  <2> QED
    BY <1>3, <2>1 DEF CreateFromQuotation
<1>4. ASSUME NEW b \in Buyers, NEW o \in Placed, CheckCancel(b, o) PROVE BookStep
  BY <1>4 DEF CheckCancel
<1>5. ASSUME NEW b \in Buyers, NEW i \in Inquiries, CreateInquiry(b, i) \/ CheckRevision(b, i)
      PROVE  BookStep
  BY <1>5 DEF CreateInquiry, CheckRevision
<1>6. ASSUME NEW b \in Buyers, NEW i \in Inquiries, NEW po, AcceptQuotation(b, i, po)
      PROVE  BookStep
  BY <1>6 DEF AcceptQuotation
<1>7. ASSUME NEW b \in Buyers,
             ConvertQuoteToOrder(b) \/ RequestRevision(b) \/ Announce(b) \/ CallFails(b)
      PROVE  BookStep
  BY <1>7 DEF ConvertQuoteToOrder, RequestRevision, Announce, CallFails
<1>8. ASSUME NEW i \in Inquiries, AutoQuote(i) \/ IssueQuotation(i) \/ Lapse(i) PROVE BookStep
  BY <1>8 DEF AutoQuote, IssueQuotation, Lapse
<1>9. CASE UNCHANGED vars
  BY <1>9 DEF vars
<1> QED
  BY <1>1, <1>2, <1>3, <1>4, <1>5, <1>6, <1>7, <1>8, <1>9 DEF Next

----------------------------------------------------------------------------
(* Theorems                                                                *)

\* The invariant holds in every reachable state.
THEOREM SalesInvariance == Spec => []Inv
<1>1. Init => Inv
  <2> SUFFICES ASSUME Init PROVE Inv
    OBVIOUS
  <2> USE BookAssumption, DeskAssumption DEF BookAssumption, DeskAssumption, Init, BookInit
  <2>0. BookTypeOK
    <3>1. /\ placed \in 0..MaxOrders /\ utilized \in Int /\ blocks \in 0..MaxBlocks
          /\ orders \in [1..MaxOrders -> Order \union {NoOrder}]
          /\ byPo \in [Pos -> 0..MaxOrders]
          /\ despatched \in SUBSET (1..MaxOrders)
      OBVIOUS
    <3>2. blocked \in BOOLEAN
      BY ONLY Init, Zenon DEF Init, BookInit
    <3> QED
      BY ONLY <3>1, <3>2 DEF BookTypeOK
  <2>1. TypeOK
    <3>1. quotation \in [Inquiries -> Quotation \union {NoQuotation, Asked}]
      OBVIOUS
    <3>2. call \in [Buyers -> Call \union {Idle}]
      OBVIOUS
    <3> QED
      BY <2>0, <3>1, <3>2 DEF TypeOK
  <2>2. PlacedHaveOrders
    BY OrderFields DEF PlacedHaveOrders, Placed
  <2>3. IndexNamesItsOrder /\ CountingIsIndexed /\ DespatchedIsInProcess /\ LimitIsKept
    BY DEF IndexNamesItsOrder, CountingIsIndexed, DespatchedIsInProcess, LimitIsKept, Placed
  <2>4. CallsAreOnQuotations /\ RevisionsAreAnnounced
    BY DEF CallsAreOnQuotations, RevisionsAreAnnounced, Idle, Quoted
  <2> QED
    BY <2>1, <2>2, <2>3, <2>4 DEF Inv, BookInv, DeskInv, TypeOK
<1>2. Inv /\ [Next]_vars => Inv'
  <2>1. ASSUME Inv, UNCHANGED vars PROVE Inv'
    <3>1. BookInv'
      BY <2>1, BookUntouched DEF Inv, vars
    <3>2. DeskInv'
      BY <2>1, <3>1 DEF Inv, DeskInv, BookInv, TypeOK, vars, deskVars, CallsAreOnQuotations,
                        RevisionsAreAnnounced, Quoted, Does
    <3> QED
      BY <3>1, <3>2 DEF Inv
  <2> QED
    BY <2>1, InvPreserved
<1> QED
  BY <1>1, <1>2, PTL DEF Spec

\* Every variable keeps its type.
THEOREM SalesTypeCorrect == Spec => []TypeOK
<1>1. Inv => TypeOK
  BY DEF Inv, DeskInv
<1> QED
  BY <1>1, SalesInvariance, PTL

\* A PO reference never has two orders that are alive or delivered, whoever
\* resubmits, cancels and orders again.
THEOREM PoHasOneOrder == Spec => []NoPoTwice
<1>1. Inv => NoPoTwice
  BY InvImpliesNoPoTwice DEF Inv
<1> QED
  BY <1>1, SalesInvariance, PTL

\* The exposure SAP reports stays within the limit.
THEOREM ExposureWithinLimit == Spec => []LimitIsKept
<1>1. Inv => LimitIsKept
  BY DEF Inv, BookInv
<1> QED
  BY <1>1, SalesInvariance, PTL

\* The orders that may be delivered never add up to more than the exposure SAP
\* reports, nor that to more than the limit.
THEOREM DeliverableIsCovered == Spec => []ExposureIsCovered
<1>1. Init => Covered
  <2> SUFFICES ASSUME Init PROVE Covered
    OBVIOUS
  <2>1. LiveConfirmed = {} /\ utilized = 0
    BY DEF Init, BookInit, LiveConfirmed, Placed
  <2>2. Worth(orders, {}) = Total(orders, {}) /\ Total(orders, {}) = 0
    BY FS_EmptySet, WorthIsTotal, TotalPick
  <2> QED
    BY <2>1, <2>2 DEF Covered, ExposureOf, Worth
<1>2. Inv /\ Covered /\ [Next]_vars => Covered'
  BY DeskStepIsBookStep, CoveredStep DEF Inv
<1>3. Inv /\ Covered => ExposureIsCovered
  BY DEF Inv, BookInv, Covered, ExposureIsCovered
<1> QED
  BY <1>1, <1>2, <1>3, SalesInvariance, PTL DEF Spec

\* Each time a customer asks for a revision is announced for itself.
THEOREM EveryRevisionIsAnnounced == Spec => []RevisionsAreAnnounced
<1>1. Inv => RevisionsAreAnnounced
  BY DEF Inv, DeskInv
<1> QED
  BY <1>1, SalesInvariance, PTL
=============================================================================
