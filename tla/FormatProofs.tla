---------------------------- MODULE FormatProofs -----------------------------
(***************************************************************************)
(* The bit fields of an entry behave like a record, however many frame and *)
(* slot numbers they have room for.                                        *)
(***************************************************************************)
EXTENDS PTEFormat, TLAPS

USE DEF PTE_ON_DISK, PTE_IN_TRANSITION

Words == 0 .. 4 * IndexValues - 1

(* A number that a field has room for is not cut off.                      *)
LEMMA SmallRemainder ==
  ASSUME NEW n \in Nat \ {0}, NEW a \in 0 .. n - 1
  PROVE  a % n = a
OBVIOUS

(* A word is the sum of its fields ...                                     *)
LEMMA Split ==
  ASSUME NEW w \in Words
  PROVE  /\ Get(w, "valid") \in {0, 1}
         /\ Get(w, "status") \in {0, 1}
         /\ Get(w, "index") \in 0 .. IndexValues - 1
         /\ w = Get(w, "valid") + 2 * Get(w, "status") + 4 * Get(w, "index")
<1>1. IndexValues \in Nat \ {0} /\ w \in Nat /\ w < 4 * IndexValues
  BY FormatAssumption DEF Words
<1>2. Get(w, "valid") = w % 2 /\ Get(w, "status") = (w \div 2) % 2
  BY <1>1 DEF Get, Weight, Values
<1>3. w \div 4 \in 0 .. IndexValues - 1
  BY <1>1
<1>4. Get(w, "index") = w \div 4
  BY <1>1, <1>3, SmallRemainder DEF Get, Weight, Values
<1> QED  BY <1>1, <1>2, <1>3, <1>4

(* ... and any fields make a word, which they can be read back from.       *)
LEMMA Join ==
  ASSUME NEW v \in {0, 1}, NEW s \in {0, 1}, NEW i \in 0 .. IndexValues - 1
  PROVE  LET w == v + 2 * s + 4 * i IN
           /\ w \in Words
           /\ Get(w, "valid") = v
           /\ Get(w, "status") = s
           /\ Get(w, "index") = i
<1> DEFINE w == v + 2 * s + 4 * i
<1>1. IndexValues \in Nat \ {0} /\ v \in Nat /\ s \in Nat /\ i \in Nat
  BY FormatAssumption
<1>2. w \in Words
  BY <1>1 DEF Words
<1>3. w % 2 = v /\ (w \div 2) % 2 = s /\ w \div 4 = i /\ w \div 1 = w
  BY <1>1
<1>4. i % IndexValues = i
  BY <1>1, SmallRemainder
<1> HIDE DEF w
<1>5. /\ Get(w, "valid") = v
      /\ Get(w, "status") = s
      /\ Get(w, "index") = i
  BY <1>3, <1>4 DEF Get, Weight, Values
<1> QED  BY <1>2, <1>5 DEF w

ValuesOf(field) == IF field = "index" THEN 0 .. IndexValues - 1 ELSE {0, 1}

(* A store to a field sets that field and leaves the others.               *)
LEMMA PutField ==
  ASSUME NEW w \in Words, NEW field \in Fields, NEW x \in ValuesOf(field)
  PROVE  /\ Put(w, field, x) \in Words
         /\ Get(Put(w, field, x), field) = x
         /\ \A other \in Fields \ {field} :
              Get(Put(w, field, x), other) = Get(w, other)
<1> DEFINE v == Get(w, "valid")
           s == Get(w, "status")
           i == Get(w, "index")
<1>1. /\ v \in {0, 1} /\ s \in {0, 1} /\ i \in 0 .. IndexValues - 1
      /\ w = v + 2 * s + 4 * i
  BY Split
<1>2. IndexValues \in Nat \ {0}
  BY FormatAssumption
<1>3. CASE field = "valid"
  <2>1. x \in {0, 1} /\ x % 2 = x
    BY <1>3 DEF ValuesOf
  <2>2. Put(w, field, x) = w + (x - v) * 1
    BY <1>3, <2>1 DEF Put, Weight, Values
  <2> HIDE DEF v, s, i
  <2>3. Put(w, field, x) = x + 2 * s + 4 * i
    BY <1>1, <2>1, <2>2
  <2> QED  BY <1>1, <1>3, <2>1, <2>3, Join DEF Fields, v, s, i
<1>4. CASE field = "status"
  <2>1. x \in {0, 1} /\ x % 2 = x
    BY <1>4 DEF ValuesOf
  <2>2. Put(w, field, x) = w + (x - s) * 2
    BY <1>4, <2>1 DEF Put, Weight, Values
  <2> HIDE DEF v, s, i
  <2>3. Put(w, field, x) = v + 2 * x + 4 * i
    BY <1>1, <2>1, <2>2
  <2> QED  BY <1>1, <1>4, <2>1, <2>3, Join DEF Fields, v, s, i
<1>5. CASE field = "index"
  <2>1. x \in 0 .. IndexValues - 1 /\ x % IndexValues = x
    BY <1>2, <1>5, SmallRemainder DEF ValuesOf
  <2>2. Put(w, field, x) = w + (x - i) * 4
    BY <1>5, <2>1 DEF Put, Weight, Values
  <2> HIDE DEF v, s, i
  <2>3. Put(w, field, x) = v + 2 * s + 4 * x
    BY <1>1, <1>2, <2>1, <2>2
  <2> QED  BY <1>1, <1>5, <2>1, <2>3, Join DEF Fields, v, s, i
<1> QED  BY <1>3, <1>4, <1>5 DEF Fields
------------------------------------------------------------------------------
(* While the stores are made, a field that none of them is left for has    *)
(* the value it is to have.                                                *)
FormatInv ==
  /\ word \in Words
  /\ entry \in [valid : {0, 1}, status : {0, 1}, index : 0 .. IndexValues - 1]
  /\ stores \in Seq(Fields \X Nat)
  /\ \A i \in DOMAIN stores : stores[i][2] = entry[stores[i][1]]
  /\ \A field \in Fields :
       \/ Get(word, field) = entry[field]
       \/ \E i \in DOMAIN stores : stores[i][1] = field

LEMMA FormatInvHolds == Spec => []FormatInv
<1>1. Init => FormatInv
  <2> SUFFICES ASSUME Init PROVE FormatInv
    OBVIOUS
  <2>1. 0 \in 0 .. IndexValues - 1 /\ word = 0 + 2 * 0 + 4 * 0
    BY FormatAssumption DEF Init
  <2>2. /\ word \in Words /\ Get(word, "valid") = 0
        /\ Get(word, "status") = 0 /\ Get(word, "index") = 0
    BY <2>1, Join
  <2> QED  BY <2>1, <2>2 DEF Init, FormatInv, ZeroPte, Fields
<1>2. FormatInv /\ [Next]_vars => FormatInv'
  <2> SUFFICES ASSUME FormatInv, [Next]_vars PROVE FormatInv'
    OBVIOUS
  <2>1. CASE UNCHANGED vars
    BY <2>1 DEF vars, FormatInv
  <2>2. CASE makePTEValid
    <3>1. PICK frame \in Frames :
            /\ stores' = << <<"valid", 1>>, <<"status", 0>>, <<"index", frame>> >>
            /\ entry' = [valid |-> 1, status |-> 0, index |-> frame]
            /\ word' = word
      BY <2>2 DEF makePTEValid, Begin, ValidStores, ValidPte
    <3>2. frame \in 0 .. IndexValues - 1 /\ frame \in Nat
      BY FormatAssumption
    <3>3. /\ stores' \in Seq(Fields \X Nat) /\ DOMAIN stores' = 1 .. 3
          /\ stores'[1] = <<"valid", 1>> /\ stores'[2] = <<"status", 0>>
          /\ stores'[3] = <<"index", frame>>
      BY <3>1, <3>2 DEF Fields
    <3> QED  BY <3>1, <3>2, <3>3 DEF FormatInv, Fields
  <2>3. CASE trimPage
    <3>1. /\ stores' = << <<"valid", 0>>, <<"status", PTE_IN_TRANSITION>> >>
          /\ entry' = [valid |-> 0, status |-> PTE_IN_TRANSITION,
                       index |-> entry.index]
          /\ word' = word /\ stores = <<>>
      BY <2>3 DEF trimPage, Begin, ToTransition
    <3>2. /\ stores' \in Seq(Fields \X Nat) /\ DOMAIN stores' = 1 .. 2
          /\ stores'[1] = <<"valid", 0>> /\ stores'[2] = <<"status", 1>>
      BY <3>1 DEF Fields
    <3>3. Get(word, "index") = entry.index
      BY <3>1 DEF FormatInv, Fields
    <3> QED  BY <3>1, <3>2, <3>3 DEF FormatInv, Fields
  <2>4. CASE getFreePage
    <3>1. PICK slot \in UsedSlots :
            /\ stores' = << <<"index", slot>>, <<"status", PTE_ON_DISK>> >>
            /\ entry' = [valid |-> entry.valid, status |-> PTE_ON_DISK,
                         index |-> slot]
            /\ word' = word /\ stores = <<>>
      BY <2>4 DEF getFreePage, Begin, ToDisk
    <3>2. slot \in 0 .. IndexValues - 1 /\ slot \in Nat
      BY FormatAssumption
    <3>3. /\ stores' \in Seq(Fields \X Nat) /\ DOMAIN stores' = 1 .. 2
          /\ stores'[1] = <<"index", slot>> /\ stores'[2] = <<"status", 0>>
      BY <3>1, <3>2 DEF Fields
    <3>4. Get(word, "valid") = entry.valid
      BY <3>1 DEF FormatInv, Fields
    <3> QED  BY <3>1, <3>2, <3>3, <3>4 DEF FormatInv, Fields
  <2>5. CASE Store
    <3>1. PICK field \in Fields, x \in Nat : stores[1] = <<field, x>>
      BY <2>5 DEF Store, FormatInv
    <3>2. /\ stores # <<>> /\ stores' = Tail(stores) /\ entry' = entry
          /\ word' = Put(word, field, x)
      BY <2>5, <3>1 DEF Store
    <3>3. /\ Len(stores) \in Nat /\ DOMAIN stores = 1 .. Len(stores)
          /\ 1 \in DOMAIN stores
          /\ stores' \in Seq(Fields \X Nat)
          /\ DOMAIN stores' = 1 .. Len(stores) - 1
          /\ \A i \in DOMAIN stores' : stores'[i] = stores[i + 1]
      BY <3>2 DEF FormatInv
    <3>4. x = entry[field] /\ x \in ValuesOf(field) /\ word \in Words
      <4>1. stores[1][2] = entry[stores[1][1]] /\ word \in Words
        BY <3>3 DEF FormatInv
      <4>2. stores[1][1] = field /\ stores[1][2] = x
        BY <3>1
      <4>3. entry[field] \in ValuesOf(field)
        BY DEF FormatInv, Fields, ValuesOf
      <4> QED  BY <4>1, <4>2, <4>3
    <3>5. /\ word' \in Words /\ Get(word', field) = x
          /\ \A other \in Fields \ {field} : Get(word', other) = Get(word, other)
      BY <3>2, <3>4, PutField
    <3>6. \A i \in DOMAIN stores' : stores'[i][2] = entry[stores'[i][1]]
      <4>1. \A i \in DOMAIN stores' : i + 1 \in DOMAIN stores
        BY <3>3
      <4>2. \A i \in DOMAIN stores : stores[i][2] = entry[stores[i][1]]
        BY DEF FormatInv
      <4> QED  BY <3>3, <4>1, <4>2
    <3>7. ASSUME NEW other \in Fields \ {field}, Get(word, other) # entry[other]
          PROVE  \E i \in DOMAIN stores' : stores'[i][1] = other
      <4>1. PICK i \in DOMAIN stores : stores[i][1] = other
        BY <3>7 DEF FormatInv
      <4>2. i # 1
        BY <3>1, <4>1
      <4>3. i - 1 \in DOMAIN stores' /\ (i - 1) + 1 = i
        BY <3>3, <4>2
      <4> QED  BY <3>3, <4>1, <4>3
    <3> QED  BY <3>2, <3>3, <3>4, <3>5, <3>6, <3>7 DEF FormatInv
  <2> QED  BY <2>1, <2>2, <2>3, <2>4, <2>5 DEF Next
<1> QED  BY <1>1, <1>2, PTL DEF Spec

(* The word reads as the record whenever the lock is free: no store to a   *)
(* field spills into another one, and none of a format change is missing   *)
(* (pagefaulthandler.c:15-17, trimmer.c:67-68, lists.c:88-91).             *)
THEOREM WordIsAlwaysEntry == Spec => []WordIsEntry
<1>1. FormatInv => WordIsEntry
  BY DEF FormatInv, WordIsEntry, EntryOf, Fields
<1> QED  BY <1>1, FormatInvHolds, PTL
==============================================================================
