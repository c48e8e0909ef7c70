-------------------------- MODULE Emulate_proofs --------------------------
(***************************************************************************)
(* Proofs about Emulate, for every set of devices: what mkdevinfo reads,   *)
(* prints and the kernel module sets up, bit by bit.                       *)
(***************************************************************************)
EXTENDS Emulate, TLAPS

---------------------------------------------------------------------------
(* The layout of the bit arrays.                                           *)

\* The arrays of a description, and how large they are.
LEMMA ArraysAre ==
  /\ Arrays = {"evbit", "keybit", "relbit", "absbit", "mscbit", "ledbit", "sndbit", "ffbit",
               "swbit", "rep", "key", "led", "snd", "sw", "keymap"}
  /\ \A a \in Arrays : Size[a] \in Nat \ {0} /\ Start[a] \in Nat
  /\ Size["evbit"] = 4 /\ Size["keybit"] = 96 /\ Size["key"] = 96 /\ Size["absbit"] = 8
  /\ \A a \in {"evbit", "relbit", "absbit", "mscbit", "ledbit", "led", "sndbit", "swbit", "rep"} :
       a \in Arrays /\ Size[a] <= 8
  /\ Start["evbit"] = 0 /\ Start["keybit"] = 4
BY DEF Arrays, Size, Start

\* No two arrays share a byte.
LEMMA ArraysApart ==
  \A a, b \in Arrays : a # b => Start[a] + Size[a] <= Start[b] \/ Start[b] + Size[b] <= Start[a]
BY DEF Arrays, Size, Start

\* A bit of the memory of a description belongs to one array only.
LEMMA BitAt ==
  ASSUME NEW info, WithinArrays(info), NEW a \in Arrays, NEW i \in 0..(BITS_PER_BYTE * Size[a] - 1)
  PROVE  BITS_PER_BYTE * Start[a] + i \in Memory(info) <=> i \in info.bits[a]
<1>1. i \in info.bits[a] => BITS_PER_BYTE * Start[a] + i \in Memory(info)
  BY DEF Memory
<1>2. ASSUME BITS_PER_BYTE * Start[a] + i \in Memory(info)
      PROVE  i \in info.bits[a]
  <2>1. PICK b \in Arrays : \E j \in info.bits[b] :
          BITS_PER_BYTE * Start[a] + i = BITS_PER_BYTE * Start[b] + j
    BY <1>2 DEF Memory
  <2> PICK j \in info.bits[b] : BITS_PER_BYTE * Start[a] + i = BITS_PER_BYTE * Start[b] + j
    BY <2>1
  <2>2. j \in 0..(BITS_PER_BYTE * Size[b] - 1)
    BY DEF WithinArrays
  <2>3. /\ Size[a] \in Nat /\ Start[a] \in Nat /\ Size[b] \in Nat /\ Start[b] \in Nat
        /\ a # b => Start[a] + Size[a] <= Start[b] \/ Start[b] + Size[b] <= Start[a]
    BY ArraysAre, ArraysApart, SMTT(30)
  <2>4. a = b
    BY <2>1, <2>2, <2>3 DEF BITS_PER_BYTE
  <2>5. i = j
    BY <2>1, <2>2, <2>3, <2>4 DEF BITS_PER_BYTE
  <2>6. QED
    BY <2>4, <2>5
<1>3. QED
  BY <1>1, <1>2

\* In particular the test of an event type finds what the description says.
LEMMA EventType ==
  ASSUME NEW info, WithinArrays(info), NEW t \in 0..31
  PROVE  TEST_ARRAY_BIT(info, "evbit", t) <=> t \in info.bits["evbit"]
<1>1. "evbit" \in Arrays /\ t \in 0..(BITS_PER_BYTE * Size["evbit"] - 1)
  BY ArraysAre DEF BITS_PER_BYTE
<1>2. QED
  BY <1>1, BitAt DEF TEST_ARRAY_BIT

\* All the event types that the programs ask for.
LEMMA Types ==
  {EV_KEY, EV_REL, EV_ABS, EV_MSC, EV_SW, EV_LED, EV_SND, EV_REP, EV_FF} \subseteq 0..31
BY DEF EV_KEY, EV_REL, EV_ABS, EV_MSC, EV_SW, EV_LED, EV_SND, EV_REP, EV_FF

---------------------------------------------------------------------------
(* Reading.                                                                *)

\* The queries: of which fields, and under which event types.
LEMMA QueriesAre ==
  /\ Len(Queries) = 20
  /\ \A j \in 1..20 :
       /\ Queries[j].field \in Arrays \cup {"limits", "id", "name", "phys", "uniq"}
       /\ Queries[j].types \subseteq 0..31
       /\ j <= 2 => Queries[j].types = {}
       /\ Queries[j].field = "limits" <=> j = 8
       /\ Queries[j].field = "absbit" <=> j = 7
  /\ Queries[2].field = "evbit" /\ Queries[7].types = {EV_ABS} /\ Queries[8].types = {EV_ABS}
<1>1. Len(Queries) = 20
  BY DEF Queries
<1>2. \A j \in 1..20 :
       /\ Queries[j].field \in Arrays \cup {"limits", "id", "name", "phys", "uniq"}
       /\ Queries[j].types \subseteq 0..31
  BY ArraysAre, Types DEF Queries, Query
<1>3. \A j \in 1..20 :
       /\ j <= 2 => Queries[j].types = {}
       /\ Queries[j].field = "limits" <=> j = 8
       /\ Queries[j].field = "absbit" <=> j = 7
  BY DEF Queries, Query
<1>4. Queries[2].field = "evbit" /\ Queries[7].types = {EV_ABS} /\ Queries[8].types = {EV_ABS}
  BY DEF Queries, Query
<1>5. QED
  BY <1>1, <1>2, <1>3, <1>4

\* An answer is a description.
LEMMA AnswerType ==
  ASSUME device \in Devices, IsInfo(devinfo), WithinArrays(devinfo), NEW j \in 1..20,
         j = 8 => devinfo.bits["absbit"] \subseteq device.bits["absbit"]
  PROVE  LET new == Answered(Queries[j])
         IN  /\ IsInfo(new) /\ WithinArrays(new)
             /\ \A a \in Arrays : new.bits[a] = IF Queries[j].field = a THEN device.bits[a]
                                                ELSE devinfo.bits[a]
             /\ \A f \in {"id", "phys", "uniq"} :
                  new[f] = IF Queries[j].field = f THEN device[f] ELSE devinfo[f]
             /\ IF j = 8 THEN new.limits = [i \in devinfo.bits["absbit"] |-> device.limits[i]]
                         ELSE new.limits = devinfo.limits
<1> DEFINE q == Queries[j]
           new == Answered(q)
<1>1. /\ IsInfo(device) /\ WithinArrays(device)
      /\ device.bits["absbit"] \subseteq DOMAIN device.limits
  BY DevicesAssumption
<1>2. /\ q.field \in Arrays \cup {"limits", "id", "name", "phys", "uniq"}
      /\ q.field = "limits" <=> j = 8
  BY QueriesAre
<1>3. {"limits", "id", "name", "phys", "uniq"} \cap Arrays = {} /\ "absbit" \in Arrays
  BY ArraysAre
<1>4. CASE q.field \in Arrays
  <2>1. new = [devinfo EXCEPT !.bits[q.field] = device.bits[q.field]]
    BY <1>3, <1>4 DEF Answered
  <2>2. /\ new.bits = [devinfo.bits EXCEPT ![q.field] = device.bits[q.field]]
        /\ DOMAIN new = DOMAIN devinfo
        /\ \A f \in {"id", "name", "phys", "uniq", "limits"} : new[f] = devinfo[f]
    BY <2>1 DEF IsInfo, Fields
  <2>3. \A a \in Arrays : new.bits[a] = IF q.field = a THEN device.bits[a] ELSE devinfo.bits[a]
    BY <1>4, <2>2 DEF IsInfo
  <2>4. new.bits \in [Arrays -> SUBSET Nat]
    BY <1>1, <1>4, <2>2 DEF IsInfo
  <2>5. IsInfo(new) /\ WithinArrays(new)
    <3> HIDE DEF new
    <3>1. IsInfo(new)
      BY <2>2, <2>4 DEF IsInfo
    <3>2. WithinArrays(new)
      BY <1>1, <2>3 DEF WithinArrays
    <3>3. QED
      BY <3>1, <3>2
  <2>6. QED
    BY <1>2, <1>3, <1>4, <2>2, <2>3, <2>5
<1>5. CASE q.field = "limits"
  <2>1. new = [devinfo EXCEPT !.limits = [i \in devinfo.bits["absbit"] |-> device.limits[i]]]
    BY <1>3, <1>5 DEF Answered
  <2>2. /\ new.limits = [i \in devinfo.bits["absbit"] |-> device.limits[i]]
        /\ DOMAIN new = DOMAIN devinfo
        /\ \A f \in {"id", "name", "phys", "uniq", "bits"} : new[f] = devinfo[f]
    BY <2>1 DEF IsInfo, Fields
  <2>3. DOMAIN new.limits \subseteq Axes /\ \A i \in DOMAIN new.limits : new.limits[i] \in Nat
    BY <1>1, <1>2, <1>5, <2>2 DEF IsInfo
  <2>4. IsInfo(new) /\ WithinArrays(new)
    BY <2>2, <2>3 DEF IsInfo, WithinArrays
  <2>5. QED
    BY <1>2, <1>3, <1>5, <2>2, <2>4
<1>6. CASE q.field \in {"id", "name", "phys", "uniq"}
  <2>1. new = [devinfo EXCEPT ![q.field] = device[q.field]]
    BY <1>3, <1>6 DEF Answered
  <2>2. /\ new[q.field] = device[q.field]
        /\ DOMAIN new = DOMAIN devinfo
        /\ \A f \in Fields \ {q.field} : new[f] = devinfo[f]
    BY <1>6, <2>1 DEF IsInfo, Fields
  <2>3. new.bits = devinfo.bits /\ new.limits = devinfo.limits
    BY <1>6, <2>2 DEF Fields
  <2>4. IsInfo(new) /\ WithinArrays(new)
    BY <1>1, <1>6, <2>2, <2>3 DEF IsInfo, WithinArrays, Fields
  <2>5. \A f \in {"id", "phys", "uniq"} : new[f] = IF q.field = f THEN device[f] ELSE devinfo[f]
    BY <1>6, <2>2 DEF Fields
  <2>6. QED
    BY <1>2, <1>3, <1>6, <2>3, <2>4, <2>5
<1>7. QED
  BY <1>2, <1>4, <1>5, <1>6

\* What the program asks next it asks if the device has the types.
LEMMA AsksWhatApplies ==
  ASSUME EmulateInv, status = "reading"
  PROVE  Asked(Queries[query]) <=> Applicable(Queries[query])
<1> DEFINE q == Queries[query]
<1>1. query \in 1..20 /\ IsInfo(devinfo) /\ WithinArrays(devinfo)
  BY QueriesAre DEF EmulateInv, Progress, TypeOK
<1>2. q.types \subseteq 0..31 /\ (query <= 2 => q.types = {})
  BY <1>1, QueriesAre
<1>3. \A t \in q.types : TEST_ARRAY_BIT(devinfo, "evbit", t) <=> t \in devinfo.bits["evbit"]
  BY <1>1, <1>2, EventType
<1>4. CASE query <= 2
  BY <1>2, <1>4 DEF Asked, Applicable
<1>5. CASE query > 2
  <2>1. Got("evbit")
    <3>1. 2 \in 1..(query - 1) /\ Queries[2].field = "evbit" /\ Applicable(Queries[2])
      BY <1>1, <1>5, QueriesAre DEF Applicable
    <3>2. QED
      BY <3>1 DEF Got
  <2>2. devinfo.bits["evbit"] = device.bits["evbit"]
    BY <2>1, ArraysAre DEF EmulateInv, ReadSoFar
  <2>3. QED
    BY <1>3, <2>2 DEF Asked, Applicable
<1>6. QED
  BY <1>1, <1>4, <1>5

\* An answer adds its field to what was got.
LEMMA GetsMore ==
  ASSUME query \in 1..20, UNCHANGED <<device, args>>, NEW f, query' \in {query, query + 1}
  PROVE  Got(f)' <=> Got(f) \/ (/\ query' = query + 1
                                /\ Queries[query].field = f /\ Applicable(Queries[query]))
<1>1. \A q : Applicable(q)' <=> Applicable(q)
  BY DEF Applicable
<1>2. Got(f)' <=> \E j \in 1..(query' - 1) : Queries[j].field = f /\ Applicable(Queries[j])
  BY <1>1 DEF Got
<1>3. CASE query' = query
  BY <1>2, <1>3 DEF Got
<1>4. CASE query' = query + 1
  <2>1. 1..(query' - 1) = 1..(query - 1) \cup {query}
    BY <1>4
  <2>2. QED
    BY <1>2, <1>4, <2>1 DEF Got
<1>5. QED
  BY <1>3, <1>4

\* What a query changes of the description.
LEMMA ReadsOn ==
  ASSUME EmulateInv, read_devinfo
  PROVE  ReadSoFar' /\ IsInfo(devinfo)' /\ WithinArrays(devinfo)'
<1> DEFINE q == Queries[query]
<1>1. /\ query \in 1..20 /\ IsInfo(devinfo) /\ WithinArrays(devinfo) /\ device \in Devices
      /\ ReadSoFar /\ UNCHANGED <<device, args>> /\ query' \in {query, query + 1}
  BY QueriesAre DEF EmulateInv, Progress, TypeOK, read_devinfo
<1>2. Asked(q) <=> Applicable(q)
  BY AsksWhatApplies DEF read_devinfo
<1>3. \A f : Got(f)' <=> Got(f) \/ (query' = query + 1 /\ q.field = f /\ Applicable(q))
  BY <1>1, GetsMore
<1>4. "absbit" \in Arrays /\ {"limits", "id", "phys", "uniq"} \cap Arrays = {}
  BY ArraysAre
<1>5. CASE Asked(q) /\ devinfo' = Answered(q) /\ query' = query + 1
  <2>1. devinfo.bits["absbit"] \subseteq device.bits["absbit"]
    BY <1>1, <1>4 DEF ReadSoFar
  <2>2. /\ IsInfo(devinfo)' /\ WithinArrays(devinfo)'
        /\ \A a \in Arrays : devinfo'.bits[a] = IF q.field = a THEN device.bits[a]
                                                ELSE devinfo.bits[a]
        /\ \A f \in {"id", "phys", "uniq"} :
             devinfo'[f] = IF q.field = f THEN device[f] ELSE devinfo[f]
        /\ IF query = 8 THEN devinfo'.limits = [i \in devinfo.bits["absbit"] |-> device.limits[i]]
                        ELSE devinfo'.limits = devinfo.limits
    <3>1. LET new == Answered(Queries[query])
          IN  /\ IsInfo(new) /\ WithinArrays(new)
              /\ \A a \in Arrays : new.bits[a] = IF Queries[query].field = a THEN device.bits[a]
                                                 ELSE devinfo.bits[a]
              /\ \A f \in {"id", "phys", "uniq"} :
                   new[f] = IF Queries[query].field = f THEN device[f] ELSE devinfo[f]
              /\ IF query = 8 THEN new.limits = [i \in devinfo.bits["absbit"] |-> device.limits[i]]
                              ELSE new.limits = devinfo.limits
      BY <1>1, <2>1, AnswerType
    <3>2. QED
      BY <1>5, <3>1 DEF IsInfo, WithinArrays
  <2>3. \A f : Got(f)' <=> Got(f) \/ q.field = f
    BY <1>2, <1>3, <1>5
  <2>4. \A a \in Arrays : devinfo'.bits[a] = IF Got(a)' THEN device'.bits[a] ELSE {}
    BY <1>1, <2>2, <2>3 DEF ReadSoFar
  <2>5. \A f \in {"id", "phys", "uniq"} : Got(f)' => devinfo'[f] = device'[f]
    BY <1>1, <2>2, <2>3 DEF ReadSoFar
  <2>6. Got("limits")' => \A i \in devinfo'.bits["absbit"] :
          i \in DOMAIN devinfo'.limits /\ devinfo'.limits[i] = device'.limits[i]
    <3>1. CASE query = 8
      <4>1. devinfo'.bits["absbit"] = devinfo.bits["absbit"]
        BY <1>4, <2>2, <3>1, QueriesAre
      <4>2. QED
        BY <1>1, <2>2, <3>1, <4>1
    <3>2. CASE query # 8
      <4>1. Got("limits")' => Got("limits")
        BY <1>1, <2>3, <3>2, QueriesAre
      <4>2. Got("limits") => query > 8
        <5>1. ASSUME NEW j \in 1..(query - 1), Queries[j].field = "limits"
              PROVE  query > 8
          BY <1>1, <5>1, QueriesAre
        <5>2. QED
          BY <5>1 DEF Got
      <4>3. query > 8 => devinfo'.bits["absbit"] = devinfo.bits["absbit"]
        BY <1>1, <1>4, <2>2, QueriesAre
      <4>4. QED
        BY <1>1, <2>2, <3>2, <4>1, <4>2, <4>3 DEF ReadSoFar
    <3>3. QED
      BY <3>1, <3>2
  <2>7. QED
    BY <2>2, <2>4, <2>5, <2>6 DEF ReadSoFar
<1>6. CASE devinfo' = devinfo /\ (Asked(q) => query' = query)
  <2>1. \A f : Got(f)' <=> Got(f)
    <3>1. query' = query + 1 => ~Asked(q)
      BY <1>1, <1>6
    <3>2. QED
      BY <1>2, <1>3, <3>1
  <2>2. QED
    BY <1>1, <1>6, <2>1 DEF ReadSoFar, IsInfo, WithinArrays
<1>7. QED
  BY <1>5, <1>6 DEF read_devinfo

---------------------------------------------------------------------------
(* Printing.                                                               *)

\* Rows of bytes leave the first eight bytes alone, and no element moves up.
LEMMA RowsKeep ==
  ASSUME NEW bits \in SUBSET Nat
  PROVE  /\ bits \subseteq 0..63 => Rows(bits, BITS_PER_BYTE) = bits
         /\ Rows(bits, BITS_PER_BYTE) \cap 0..63 = bits \cap 0..63
<1> DEFINE to(b) == LET e == b \div 8 IN (e - e \div 9) * 8 + (b % 8)
<1>1. Rows(bits, BITS_PER_BYTE) = {to(b) : b \in {c \in bits : (c \div 8) % 9 # 8}}
  BY DEF Rows, BITS_PER_BYTE
<1>2. \A b \in 0..63 : to(b) = b /\ (b \div 8) % 9 # 8
  OBVIOUS
<1>3. ASSUME NEW b \in Nat, (b \div 8) % 9 # 8, to(b) \in 0..63
      PROVE  b \in 0..63
  <2> DEFINE e == b \div 8
             r == b % 8
  <2>1. e \in Nat /\ r \in 0..7 /\ b = 8 * e + r
    OBVIOUS
  <2>2. to(b) = (e - e \div 9) * 8 + r
    OBVIOUS
  <2> HIDE DEF e, r, to
  <2>3. (e - e \div 9) * 8 + r \in 0..63
    BY <1>3, <2>2
  <2>4. e % 9 # 8
    BY <1>3 DEF e
  <2>5. e <= 7
    BY <2>1, <2>3, <2>4
  <2>6. QED
    BY <2>1, <2>5
<1> HIDE DEF to
<1>4. bits \subseteq 0..63 => Rows(bits, BITS_PER_BYTE) = bits
  BY <1>1, <1>2
<1>5. Rows(bits, BITS_PER_BYTE) \cap 0..63 = bits \cap 0..63
  BY <1>1, <1>2, <1>3
<1>6. QED
  BY <1>4, <1>5

\* Whatever the size of an element, none moves up.
LEMMA RowsShrink ==
  ASSUME NEW bits \in SUBSET Nat, NEW width \in {8, 32}, NEW m \in Nat, bits \subseteq 0..m
  PROVE  Rows(bits, width) \subseteq 0..m
<1>1. ASSUME NEW b \in Nat
      PROVE  LET e == b \div width IN (e - e \div 9) * width + (b % width) \in 0..b
  <2>1. CASE width = 8
    BY <2>1
  <2>2. CASE width = 32
    BY <2>2
  <2>3. QED
    BY <2>1, <2>2
<1>2. QED
  BY <1>1 DEF Rows

\* The event types that the arrays of a row are read and printed under.
ShortRows == {"evbit", "relbit", "absbit", "mscbit", "ledbit", "led", "sndbit", "swbit", "rep"}

\* What is read of a field that the device has, when all queries are made.
LEMMA ReadInFull ==
  ASSUME EmulateInv, status = "writing"
  PROVE  /\ devinfo.bits["evbit"] = device.bits["evbit"]
         /\ devinfo.id = device.id /\ devinfo.phys = device.phys /\ devinfo.uniq = device.uniq
         /\ \A a \in (ShortRows \ {"evbit"}) \cup {"keybit", "key"} :
              TypeOf[a] \in device.bits["evbit"] => devinfo.bits[a] = device.bits[a]
         /\ EV_ABS \in device.bits["evbit"] => \A i \in device.bits["absbit"] :
              i \in DOMAIN devinfo.limits /\ devinfo.limits[i] = device.limits[i]
<1>1. query = 21 /\ ReadSoFar
  BY QueriesAre DEF EmulateInv, Progress
<1>2. \A j \in 1..20 : Applicable(Queries[j]) => Got(Queries[j].field)
  BY <1>1 DEF Got
<1>3. Got("evbit") /\ Got("id") /\ Got("phys") /\ Got("uniq")
  <2>1. /\ Queries[1] = Query("id", {}) /\ Queries[2] = Query("evbit", {})
        /\ Queries[19] = Query("phys", {}) /\ Queries[20] = Query("uniq", {})
    BY DEF Queries
  <2>2. QED
    BY <1>2, <2>1 DEF Query, Applicable
<1>4. ASSUME NEW a \in (ShortRows \ {"evbit"}) \cup {"keybit", "key"},
             TypeOf[a] \in device.bits["evbit"]
      PROVE  Got(a)
  <2>1. \E j \in 1..20 : Queries[j] = Query(a, {TypeOf[a]})
    BY SMTT(30) DEF Queries, ShortRows, TypeOf
  <2>2. PICK j \in 1..20 : Queries[j] = Query(a, {TypeOf[a]})
    BY <2>1
  <2>3. a # "keymap"
    BY DEF ShortRows
  <2>4. QED
    BY <1>2, <1>4, <2>2, <2>3 DEF Query, Applicable
<1>5. EV_ABS \in device.bits["evbit"] => Got("limits")
  BY <1>2, QueriesAre DEF Applicable
<1>6. (ShortRows \ {"evbit"}) \cup {"keybit", "key"} \subseteq Arrays /\ "evbit" \in Arrays
      /\ "absbit" \in ShortRows \ {"evbit"} /\ TypeOf["absbit"] = EV_ABS
  BY ArraysAre DEF ShortRows, TypeOf
<1>7. QED
  BY <1>1, <1>3, <1>4, <1>5, <1>6 DEF ReadSoFar

\* What the compiler makes of an array: within its size, and the same for a short one.
LEMMA CompiledAs ==
  ASSUME EmulateInv, status = "writing"
  PROVE  /\ \A a \in Arrays : Compiled(a) \subseteq 0..(BITS_PER_BYTE * Size[a] - 1)
         /\ \A a \in ShortRows : Compiled(a) = Says(device, a)
         /\ \A a \in {"keybit", "key"} :
              /\ Compiled(a) \cap 0..63 = Says(device, a) \cap 0..63
              /\ EV_KEY \notin device.bits["evbit"] => Compiled(a) = {}
<1>1. /\ IsInfo(devinfo) /\ WithinArrays(devinfo)
      /\ IsInfo(device) /\ WithinArrays(device)
  BY DevicesAssumption DEF EmulateInv, TypeOK
<1>2. \A t \in 0..31 : TEST_ARRAY_BIT(devinfo, "evbit", t) <=> t \in device.bits["evbit"]
  BY <1>1, EventType, ReadInFull
<1>3. \A a \in ShortRows \cup {"keybit", "key"} :
        Printed(a) <=> a = "evbit" \/ TypeOf[a] \in device.bits["evbit"]
  <2> DEFINE Has(t) == TEST_ARRAY_BIT(devinfo, "evbit", t)
  <2>1. Printed("evbit")
    BY DEF Printed
  <2>2. /\ Printed("relbit") = Has(EV_REL) /\ Printed("absbit") = Has(EV_ABS)
        /\ Printed("mscbit") = Has(EV_MSC) /\ Printed("sndbit") = Has(EV_SND)
        /\ Printed("swbit") = Has(EV_SW) /\ Printed("rep") = Has(EV_REP)
    BY DEF Printed
  <2>3. /\ Printed("ledbit") = Has(EV_LED) /\ Printed("led") = Has(EV_LED)
        /\ Printed("keybit") = Has(EV_KEY) /\ Printed("key") = Has(EV_KEY)
    BY DEF Printed
  <2> HIDE DEF Has
  <2>4. \A a \in (ShortRows \ {"evbit"}) \cup {"keybit", "key"} : Printed(a) = Has(TypeOf[a])
    BY <2>2, <2>3 DEF ShortRows, TypeOf
  <2>5. \A a \in (ShortRows \ {"evbit"}) \cup {"keybit", "key"} : TypeOf[a] \in 0..31
    BY Types DEF ShortRows, TypeOf
  <2>6. \A t \in 0..31 : Has(t) <=> t \in device.bits["evbit"]
    BY <1>2 DEF Has
  <2>7. ASSUME NEW a \in (ShortRows \ {"evbit"}) \cup {"keybit", "key"}
        PROVE  Printed(a) <=> TypeOf[a] \in device.bits["evbit"]
    BY <2>4, <2>5, <2>6
  <2>8. QED
    BY <2>1, <2>7
<1>4. \A a \in ShortRows \cup {"keybit", "key"} :
        a \in Arrays /\ a # "ffbit" /\ a # "keymap" /\ (a # "evbit" => TypeOf[a] \in 0..31)
  BY ArraysAre, Types DEF ShortRows, TypeOf
<1>5. \A a \in Arrays : Source(a) \subseteq 0..(BITS_PER_BYTE * Size[a] - 1) /\ Source(a) \in SUBSET Nat
  <2> SUFFICES ASSUME NEW a \in Arrays
               PROVE  Source(a) \subseteq 0..(BITS_PER_BYTE * Size[a] - 1)
    BY ArraysAre
  <2>1. Size[a] \in Nat \ {0} /\ "keybit" \in Arrays
    BY ArraysAre
  <2>2. devinfo.bits[IF a = "ffbit" THEN "keybit" ELSE a] \subseteq Nat
    BY <1>1, <2>1 DEF IsInfo
  <2>3. QED
    BY <2>1, <2>2 DEF Source, BITS_PER_BYTE
<1>6. \A a \in ShortRows \cup {"keybit", "key"} :
        Printed(a) => Source(a) = device.bits[a] /\ Says(device, a) = device.bits[a]
  <2> SUFFICES ASSUME NEW a \in ShortRows \cup {"keybit", "key"}, Printed(a)
               PROVE  Source(a) = device.bits[a] /\ Says(device, a) = device.bits[a]
    OBVIOUS
  <2>1. devinfo.bits[a] = device.bits[a]
    BY <1>3, ReadInFull
  <2>2. \A b \in devinfo.bits[a] : b < BITS_PER_BYTE * Size[a]
    <3>1. Size[a] \in Nat
      BY <1>4, ArraysAre
    <3>2. QED
      BY <1>1, <1>4, <3>1 DEF WithinArrays, BITS_PER_BYTE
  <2>3. Source(a) = devinfo.bits[a]
    BY <1>4, <2>2 DEF Source
  <2>4. QED
    BY <1>3, <2>1, <2>3 DEF Says
<1>7. \A a \in ShortRows \cup {"keybit", "key"} : ~Printed(a) => Compiled(a) = {} /\ Says(device, a) = {}
  BY <1>3 DEF Compiled, Says
<1>8. ASSUME NEW a \in Arrays
      PROVE  Compiled(a) \subseteq 0..(BITS_PER_BYTE * Size[a] - 1)
  <2>1. BITS_PER_BYTE * Size[a] - 1 \in Nat
    BY ArraysAre DEF BITS_PER_BYTE
  <2>2. Rows(Source(a), 8) \subseteq 0..(BITS_PER_BYTE * Size[a] - 1)
    BY <1>5, <2>1, RowsShrink
  <2>3. Rows(Source(a), 32) \subseteq 0..(BITS_PER_BYTE * Size[a] - 1)
    BY <1>5, <2>1, RowsShrink
  <2>4. BITS_PER_BYTE = 8 /\ 4 * BITS_PER_BYTE = 32
    BY DEF BITS_PER_BYTE
  <2>5. CASE a = "rep"
    BY <1>5, <2>5 DEF Compiled
  <2>6. CASE a = "keymap"
    BY <2>3, <2>4, <2>6 DEF Compiled
  <2>7. CASE a # "rep" /\ a # "keymap"
    BY <2>2, <2>4, <2>7 DEF Compiled
  <2>8. QED
    BY <2>5, <2>6, <2>7
<1>9. ASSUME NEW a \in ShortRows, Printed(a)
      PROVE  Compiled(a) = device.bits[a]
  <2>1. device.bits[a] \subseteq 0..63 /\ device.bits[a] \in SUBSET Nat
    <3>1. Size[a] \in Nat /\ Size[a] <= 8
      BY ArraysAre DEF ShortRows
    <3>2. device.bits[a] \subseteq 0..(BITS_PER_BYTE * Size[a] - 1)
      BY <1>1, <1>4 DEF WithinArrays
    <3>3. QED
      BY <3>1, <3>2 DEF BITS_PER_BYTE
  <2>2. Rows(device.bits[a], BITS_PER_BYTE) = device.bits[a]
    BY <2>1, RowsKeep
  <2>3. CASE a = "rep"
    BY <1>6, <1>9, <2>3 DEF Compiled
  <2>4. CASE a # "rep"
    BY <1>4, <1>6, <1>9, <2>2, <2>4 DEF Compiled
  <2>5. QED
    BY <2>3, <2>4
<1>10. ASSUME NEW a \in {"keybit", "key"}, Printed(a)
       PROVE  Compiled(a) \cap 0..63 = device.bits[a] \cap 0..63
  <2>1. Source(a) = device.bits[a] /\ Source(a) \in SUBSET Nat
    BY <1>4, <1>5, <1>6, <1>10
  <2>2. Compiled(a) = Rows(Source(a), BITS_PER_BYTE)
    BY <1>10 DEF Compiled
  <2>3. QED
    BY <2>1, <2>2, RowsKeep
<1>11. \A a \in ShortRows : Compiled(a) = Says(device, a)
  BY <1>6, <1>7, <1>9
<1>12. \A a \in {"keybit", "key"} :
         /\ Compiled(a) \cap 0..63 = Says(device, a) \cap 0..63
         /\ EV_KEY \notin device.bits["evbit"] => Compiled(a) = {}
  <2>1. \A a \in {"keybit", "key"} : TypeOf[a] = EV_KEY /\ a # "evbit"
    BY DEF TypeOf
  <2>2. QED
    BY <1>3, <1>6, <1>7, <1>10, <2>1
<1>13. QED
  BY <1>8, <1>11, <1>12

\* What the compiler makes of the states of switches and sounds: nothing, unless the switch is
\* on that is looked at for it.
LEMMA StatesCompiled ==
  ASSUME EmulateInv, status = "writing"
  PROVE  /\ Compiled("sw") = IF 5 \in Says(device, "sw") THEN Says(device, "sw") ELSE {}
         /\ Compiled("snd") = IF 10 \in Says(device, "sw") THEN Says(device, "snd") ELSE {}
<1>1. query = 21 /\ ReadSoFar /\ IsInfo(devinfo) /\ WithinArrays(devinfo)
  BY QueriesAre DEF EmulateInv, Progress, TypeOK
<1>2. /\ {"sw", "snd"} \subseteq Arrays /\ Size["sw"] = 2 /\ Size["snd"] = 1
      /\ Start["sw"] = 239 /\ Start["snd"] = 238
  BY DEF Arrays, Size, Start
<1>3. /\ \A j \in 1..20 : Queries[j].field = "sw" => Queries[j].types = {EV_SW}
      /\ \A j \in 1..20 : Queries[j].field = "snd" => Queries[j].types = {EV_SND, EV_SW}
      /\ Queries[16].field = "sw" /\ Queries[13].field = "snd"
  BY SMTT(30) DEF Queries, Query
<1>4. Got("sw") <=> EV_SW \in device.bits["evbit"]
  BY <1>1, <1>3 DEF Got, Applicable
<1>5. Got("snd") <=> {EV_SND, EV_SW} \subseteq device.bits["evbit"]
  BY <1>1, <1>3 DEF Got, Applicable
<1>6. devinfo.bits["sw"] = Says(device, "sw")
  BY <1>1, <1>2, <1>4 DEF ReadSoFar, Says, TypeOf
<1>7. devinfo.bits["snd"] = IF EV_SW \in device.bits["evbit"] THEN Says(device, "snd") ELSE {}
  BY <1>1, <1>2, <1>5 DEF ReadSoFar, Says, TypeOf
<1>8. /\ devinfo.bits["sw"] \subseteq 0..15 /\ devinfo.bits["snd"] \subseteq 0..7
  BY <1>1, <1>2 DEF WithinArrays, BITS_PER_BYTE
<1>9. Printed("sw") <=> 5 \in devinfo.bits["sw"]
  <2>1. BITS_PER_BYTE * Start["sw"] + 5 \in Memory(devinfo) <=> 5 \in devinfo.bits["sw"]
    BY <1>1, <1>2, BitAt DEF BITS_PER_BYTE
  <2>2. QED
    BY <2>1 DEF Printed, TEST_ARRAY_BIT, EV_SW
<1>10. Printed("snd") <=> 10 \in devinfo.bits["sw"]
  <2>1. BITS_PER_BYTE * Start["sw"] + 10 \in Memory(devinfo) <=> 10 \in devinfo.bits["sw"]
    BY <1>1, <1>2, BitAt DEF BITS_PER_BYTE
  <2>2. BITS_PER_BYTE * Start["snd"] + EV_SND = BITS_PER_BYTE * Start["sw"] + 10
    BY <1>2 DEF BITS_PER_BYTE, EV_SND
  <2>3. QED
    BY <2>1, <2>2 DEF Printed, TEST_ARRAY_BIT
<1>11. ASSUME NEW a \in {"sw", "snd"}
       PROVE  Compiled(a) = IF Printed(a) THEN devinfo.bits[a] ELSE {}
  <2>1. Source(a) = devinfo.bits[a]
    BY <1>2, <1>8 DEF Source, BITS_PER_BYTE
  <2>2. Rows(Source(a), BITS_PER_BYTE) = Source(a)
    BY <1>8, <2>1, RowsKeep
  <2>3. QED
    BY <2>1, <2>2 DEF Compiled
<1>12. 10 \in Says(device, "sw") => EV_SW \in device.bits["evbit"]
  BY DEF Says, TypeOf
<1>13. QED
  BY <1>6, <1>7, <1>9, <1>10, <1>11, <1>12

\* The entry that is printed is a description, agrees with the device and is complete.
LEMMA WritesEntry ==
  ASSUME EmulateInv, write_devinfo
  PROVE  /\ out' = << out'[1] >> /\ IsInfo(out'[1]) /\ WithinArrays(out'[1])
         /\ RowsSurvive' /\ EntryComplete'
<1> DEFINE new == [devinfo EXCEPT !.bits = [a \in Arrays |-> Compiled(a)],
                                  !.limits = IF TEST_ARRAY_BIT(devinfo, "evbit", EV_ABS)
                                             THEN devinfo.limits ELSE << >>]
<1>1. /\ status = "writing" /\ out' = << new >> /\ device' = device
      /\ IsInfo(devinfo) /\ WithinArrays(devinfo) /\ IsInfo(device) /\ WithinArrays(device)
  BY DevicesAssumption DEF EmulateInv, TypeOK, write_devinfo
<1>2. /\ DOMAIN new = Fields
      /\ new.bits = [a \in Arrays |-> Compiled(a)]
      /\ new.limits = IF TEST_ARRAY_BIT(devinfo, "evbit", EV_ABS) THEN devinfo.limits ELSE << >>
      /\ \A f \in {"id", "name", "phys", "uniq"} : new[f] = devinfo[f]
  BY <1>1 DEF IsInfo, Fields
<1>3. out' = << out'[1] >> /\ out'[1] = new
  BY <1>1
<1> HIDE DEF new
<1>4. \A a \in Arrays : new.bits[a] = Compiled(a) /\ Compiled(a) \subseteq 0..(BITS_PER_BYTE * Size[a] - 1)
  BY <1>1, <1>2, CompiledAs
<1>5. TEST_ARRAY_BIT(devinfo, "evbit", EV_ABS) <=> EV_ABS \in device.bits["evbit"]
  BY <1>1, Types, EventType, ReadInFull
<1>6. IsInfo(new)
  <2>1. \A a \in Arrays : Compiled(a) \in SUBSET Nat
    BY <1>4, ArraysAre
  <2>2. new.bits \in [Arrays -> SUBSET Nat]
    BY <1>2, <2>1
  <2>3. DOMAIN new.limits \subseteq Axes /\ \A i \in DOMAIN new.limits : new.limits[i] \in Nat
    <3>1. CASE TEST_ARRAY_BIT(devinfo, "evbit", EV_ABS)
      BY <1>1, <1>2, <3>1 DEF IsInfo
    <3>2. CASE ~TEST_ARRAY_BIT(devinfo, "evbit", EV_ABS)
      BY <1>2, <3>2
    <3>3. QED
      BY <3>1, <3>2
  <2>4. QED
    BY <1>1, <1>2, <2>2, <2>3 DEF IsInfo
<1>7. WithinArrays(new)
  BY <1>4 DEF WithinArrays
<1>8. \A a \in ShortRows : a \in Arrays /\ new.bits[a] = Says(device, a)
  BY <1>1, <1>4, ArraysAre, CompiledAs DEF ShortRows
<1>9. \A a \in {"keybit", "key"} : new.bits[a] \cap 0..63 = Says(device, a) \cap 0..63
  BY <1>1, <1>4, ArraysAre, CompiledAs
<1>10. new.id = device.id /\ new.phys = device.phys /\ new.uniq = device.uniq
  BY <1>1, <1>2, ReadInFull
<1>11. \A i \in Says(device, "absbit") : i \in DOMAIN new.limits /\ new.limits[i] = device.limits[i]
  <2>1. Says(device, "absbit") = IF EV_ABS \in device.bits["evbit"] THEN device.bits["absbit"] ELSE {}
    BY DEF Says, TypeOf
  <2>2. QED
    BY <1>1, <1>2, <1>5, <2>1, ReadInFull
<1>15. /\ new.bits["sw"] = IF 5 \in Says(device, "sw") THEN Says(device, "sw") ELSE {}
       /\ new.bits["snd"] = IF 10 \in Says(device, "sw") THEN Says(device, "snd") ELSE {}
  BY <1>1, <1>4, ArraysAre, StatesCompiled
<1>12. RowsSurvive'
  <2>1. \A a : Says(device, a)' = Says(device, a)
    BY <1>1 DEF Says
  <2>2. QED
    BY <1>1, <1>3, <1>8, <1>9, <1>10, <1>11, <1>15, <2>1 DEF RowsSurvive, ShortRows
<1>13. EntryComplete'
  <2>1. new.bits["evbit"] = device.bits["evbit"]
    BY <1>8 DEF ShortRows, Says
  <2>2. new.bits["keybit"] # {} => EV_KEY \in new.bits["evbit"]
    BY <1>1, <1>4, <2>1, ArraysAre, CompiledAs
  <2>3. Says(new, "absbit") = Says(device, "absbit")
    BY <1>8, <2>1 DEF ShortRows, Says, TypeOf
  <2>4. QED
    BY <1>3, <1>11, <2>2, <2>3 DEF EntryComplete, Says
<1>14. QED
  BY <1>3, <1>6, <1>7, <1>12, <1>13

---------------------------------------------------------------------------
(* Setting up.                                                             *)

\* The sections of orng_setup_device.
LEMMA SectionsAre ==
  /\ Len(Sections) = 14
  /\ \A j \in 1..14 :
       /\ Sections[j].field \in DOMAIN Kernel \cup {"rep"}
       /\ Sections[j].field = "rep" <=> j = 14
       /\ Sections[j].field = "absbit" <=> j = 5
       /\ Sections[j].types \subseteq 0..31
  /\ Sections[14].types = {EV_REP} /\ Sections[5].types = {EV_ABS}
  /\ \A a \in DOMAIN Kernel : \E j \in 1..13 :
       Sections[j].field = a /\ Sections[j].types = IF a = "evbit" THEN {} ELSE {TypeOf[a]}
<1>1. Len(Sections) = 14
  BY DEF Sections
<1>2. DOMAIN Kernel = {"evbit", "keybit", "relbit", "absbit", "mscbit", "ledbit", "sndbit", "ffbit",
                       "swbit", "key", "led", "snd", "sw"}
  BY DEF Kernel, Capabilities, States
<1>3. \A j \in 1..14 :
       /\ Sections[j].field \in DOMAIN Kernel \cup {"rep"}
       /\ Sections[j].field = "rep" <=> j = 14
       /\ Sections[j].field = "absbit" <=> j = 5
  BY <1>2 DEF Sections, Section
<1>4. \A j \in 1..14 : Sections[j].types \subseteq 0..31
  BY Types DEF Sections, Section
<1>5. Sections[14].types = {EV_REP} /\ Sections[5].types = {EV_ABS}
  BY DEF Sections, Section
<1>6. \A a \in DOMAIN Kernel : \E j \in 1..13 :
       Sections[j].field = a /\ Sections[j].types = IF a = "evbit" THEN {} ELSE {TypeOf[a]}
  <2> DEFINE at == [evbit |-> 1, keybit |-> 2, key |-> 3, relbit |-> 4, absbit |-> 5, mscbit |-> 6,
                    ledbit |-> 7, led |-> 8, sndbit |-> 9, snd |-> 10, ffbit |-> 11, swbit |-> 12,
                    sw |-> 13]
  <2>1. \A a \in DOMAIN Kernel : at[a] \in 1..13
    BY <1>2
  <2>2. \A a \in DOMAIN Kernel : Sections[at[a]].field = a
    BY <1>2 DEF Sections, Section
  <2>3. \A a \in DOMAIN Kernel :
          Sections[at[a]].types = IF a = "evbit" THEN {} ELSE {TypeOf[a]}
    <3> DEFINE S(j) == Sections[j].types
    <3>1. /\ S(1) = {} /\ S(2) = {EV_KEY} /\ S(3) = {EV_KEY} /\ S(4) = {EV_REL} /\ S(5) = {EV_ABS}
          /\ S(6) = {EV_MSC} /\ S(7) = {EV_LED} /\ S(8) = {EV_LED} /\ S(9) = {EV_SND}
          /\ S(10) = {EV_SND} /\ S(11) = {EV_FF} /\ S(12) = {EV_SW} /\ S(13) = {EV_SW}
      BY DEF Sections, Section
    <3> HIDE DEF S
    <3>2. \A a \in DOMAIN Kernel : S(at[a]) = IF a = "evbit" THEN {} ELSE {TypeOf[a]}
      BY <1>2, <3>1 DEF TypeOf
    <3>3. QED
      BY <3>2 DEF S
  <2> HIDE DEF at
  <2>4. QED
    BY <2>1, <2>2, <2>3
<1>7. QED
  BY <1>1, <1>3, <1>4, <1>5, <1>6

\* Where the arrays of the simulated device are.
LEMMA KernelIs ==
  /\ Kernel["evbit"] = Start["evbit"] /\ Kernel["keybit"] = Start["keybit"]
  /\ Kernel["keybit"] = 4 /\ Kernel["relbit"] = 100
  /\ \A a \in DOMAIN Kernel :
       /\ a \in Arrays /\ a # "rep" /\ Kernel[a] \in Nat
       /\ BITS_PER_BYTE * Kernel[a] + BITS_PER_BYTE * Size[a] <= End(a)
       /\ End(a) \in 1..(BITS_PER_BYTE * (CapabilityBytes + StateBytes))
       /\ a \notin {"evbit", "keybit"} => Kernel[a] >= 100
  /\ {"evbit", "keybit", "absbit"} \subseteq DOMAIN Kernel
<1>1. DOMAIN Kernel = {"evbit", "keybit", "relbit", "absbit", "mscbit", "ledbit", "sndbit", "ffbit",
                       "swbit", "key", "led", "snd", "sw"}
  BY DEF Kernel, Capabilities, States
<1>2. /\ Kernel["evbit"] = 0 /\ Kernel["keybit"] = 4 /\ Kernel["relbit"] = 100
      /\ Kernel["absbit"] = 104 /\ Kernel["mscbit"] = 112 /\ Kernel["ledbit"] = 116
      /\ Kernel["sndbit"] = 120 /\ Kernel["ffbit"] = 124 /\ Kernel["swbit"] = 140
      /\ Kernel["key"] = 144 /\ Kernel["led"] = 240 /\ Kernel["snd"] = 244 /\ Kernel["sw"] = 248
  BY DEF Kernel, Capabilities, States
<1>3. \A a \in DOMAIN Kernel :
        End(a) = IF a \in {"key", "led", "snd", "sw"} THEN 2016 ELSE 1152
  BY <1>1 DEF End, States, BITS_PER_BYTE, CapabilityBytes, StateBytes
<1>4. BITS_PER_BYTE = 8 /\ BITS_PER_BYTE * (CapabilityBytes + StateBytes) = 2016
  BY DEF BITS_PER_BYTE, CapabilityBytes, StateBytes
<1>5. \A a \in DOMAIN Kernel : a \in Arrays /\ a # "rep"
  BY <1>1, ArraysAre
<1>6. \A a \in DOMAIN Kernel : Kernel[a] \in Nat /\ (a \notin {"evbit", "keybit"} => Kernel[a] >= 100)
  BY <1>1, <1>2
<1>7. \A a \in DOMAIN Kernel : 8 * Kernel[a] + 8 * Size[a] <= End(a)
  BY <1>1, <1>2, <1>3 DEF Size
<1>8. QED
  BY <1>1, <1>2, <1>3, <1>4, <1>5, <1>6, <1>7, ArraysAre

\* What an array of the entry has is found, and fits where it is put.
LEMMA FindsAll ==
  ASSUME IsInfo(entry), WithinArrays(entry), NEW a \in DOMAIN Kernel, NEW b \in entry.bits[a]
  PROVE  /\ b \in 0..(BITS_PER_BYTE * Size[a] - 1) /\ b \in Found(a)
         /\ BITS_PER_BYTE * Kernel[a] + b \in Placed(a)
<1>1. /\ a \in Arrays /\ Size[a] \in Nat \ {0} /\ Kernel[a] \in Nat
      /\ BITS_PER_BYTE * Kernel[a] + BITS_PER_BYTE * Size[a] <= End(a)
      /\ End(a) \in Nat
  BY ArraysAre, KernelIs
<1>2. b \in 0..(BITS_PER_BYTE * Size[a] - 1)
  BY <1>1 DEF WithinArrays
<1>3. BITS_PER_BYTE * Start[a] + b \in Memory(entry)
  BY <1>1, <1>2, BitAt
<1>4. b \in 0..(NBITS_IN_ARRAY(a) - 1)
  BY <1>1, <1>2 DEF NBITS_IN_ARRAY, BITS_PER_BYTE
<1>5. b \in Found(a)
  BY <1>3, <1>4 DEF Found
<1>6. BITS_PER_BYTE * Kernel[a] + b < End(a)
  BY <1>1, <1>2 DEF BITS_PER_BYTE
<1>7. QED
  BY <1>2, <1>5, <1>6 DEF Placed, Reached

\* What is put where the event types and the keys are comes from there.
LEMMA PutInPlace ==
  ASSUME IsInfo(entry), WithinArrays(entry), NEW a \in DOMAIN Kernel, NEW p \in Placed(a)
  PROVE  /\ p \in 0..(BITS_PER_BYTE * (CapabilityBytes + StateBytes) - 1)
         /\ p < BITS_PER_BYTE * Kernel["keybit"] => p \in entry.bits["evbit"]
         /\ p \in BITS_PER_BYTE * Kernel["keybit"]..(BITS_PER_BYTE * Kernel["relbit"] - 1)
              => p - BITS_PER_BYTE * Kernel["keybit"] \in entry.bits["keybit"]
<1>1. PICK i \in Found(a) : p = BITS_PER_BYTE * Kernel[a] + i /\ p < End(a)
  BY DEF Placed, Reached
<1>2. i \in Nat /\ BITS_PER_BYTE * Start[a] + i \in Memory(entry)
  BY DEF Found
<1>3. /\ Kernel[a] \in Nat /\ End(a) \in 1..(BITS_PER_BYTE * (CapabilityBytes + StateBytes))
      /\ a \notin {"evbit", "keybit"} => Kernel[a] >= 100
      /\ a \in {"evbit", "keybit"} => Kernel[a] = Start[a]
      /\ Kernel["keybit"] = 4 /\ Kernel["relbit"] = 100
  BY KernelIs
<1>4. p \in 0..(BITS_PER_BYTE * (CapabilityBytes + StateBytes) - 1)
  <2>1. BITS_PER_BYTE * (CapabilityBytes + StateBytes) = 2016 /\ BITS_PER_BYTE = 8
    BY DEF BITS_PER_BYTE, CapabilityBytes, StateBytes
  <2>2. p \in Nat
    BY <1>1, <1>2, <1>3, <2>1
  <2>3. End(a) \in 1..2016
    BY <1>3, <2>1
  <2>4. QED
    BY <1>1, <2>1, <2>2, <2>3
<1>5. ASSUME p < 800
      PROVE  p \in Memory(entry)
  <2>1. a \in {"evbit", "keybit"}
    BY <1>1, <1>2, <1>3, <1>5 DEF BITS_PER_BYTE
  <2>2. QED
    BY <1>1, <1>2, <1>3, <2>1
<1>6. ASSUME p < 32
      PROVE  p \in entry.bits["evbit"]
  <2>1. "evbit" \in Arrays /\ p \in 0..(BITS_PER_BYTE * Size["evbit"] - 1)
        /\ p = BITS_PER_BYTE * Start["evbit"] + p
    BY <1>4, <1>6, ArraysAre DEF BITS_PER_BYTE
  <2>2. p \in Memory(entry)
    BY <1>4, <1>5, <1>6
  <2>3. QED
    BY <2>1, <2>2, BitAt
<1>7. ASSUME p \in 32..799
      PROVE  p - 32 \in entry.bits["keybit"]
  <2>1. "keybit" \in Arrays /\ p - 32 \in 0..(BITS_PER_BYTE * Size["keybit"] - 1)
        /\ p = BITS_PER_BYTE * Start["keybit"] + (p - 32)
    BY <1>7, ArraysAre DEF BITS_PER_BYTE
  <2>2. p \in Memory(entry)
    BY <1>5, <1>7
  <2>3. QED
    BY <2>1, <2>2, BitAt
<1>8. BITS_PER_BYTE * Kernel["keybit"] = 32 /\ BITS_PER_BYTE * Kernel["relbit"] = 800
  BY <1>3 DEF BITS_PER_BYTE
<1>9. QED
  BY <1>4, <1>6, <1>7, <1>8

\* What is found behind an array of a stateless entry and put behind those of the device: only
\* the repeat rate, and only by the loops over effects and switches.
LEMMA PutBehind ==
  ASSUME IsInfo(entry), WithinArrays(entry), NEW a \in DOMAIN Kernel, NEW p \in Spilled(a),
         Stateless(entry)
  PROVE  entry.bits["rep"] # {} /\ a \in {"ffbit", "swbit"}
<1>1. PICK i \in Found(a) : p = BITS_PER_BYTE * Kernel[a] + i /\ ~(p < End(a))
  BY DEF Spilled, Placed, Reached
<1>2. i \in 0..(NBITS_IN_ARRAY(a) - 1) /\ BITS_PER_BYTE * Start[a] + i \in Memory(entry)
  BY DEF Found
<1>3. PICK x \in Arrays : \E b \in entry.bits[x] :
        BITS_PER_BYTE * Start[a] + i = BITS_PER_BYTE * Start[x] + b
  BY <1>2 DEF Memory
<1>4. PICK b \in entry.bits[x] : BITS_PER_BYTE * Start[a] + i = BITS_PER_BYTE * Start[x] + b
  BY <1>3
<1>5. b \in 0..(BITS_PER_BYTE * Size[x] - 1)
  BY DEF WithinArrays
<1>6. x \in Arrays \ {"key", "led", "snd", "sw", "keymap"}
  BY DEF Stateless
<1>7. x # "rep" => Start[x] + Size[x] <= 132
  BY <1>6 DEF Arrays, Size, Start
<1>8. Start[x] \in Nat /\ Size[x] \in Nat /\ Start[x] + Size[x] <= 140
  BY <1>6 DEF Arrays, Size, Start
<1>9. DOMAIN Kernel = {"evbit", "keybit", "relbit", "absbit", "mscbit", "ledbit", "sndbit", "ffbit",
                       "swbit", "key", "led", "snd", "sw"}
  BY DEF Kernel, Capabilities, States
<1>10. a \in {"key", "led", "snd", "sw"} => Start[a] >= 140 /\ Start[a] \in Nat
  BY DEF Start
<1>11. /\ a \notin {"key", "led", "snd", "sw"} => End(a) = 1152
       /\ a \notin {"key", "led", "snd", "sw"} =>
            Kernel[a] \in Nat /\ Start[a] \in Nat /\ NBITS_IN_ARRAY(a) = 64 * Size[a]
  <2>1. a \notin {"key", "led", "snd", "sw"} => End(a) = 1152
    BY <1>9 DEF End, States, BITS_PER_BYTE, CapabilityBytes, StateBytes
  <2>2. a \in Arrays /\ Size[a] \in Nat /\ Start[a] \in Nat /\ Kernel[a] \in Nat
    BY ArraysAre, KernelIs
  <2>3. NBITS_IN_ARRAY(a) = 64 * Size[a]
    BY <2>2 DEF NBITS_IN_ARRAY, BITS_PER_BYTE
  <2>4. QED
    BY <2>1, <2>2, <2>3
<1>12. a \notin {"key", "led", "snd", "sw"}
  BY <1>2, <1>4, <1>5, <1>8, <1>10 DEF BITS_PER_BYTE
<1>13. 8 * Kernel[a] + i >= 1152 /\ i \in Nat /\ i < 64 * Size[a]
  BY <1>1, <1>2, <1>11, <1>12, ArraysAre, KernelIs DEF BITS_PER_BYTE
<1>14. 8 * Start[a] + i < 8 * 140 /\ (x # "rep" => 8 * Start[a] + i < 8 * 132)
  BY <1>4, <1>5, <1>7, <1>8, <1>11, <1>12, <1>13 DEF BITS_PER_BYTE
<1>15. /\ Kernel["evbit"] = 0 /\ Kernel["keybit"] = 4 /\ Kernel["relbit"] = 100
       /\ Kernel["absbit"] = 104 /\ Kernel["mscbit"] = 112 /\ Kernel["ledbit"] = 116
       /\ Kernel["sndbit"] = 120 /\ Kernel["ffbit"] = 124 /\ Kernel["swbit"] = 140
  BY DEF Kernel, Capabilities, States
<1>16. /\ Start["evbit"] = 0 /\ Start["keybit"] = 4 /\ Start["relbit"] = 100
       /\ Start["absbit"] = 102 /\ Start["mscbit"] = 110 /\ Start["ledbit"] = 111
       /\ Start["sndbit"] = 113 /\ Start["ffbit"] = 114 /\ Start["swbit"] = 130
       /\ Size["evbit"] = 4 /\ Size["keybit"] = 96 /\ Size["relbit"] = 2 /\ Size["absbit"] = 8
       /\ Size["mscbit"] = 1 /\ Size["ledbit"] = 2 /\ Size["sndbit"] = 1
       /\ Size["ffbit"] = 16 /\ Size["swbit"] = 2
  BY DEF Start, Size
<1>17. a \in {"ffbit", "swbit"}
  BY <1>9, <1>12, <1>13, <1>14, <1>15, <1>16
<1>18. x = "rep"
  BY <1>13, <1>14, <1>15, <1>16, <1>17
<1>19. QED
  BY <1>4, <1>17, <1>18

\* What is put behind is a number of a bit.
LEMMA SpilledType ==
  ASSUME NEW a \in DOMAIN Kernel
  PROVE  Spilled(a) \subseteq Nat
BY KernelIs DEF Spilled, Reached, Found, BITS_PER_BYTE

\* Every bit behind the arrays comes from a section.
LEMMA SpilledIs ==
  SpilledSoFar <=>
    \A p \in indev.spilled : \E j \in 1..copied :
      Applies(Sections[j]) /\ Sections[j].field # "rep" /\ p \in Spilled(Sections[j].field)
BY DEF SpilledSoFar

\* The test of a section, as the entry says it.
LEMMA AppliesIf ==
  ASSUME IsInfo(entry), WithinArrays(entry), NEW j \in 1..14
  PROVE  Applies(Sections[j]) <=> Sections[j].types \subseteq entry.bits["evbit"]
BY SectionsAre, EventType DEF Applies

---------------------------------------------------------------------------
(* The invariant.                                                          *)

\* The fields of the simulated device.
DeviceFields == {"id", "name", "phys", "uniq", "memory", "spilled", "rep", "limits"}

\* It holds before anything is read.
LEMMA EmulateInit == Init => EmulateInv
<1> SUFFICES ASSUME Init PROVE EmulateInv
  OBVIOUS
<1>1. /\ device \in Devices /\ args \in SUBSET Options /\ status = "starting" /\ query = 1
      /\ devinfo = Blank /\ out = << >> /\ stage = "absent" /\ entry = Blank /\ copied = 0
      /\ DOMAIN indev = DeviceFields /\ indev.memory = {} /\ indev.rep = {}
      /\ indev.spilled = {}
  BY DEF Init, MkInit, SetupInit, DeviceFields
<1>2. IsInfo(Blank) /\ WithinArrays(Blank) /\ \A a \in Arrays : Blank.bits[a] = {}
  BY DEF IsInfo, WithinArrays, Blank, Fields
<1>3. TypeOK
  BY <1>1, <1>2, QueriesAre, SectionsAre DEF TypeOK, Statuses, Setups
<1>4. \A f : ~Got(f)
  BY <1>1 DEF Got
<1>5. Progress /\ ReadSoFar
  <2>1. Progress
    BY <1>1, QueriesAre, SectionsAre DEF Progress
  <2>2. ReadSoFar
    BY <1>1, <1>2, <1>4 DEF ReadSoFar
  <2>3. QED
    BY <2>1, <2>2
<1>6. RowsSurvive /\ EntryComplete
  BY <1>1 DEF RowsSurvive, EntryComplete
<1>7. CopiedSoFar /\ KeysInPlace /\ SpilledSoFar
  BY <1>1 DEF CopiedSoFar, KeysInPlace, SpilledSoFar
<1>8. QED
  BY <1>1, <1>3, <1>5, <1>6, <1>7 DEF EmulateInv, DeviceFields

\* A step of mkdevinfo does not touch the module, nor a step of the module mkdevinfo.
LEMMA SetupStands ==
  ASSUME EmulateInv, UNCHANGED setupvars
  PROVE  CopiedSoFar' /\ KeysInPlace' /\ SpilledSoFar' /\ DOMAIN indev' = DeviceFields
<1> USE DEF setupvars
<1>1. \A a : Placed(a)' = Placed(a) /\ Spilled(a)' = Spilled(a)
  BY DEF Spilled, Placed, Reached, Found, Memory
<1>2. Limits' = Limits
  BY DEF Limits, Found, Memory
<1>3. \A j : Applies(Sections[j])' <=> Applies(Sections[j])
  BY DEF Applies, TEST_ARRAY_BIT, Memory
<1>4. Says(entry, "rep")' = Says(entry, "rep")
  BY DEF Says
<1>5. QED
  BY <1>1, <1>2, <1>3, <1>4 DEF EmulateInv, CopiedSoFar, KeysInPlace, SpilledSoFar, DeviceFields

\* And what mkdevinfo has read and printed stands while the module is set up.
LEMMA EntryStands ==
  ASSUME EmulateInv, UNCHANGED mkvars
  PROVE  ReadSoFar' /\ RowsSurvive' /\ EntryComplete'
<1> USE DEF mkvars
<1>1. \A f : Got(f)' <=> Got(f)
  BY DEF Got, Applicable
<1>2. \A a : Says(device, a)' = Says(device, a) /\ Says(out[1], a)' = Says(out[1], a)
  BY DEF Says
<1>3. ReadSoFar'
  BY <1>1 DEF EmulateInv, ReadSoFar
<1>4. RowsSurvive' /\ EntryComplete'
  BY <1>2 DEF EmulateInv, RowsSurvive, EntryComplete
<1>5. QED
  BY <1>3, <1>4

\* A step of mkdevinfo keeps the invariant.
LEMMA MkKeeps ==
  ASSUME EmulateInv, MkNext, UNCHANGED setupvars
  PROVE  EmulateInv'
<1>1. /\ TypeOK /\ Progress /\ ReadSoFar /\ RowsSurvive /\ EntryComplete
      /\ UNCHANGED <<device, args, stage, entry, copied, indev>>
  BY DEF EmulateInv, MkNext, open, read_devinfo, cname_of_dev, write_devinfo, setupvars
<1>2. CopiedSoFar' /\ KeysInPlace' /\ SpilledSoFar' /\ DOMAIN indev' = DeviceFields
  BY SetupStands
<1>3. status \in {"starting", "reading", "naming", "writing"} /\ out = << >> /\ stage = "absent"
  BY <1>1 DEF MkNext, open, read_devinfo, cname_of_dev, write_devinfo, Progress
<1>4. CASE open \/ cname_of_dev
  <2>1. UNCHANGED <<query, devinfo, out>> /\ status' \in {"reading", "failed", "writing", "crashed"}
        /\ (status' = "reading" => status = "starting")
        /\ (status' = "writing" => status = "naming")
    BY <1>4 DEF open, cname_of_dev
  <2>2. TypeOK'
    BY <1>1, <2>1 DEF TypeOK, Statuses, IsInfo, WithinArrays
  <2>3. Progress'
    BY <1>1, <1>3, <2>1 DEF Progress
  <2>4. ReadSoFar'
    <3>1. \A f : Got(f)' <=> Got(f)
      BY <1>1, <2>1 DEF Got, Applicable
    <3>2. QED
      BY <1>1, <2>1, <3>1 DEF ReadSoFar
  <2>5. RowsSurvive' /\ EntryComplete'
    BY <1>3, <2>1 DEF RowsSurvive, EntryComplete
  <2>6. QED
    BY <1>2, <2>2, <2>3, <2>4, <2>5 DEF EmulateInv, DeviceFields
<1>5. CASE read_devinfo
  <2>1. /\ out' = out /\ status = "reading" /\ query \in 1..20 /\ query' \in {query, query + 1}
        /\ status' = IF query' = query THEN "failed" ELSE IF query = 20 THEN "naming" ELSE "reading"
    BY <1>1, <1>5, QueriesAre DEF read_devinfo, Progress
  <2>2. ReadSoFar' /\ IsInfo(devinfo)' /\ WithinArrays(devinfo)'
    BY <1>5, ReadsOn
  <2>3. TypeOK'
    <3>1. \A info \in {devinfo', entry'} \cup {out'[n] : n \in 1..Len(out')} :
            IsInfo(info) /\ WithinArrays(info)
      <4>1. IsInfo(devinfo') /\ WithinArrays(devinfo')
        BY <2>2 DEF IsInfo, WithinArrays
      <4>2. QED
        BY <1>1, <2>1, <4>1 DEF TypeOK
    <3>2. query' \in 1..21
      BY <2>1
    <3>3. QED
      BY <1>1, <2>1, <3>1, <3>2, QueriesAre, SMTT(30) DEF TypeOK, Statuses
  <2>4. Progress'
    <3>1. status' \in {"starting", "reading"} => query' \in 1..20
      BY <2>1
    <3>2. status' \in {"naming", "writing"} => query' = 21
      BY <2>1
    <3>3. status' # "exited"
      BY <2>1
    <3>4. QED
      BY <1>1, <1>3, <2>1, <3>1, <3>2, <3>3, QueriesAre DEF Progress
  <2>5. RowsSurvive' /\ EntryComplete'
    BY <1>3, <2>1 DEF RowsSurvive, EntryComplete
  <2>6. QED
    BY <1>2, <2>2, <2>3, <2>4, <2>5 DEF EmulateInv, DeviceFields
<1>6. CASE write_devinfo
  <2>1. status' = "exited" /\ UNCHANGED <<query, devinfo>>
    BY <1>6 DEF write_devinfo
  <2>2. /\ out' = << out'[1] >> /\ IsInfo(out'[1]) /\ WithinArrays(out'[1])
        /\ RowsSurvive' /\ EntryComplete'
    BY <1>6, WritesEntry
  <2>3. TypeOK'
    <3>1. \A info \in {devinfo', entry'} \cup {out'[n] : n \in 1..Len(out')} :
            IsInfo(info) /\ WithinArrays(info)
      <4>1. {out'[n] : n \in 1..Len(out')} = {out'[1]}
        <5>1. Len(out') = 1
          BY <2>2
        <5>2. QED
          BY <5>1
      <4>2. IsInfo(devinfo') /\ WithinArrays(devinfo') /\ IsInfo(entry') /\ WithinArrays(entry')
        BY <1>1, <2>1 DEF TypeOK
      <4>3. QED
        BY <2>2, <4>1, <4>2
    <3>2. QED
      BY <1>1, <2>1, <3>1 DEF TypeOK, Statuses
  <2>4. Progress'
    BY <1>1, <1>3, <2>1, <2>2 DEF Progress
  <2>5. ReadSoFar'
    <3>1. \A f : Got(f)' <=> Got(f)
      BY <1>1, <2>1 DEF Got, Applicable
    <3>2. QED
      BY <1>1, <2>1, <3>1 DEF ReadSoFar
  <2>6. QED
    BY <1>2, <2>2, <2>3, <2>4, <2>5 DEF EmulateInv, DeviceFields
<1>7. QED
  BY <1>4, <1>5, <1>6 DEF MkNext

\* Building the module with the entry keeps it.
LEMMA BuildKeeps ==
  ASSUME EmulateInv, Build
  PROVE  EmulateInv'
<1>1. /\ TypeOK /\ Progress /\ stage = "absent" /\ status = "exited"
      /\ stage' = "copying" /\ entry' = out[1] /\ UNCHANGED mkvars /\ copied' = copied
      /\ DOMAIN indev = DeviceFields /\ CopiedSoFar /\ SpilledSoFar
  BY DEF EmulateInv, Build, Identify, DeviceFields
<1>2. /\ DOMAIN indev' = DeviceFields /\ indev'.memory = indev.memory /\ indev'.rep = indev.rep
      /\ indev'.spilled = indev.spilled
  BY <1>1 DEF Build, Identify, DeviceFields
<1>3. copied = 0 /\ indev.memory = {} /\ indev.spilled = {} /\ out = << out[1] >>
  BY <1>1 DEF Progress
<1>4. TypeOK'
  <2>1. IsInfo(out[1]) /\ WithinArrays(out[1])
    <3>1. 1 \in 1..Len(out)
      BY <1>3
    <3>2. QED
      BY <1>1, <3>1 DEF TypeOK
  <2>2. \A info \in {devinfo', entry'} \cup {out'[n] : n \in 1..Len(out')} :
          IsInfo(info) /\ WithinArrays(info)
    BY <1>1, <2>1 DEF TypeOK, mkvars
  <2>3. QED
    BY <1>1, <1>2, <1>3, <2>2 DEF TypeOK, mkvars, Setups
<1>5. Progress'
  BY <1>1, <1>3, SectionsAre DEF Progress, mkvars
<1>6. ReadSoFar' /\ RowsSurvive' /\ EntryComplete'
  BY <1>1, EntryStands
<1>7. CopiedSoFar' /\ KeysInPlace' /\ SpilledSoFar'
  BY <1>1, <1>2, <1>3 DEF CopiedSoFar, KeysInPlace, SpilledSoFar
<1>8. QED
  BY <1>2, <1>4, <1>5, <1>6, <1>7 DEF EmulateInv, DeviceFields

\* A section that is copied adds what it finds, the last one the repeat rate.
LEMMA CopyAdds ==
  ASSUME EmulateInv, Copy
  PROVE  LET s == Sections[copied + 1]
         IN  /\ DOMAIN indev' = DeviceFields
             /\ indev'.memory = indev.memory \cup (IF s.field = "rep" THEN {} ELSE Placed(s.field))
             /\ indev'.spilled = indev.spilled \cup (IF s.field = "rep" THEN {} ELSE Spilled(s.field))
             /\ indev'.rep = IF s.field = "rep" THEN entry.bits["rep"] ELSE indev.rep
             /\ indev'.limits = IF s.field = "absbit" THEN Limits ELSE indev.limits
<1> DEFINE a == Sections[copied + 1].field
<1>1. DOMAIN indev = DeviceFields
  BY DEF EmulateInv, DeviceFields
<1>2. CASE a = "rep"
  BY <1>1, <1>2 DEF Copy, DeviceFields
<1>3. CASE a = "absbit"
  BY <1>1, <1>3 DEF Copy, DeviceFields
<1>4. CASE a # "rep" /\ a # "absbit"
  BY <1>1, <1>4 DEF Copy, DeviceFields
<1>5. QED
  BY <1>2, <1>3, <1>4

\* Copying or passing over a section keeps the invariant.
LEMMA SetupKeeps ==
  ASSUME EmulateInv, SetupNext, UNCHANGED mkvars
  PROVE  EmulateInv'
<1>1. /\ TypeOK /\ Progress /\ CopiedSoFar /\ KeysInPlace /\ SpilledSoFar /\ DOMAIN indev = DeviceFields
      /\ stage = "copying" /\ entry' = entry /\ IsInfo(entry) /\ WithinArrays(entry)
  BY DEF EmulateInv, SetupNext, Skip, Copy, kzalloc_fails, DeviceFields, TypeOK
<1>2. copied \in 0..13 /\ status = "exited" /\ entry = out[1]
  BY <1>1, SectionsAre DEF TypeOK, Progress
<1>3. ReadSoFar' /\ RowsSurvive' /\ EntryComplete'
  BY EntryStands
<1>4. \A f : Placed(f)' = Placed(f) /\ Spilled(f)' = Spilled(f)
  BY <1>1 DEF Spilled, Placed, Reached, Found, Memory
<1>5. Limits' = Limits
  BY <1>1 DEF Limits, Found, Memory
<1>6. \A j : Applies(Sections[j])' <=> Applies(Sections[j])
  BY <1>1 DEF Applies, TEST_ARRAY_BIT, Memory
<1>7. Says(entry, "rep")' = Says(entry, "rep")
  BY <1>1 DEF Says
<1>8. \A info \in {devinfo', entry'} \cup {out'[n] : n \in 1..Len(out')} :
        IsInfo(info) /\ WithinArrays(info)
  BY <1>1 DEF TypeOK, mkvars
<1>9. ASSUME Done
      PROVE  copied' = copied + 1 /\ copied' \in 1..14 /\ stage' = IF copied' = 14 THEN "ready" ELSE "copying"
  BY <1>2, <1>9, SectionsAre DEF Done
<1>10. CASE kzalloc_fails
  <2>1. stage' = "failed" /\ UNCHANGED <<copied, indev>>
    BY <1>10 DEF kzalloc_fails
  <2>2. TypeOK'
    BY <1>1, <1>8, <2>1 DEF TypeOK, mkvars, Setups
  <2>3. Progress'
    BY <1>1, <1>2, <2>1 DEF Progress, mkvars
  <2>4. CopiedSoFar' /\ KeysInPlace' /\ SpilledSoFar'
    BY <1>1, <1>4, <1>5, <1>6, <2>1 DEF CopiedSoFar, KeysInPlace, SpilledSoFar
  <2>5. QED
    BY <1>1, <1>3, <2>1, <2>2, <2>3, <2>4 DEF EmulateInv, DeviceFields
<1>11. CASE Skip
  <2>1. /\ copied' = copied + 1 /\ copied' \in 1..14 /\ ~Applies(Sections[copied + 1]) /\ indev' = indev
        /\ stage' = IF copied' = 14 THEN "ready" ELSE "copying"
    BY <1>9, <1>11 DEF Skip
  <2>2. TypeOK'
    BY <1>1, <1>8, <2>1, SectionsAre DEF TypeOK, mkvars, Setups
  <2>3. Progress'
    BY <1>1, <1>2, <2>1, SectionsAre DEF Progress, mkvars
  <2>4. \A j \in 1..copied' : Applies(Sections[j]) => j \in 1..copied
    BY <1>2, <2>1
  <2>5. copied' >= 5 /\ Applies(Sections[5]) => copied >= 5
    BY <1>2, <2>1
  <2>6. indev'.rep = IF stage' = "ready" THEN Says(entry, "rep") ELSE {}
    <3>1. indev.rep = {}
      BY <1>1 DEF CopiedSoFar
    <3>2. copied' = 14 => EV_REP \notin entry.bits["evbit"]
      <4>1. Applies(Sections[14]) <=> EV_REP \in entry.bits["evbit"]
        BY <1>1, AppliesIf, SectionsAre
      <4>2. QED
        BY <1>2, <2>1, <4>1
    <3>3. QED
      BY <2>1, <3>1, <3>2 DEF Says, TypeOf
  <2>7. CopiedSoFar'
    BY <1>1, <1>4, <1>5, <1>6, <1>7, <2>1, <2>4, <2>5, <2>6 DEF CopiedSoFar
  <2>8. KeysInPlace' /\ SpilledSoFar'
    <3>1. \A j \in 1..copied : j \in 1..copied'
      BY <1>2, <2>1
    <3>2. QED
      BY <1>1, <1>4, <1>6, <2>1, <3>1 DEF KeysInPlace, SpilledSoFar
  <2>9. QED
    BY <1>1, <1>3, <2>1, <2>2, <2>3, <2>7, <2>8 DEF EmulateInv, DeviceFields
<1>12. CASE Copy
  <2> DEFINE a == Sections[copied + 1].field
             new == IF a = "rep" THEN {} ELSE Placed(a)
             behind == IF a = "rep" THEN {} ELSE Spilled(a)
  <2>1. /\ copied' = copied + 1 /\ copied' \in 1..14 /\ Applies(Sections[copied + 1])
        /\ stage' = IF copied' = 14 THEN "ready" ELSE "copying"
    BY <1>9, <1>12 DEF Copy
  <2>2. /\ DOMAIN indev' = DeviceFields /\ indev'.memory = indev.memory \cup new
        /\ indev'.spilled = indev.spilled \cup behind
        /\ indev'.rep = IF a = "rep" THEN entry.bits["rep"] ELSE indev.rep
        /\ indev'.limits = IF a = "absbit" THEN Limits ELSE indev.limits
    BY <1>12, CopyAdds
  <2>3. /\ a \in DOMAIN Kernel \cup {"rep"} /\ (a = "rep" <=> copied' = 14)
        /\ (a = "absbit" <=> copied' = 5)
    BY <1>2, <2>1, SectionsAre
  <2>4. \A p \in new :
          /\ p \in 0..(BITS_PER_BYTE * (CapabilityBytes + StateBytes) - 1)
          /\ p < BITS_PER_BYTE * Kernel["keybit"] => p \in entry.bits["evbit"]
          /\ p \in BITS_PER_BYTE * Kernel["keybit"]..(BITS_PER_BYTE * Kernel["relbit"] - 1)
               => p - BITS_PER_BYTE * Kernel["keybit"] \in entry.bits["keybit"]
    BY <1>1, <2>3, PutInPlace
  <2>5. TypeOK'
    <3>1. indev'.memory \cup indev'.spilled \subseteq Nat
      <4>1. new \subseteq Nat /\ behind \subseteq Nat
        BY <2>3, <2>4, SpilledType
      <4>2. QED
        BY <1>1, <2>2, <4>1 DEF TypeOK
    <3>2. copied' \in 0..Len(Sections) /\ stage' \in Setups
      BY <2>1, SectionsAre DEF Setups
    <3>3. QED
      BY <1>1, <1>8, <3>1, <3>2 DEF TypeOK, mkvars
  <2>6. Progress'
    BY <1>1, <1>2, <2>1, SectionsAre DEF Progress, mkvars
  <2>7. \A j \in 1..copied' : Applies(Sections[j]) /\ Sections[j].field # "rep"
          => Placed(Sections[j].field) \subseteq indev'.memory
    <3>1. \A j \in 1..copied' : j \in 1..copied \/ j = copied + 1
      BY <1>2, <2>1
    <3>2. QED
      BY <1>1, <2>2, <3>1 DEF CopiedSoFar
  <2>8. copied' >= 5 /\ Applies(Sections[5]) => indev'.limits = Limits
    <3>1. copied' >= 5 => copied >= 5 \/ copied' = 5
      BY <1>2, <2>1
    <3>2. QED
      BY <1>1, <2>2, <2>3, <3>1 DEF CopiedSoFar
  <2>9. indev'.rep = IF stage' = "ready" THEN Says(entry, "rep") ELSE {}
    <3>1. indev.rep = {}
      BY <1>1 DEF CopiedSoFar
    <3>2. copied' = 14 => EV_REP \in entry.bits["evbit"]
      <4>1. Applies(Sections[14]) <=> EV_REP \in entry.bits["evbit"]
        BY <1>1, AppliesIf, SectionsAre
      <4>2. QED
        BY <1>2, <2>1, <4>1
    <3>3. Says(entry, "rep") = IF EV_REP \in entry.bits["evbit"] THEN entry.bits["rep"] ELSE {}
      BY DEF Says, TypeOf
    <3>4. QED
      BY <2>1, <2>2, <2>3, <3>1, <3>2, <3>3
  <2>10. CopiedSoFar'
    BY <1>1, <1>4, <1>5, <1>6, <1>7, <2>7, <2>8, <2>9 DEF CopiedSoFar
  <2>11. KeysInPlace'
    BY <1>1, <2>2, <2>4 DEF KeysInPlace
  <2>13. SpilledSoFar'
    <3>1. \A j \in 1..copied : j \in 1..copied' /\ Sections[copied'] = Sections[copied + 1]
      BY <1>2, <2>1
    <3>2. copied' \in 1..copied' /\ Sections[copied'].field = a /\ Applies(Sections[copied'])
      BY <1>2, <2>1
    <3>3. \A p \in indev.spilled \cup behind : \E j \in 1..copied' :
            Applies(Sections[j]) /\ Sections[j].field # "rep" /\ p \in Spilled(Sections[j].field)
      BY <1>1, <3>1, <3>2, SpilledIs
    <3>4. QED
      BY <1>4, <1>6, <2>2, <3>3 DEF SpilledSoFar
  <2>12. QED
    BY <1>3, <2>2, <2>5, <2>6, <2>10, <2>11, <2>13 DEF EmulateInv, DeviceFields
<1>13. QED
  BY <1>10, <1>11, <1>12 DEF SetupNext

\* The entry and the simulated device, when it is ready: nothing that the entry says is
\* lost between the sections.
LEMMA ReadyHasAll == EmulateInv => NothingLost
<1> SUFFICES ASSUME EmulateInv, stage = "ready"
             PROVE  /\ \A a \in DOMAIN Kernel : Says(entry, a) \subseteq Simulated(a)
                    /\ indev.rep = Says(entry, "rep")
                    /\ \A i \in Says(entry, "absbit") : indev.limits[i] = entry.limits[i]
  BY DEF NothingLost
<1>1. /\ copied = 14 /\ entry = out[1] /\ out # << >> /\ IsInfo(entry) /\ WithinArrays(entry)
      /\ CopiedSoFar /\ EntryComplete
  <2>1. Progress /\ TypeOK /\ CopiedSoFar /\ EntryComplete
    BY DEF EmulateInv
  <2>2. copied = 14 /\ entry = out[1] /\ out = << out[1] >>
    BY <2>1, SectionsAre DEF Progress
  <2>3. Len(out) = 1
    BY <2>2
  <2>4. QED
    BY <2>1, <2>2, <2>3 DEF TypeOK
<1>2. ASSUME NEW a \in DOMAIN Kernel, NEW b \in Says(entry, a)
      PROVE  b \in Simulated(a)
  <2>1. b \in entry.bits[a] /\ (a = "evbit" \/ TypeOf[a] \in entry.bits["evbit"])
    BY DEF Says
  <2>2. PICK j \in 1..13 :
          Sections[j].field = a /\ Sections[j].types = IF a = "evbit" THEN {} ELSE {TypeOf[a]}
    BY SectionsAre
  <2>3. Applies(Sections[j]) /\ a # "rep" /\ j \in 1..copied
    <3>1. j \in 1..14 /\ j \in 1..copied
      BY <1>1
    <3>2. Sections[j].types \subseteq entry.bits["evbit"]
      BY <2>1, <2>2
    <3>3. QED
      BY <1>1, <3>1, <3>2, AppliesIf, KernelIs
  <2>4. Placed(a) \subseteq indev.memory
    BY <1>1, <2>2, <2>3 DEF CopiedSoFar
  <2>5. b \in 0..(BITS_PER_BYTE * Size[a] - 1) /\ BITS_PER_BYTE * Kernel[a] + b \in Placed(a)
    BY <1>1, <2>1, FindsAll
  <2>6. QED
    BY <2>4, <2>5 DEF Simulated
<1>3. ASSUME NEW i \in Says(entry, "absbit")
      PROVE  indev.limits[i] = entry.limits[i]
  <2>1. i \in entry.bits["absbit"] /\ EV_ABS \in entry.bits["evbit"]
    BY DEF Says, TypeOf
  <2>2. Applies(Sections[5])
    BY <1>1, <2>1, AppliesIf, SectionsAre
  <2>3. indev.limits = Limits
    BY <1>1, <2>2 DEF CopiedSoFar
  <2>4. i \in Found("absbit") /\ i \in DOMAIN entry.limits /\ i \in Axes
    BY <1>1, <2>1, FindsAll, KernelIs DEF EntryComplete, IsInfo
  <2>5. QED
    BY <2>3, <2>4 DEF Limits
<1>4. indev.rep = Says(entry, "rep")
  BY <1>1 DEF EmulateInv, CopiedSoFar
<1>5. QED
  BY <1>2, <1>3, <1>4

\* Nor does it get a key or an event type from elsewhere.
LEMMA ReadyHasNoMore == EmulateInv => KeysAsDescribed
<1> SUFFICES ASSUME EmulateInv, stage = "ready"
             PROVE  /\ Simulated("evbit") = entry.bits["evbit"]
                    /\ Simulated("keybit") = entry.bits["keybit"]
  BY DEF KeysAsDescribed
<1>1. /\ entry = out[1] /\ out # << >> /\ KeysInPlace /\ EntryComplete /\ NothingLost
  <2>1. Progress /\ KeysInPlace /\ EntryComplete /\ NothingLost
    BY ReadyHasAll DEF EmulateInv
  <2>2. entry = out[1] /\ out = << out[1] >>
    BY <2>1 DEF Progress
  <2>3. Len(out) = 1
    BY <2>2
  <2>4. QED
    BY <2>1, <2>2, <2>3
<1>2. Simulated("evbit") \subseteq entry.bits["evbit"]
  <2> SUFFICES ASSUME NEW b \in Simulated("evbit")
               PROVE  b \in entry.bits["evbit"]
    OBVIOUS
  <2>1. b \in 0..31 /\ b \in indev.memory
    BY KernelIs, ArraysAre DEF Simulated, BITS_PER_BYTE
  <2>2. BITS_PER_BYTE * Kernel["keybit"] = 32
    BY KernelIs DEF BITS_PER_BYTE
  <2>3. QED
    BY <1>1, <2>1, <2>2 DEF KeysInPlace
<1>3. Simulated("keybit") \subseteq entry.bits["keybit"]
  <2> SUFFICES ASSUME NEW b \in Simulated("keybit")
               PROVE  b \in entry.bits["keybit"]
    OBVIOUS
  <2>1. b \in 0..767 /\ 32 + b \in indev.memory
    BY KernelIs, ArraysAre DEF Simulated, BITS_PER_BYTE
  <2>2. BITS_PER_BYTE * Kernel["keybit"] = 32 /\ BITS_PER_BYTE * Kernel["relbit"] = 800
    BY KernelIs DEF BITS_PER_BYTE
  <2>3. ASSUME NEW p \in indev.memory, p \in 32..799
        PROVE  p - 32 \in entry.bits["keybit"]
    <3>1. p \in BITS_PER_BYTE * Kernel["keybit"]..(BITS_PER_BYTE * Kernel["relbit"] - 1)
      BY <2>2, <2>3
    <3>2. QED
      BY <1>1, <2>2, <3>1 DEF KeysInPlace
  <2>4. (32 + b) - 32 = b /\ 32 + b \in 32..799
    BY <2>1
  <2>5. QED
    BY <2>1, <2>3, <2>4, SMTT(30)
<1>4. Says(entry, "evbit") = entry.bits["evbit"] /\ Says(entry, "keybit") = entry.bits["keybit"]
  BY <1>1 DEF EntryComplete, Says, TypeOf
<1>5. entry.bits["evbit"] \subseteq Simulated("evbit") /\ entry.bits["keybit"] \subseteq Simulated("keybit")
  BY <1>1, <1>4, KernelIs DEF NothingLost
<1>6. QED
  BY <1>2, <1>3, <1>5

\* Nor is anything set behind its arrays, if the entry has no states.
LEMMA ReadyInside == EmulateInv => StaysInside
<1> SUFFICES ASSUME EmulateInv, stage = "ready", Stateless(entry), NEW p \in indev.spilled,
                    entry.bits["rep"] = {} \/ entry.bits["evbit"] \cap {EV_FF, EV_SW} = {}
             PROVE  FALSE
  BY DEF StaysInside
<1>1. SpilledSoFar /\ IsInfo(entry) /\ WithinArrays(entry) /\ copied = 14
  BY SectionsAre DEF EmulateInv, TypeOK, Progress
<1>2. PICK j \in 1..14 :
        Applies(Sections[j]) /\ Sections[j].field # "rep" /\ p \in Spilled(Sections[j].field)
  BY <1>1, SpilledIs
<1>3. Sections[j].field \in DOMAIN Kernel
  BY <1>2, SectionsAre
<1>4. entry.bits["rep"] # {} /\ Sections[j].field \in {"ffbit", "swbit"}
  BY <1>1, <1>2, <1>3, PutBehind
<1>5. Sections[j].types \subseteq entry.bits["evbit"]
  BY <1>1, <1>2, AppliesIf
<1>6. Sections[j].field \in {"ffbit", "swbit"} => Sections[j].types \in {{EV_FF}, {EV_SW}}
  BY SMTT(30) DEF Sections, Section
<1>7. QED
  BY <1>4, <1>5, <1>6

\* Every step keeps the invariant: what was read is what the device said, the entry agrees
\* with it, and every section that was copied is still there.
LEMMA EmulateNext == EmulateInv /\ [Next]_vars => EmulateInv'
<1> SUFFICES ASSUME EmulateInv, [Next]_vars PROVE EmulateInv'
  OBVIOUS
<1>1. CASE MkNext /\ UNCHANGED setupvars
  BY <1>1, MkKeeps
<1>2. CASE Build
  BY <1>2, BuildKeeps
<1>3. CASE SetupNext /\ UNCHANGED mkvars
  BY <1>3, SetupKeeps
<1>4. CASE UNCHANGED vars
  <2>1. UNCHANGED mkvars /\ UNCHANGED setupvars
    BY <1>4 DEF vars
  <2>2. TypeOK' /\ Progress'
    BY <2>1 DEF EmulateInv, TypeOK, Progress, mkvars, setupvars
  <2>3. QED
    BY <2>1, <2>2, SetupStands, EntryStands DEF EmulateInv, DeviceFields
<1>5. QED
  BY <1>1, <1>2, <1>3, <1>4 DEF Next

\* The invariant, for every set of devices (read_devinfo, write_devinfo, orng_setup_device).
THEOREM EmulateInductive == Spec => []EmulateInv
<1>1. Init => EmulateInv
  BY EmulateInit
<1>2. EmulateInv /\ [Next]_vars => EmulateInv'
  BY EmulateNext
<1>3. QED
  BY <1>1, <1>2, PTL DEF Spec

\* Type correctness: no description, read, printed or built in, has a bit that its arrays have
\* no room for (read_devinfo, write_devinfo).
THEOREM EmulateTypeCorrect == Spec => []TypeOK
<1>1. EmulateInv => TypeOK
  BY DEF EmulateInv
<1>2. QED
  BY <1>1, EmulateInductive, PTL

\* What mkdevinfo prints of every device, as far as a row goes.
THEOREM PrintsWhatItRead == Spec => []RowsSurvive
<1>1. EmulateInv => RowsSurvive
  BY DEF EmulateInv
<1>2. QED
  BY <1>1, EmulateInductive, PTL

\* What a simulated device has at the least: all that its entry says.
THEOREM SetupLosesNothing == Spec => []NothingLost
<1>1. EmulateInv => NothingLost
  BY ReadyHasAll
<1>2. QED
  BY <1>1, EmulateInductive, PTL

\* What it has at the most, of keys and event types: no more than that.
THEOREM SetupAddsNoKey == Spec => []KeysAsDescribed
<1>1. EmulateInv => KeysAsDescribed
  BY ReadyHasNoMore
<1>2. QED
  BY <1>1, EmulateInductive, PTL

\* Behind its arrays nothing is set if its entry has no states (orng_setup_device,
\* NBITS_IN_ARRAY).
THEOREM SetupStaysInside == Spec => []StaysInside
<1>1. EmulateInv => StaysInside
  BY ReadyInside
<1>2. QED
  BY <1>1, EmulateInductive, PTL

===========================================================================
