------------------------ MODULE OrngModule_proofs ------------------------
(***************************************************************************)
(* Proofs about the life of the kernel module.                             *)
(***************************************************************************)
EXTENDS OrngModule, TLAPS

\* A search that finds an entry finds the first one that matches.
LEMMA FoundMatches ==
  ASSUME NEW matching \in SUBSET (1..Len(Table)), NEW e, e = orng_find_device(matching)
  PROVE  e = 0 \/ (e \in matching /\ \A other \in 1..(e - 1) : other \notin matching)
BY DEF orng_find_device

\* The entries in front of one are entries.
LEMMA Before ==
  ASSUME NEW e \in 1..Len(Table), NEW other \in 1..(e - 1)
  PROVE  other \in 1..Len(Table)
BY TableAssumption

\* A device that is found by its canonical name is the first entry that has that name.
LEMMA FoundByCname ==
  ASSUME NEW c, NEW e, e = orng_find_device_by_cname(c)
  PROVE  e = 0 \/ (/\ e \in 1..Len(Table) /\ Table[e].cname = c
                  /\ \A other \in 1..(e - 1) : Table[other].cname # c)
<1>1. e = 0 \/ (/\ e \in {x \in 1..Len(Table) : Table[x].cname = c}
               /\ \A other \in 1..(e - 1) :
                    other \notin {x \in 1..Len(Table) : Table[x].cname = c})
  BY FoundMatches DEF orng_find_device_by_cname
<1>2. QED
  BY <1>1, Before

\* A device that is found by its name is the first entry that has that name.
LEMMA FoundByName ==
  ASSUME NEW n, NEW e, e = orng_find_device_by_name(n)
  PROVE  e = 0 \/ (/\ e \in 1..Len(Table) /\ Table[e].name = n
                  /\ \A other \in 1..(e - 1) : Table[other].name # n)
<1>1. e = 0 \/ (/\ e \in {x \in 1..Len(Table) : Table[x].name = n}
               /\ \A other \in 1..(e - 1) :
                    other \notin {x \in 1..Len(Table) : Table[x].name = n})
  BY FoundMatches DEF orng_find_device_by_name
<1>2. QED
  BY <1>1, Before

\* Two ids compare as equal only if they are the same.
LEMMA IdcmpEqual ==
  ASSUME NEW a \in input_id, NEW b \in input_id
  PROVE  idcmp(a, b) = 0 <=> a = b
<1>1. idcmp(a, b) = 0 <=> /\ a.bustype = b.bustype /\ a.vendor = b.vendor
                          /\ a.product = b.product /\ a.version = b.version
  BY DEF idcmp, llcmp, lldiff, input_id
<1>2. QED
  BY <1>1 DEF input_id

\* A device that is found by its id is the first entry that has that id.
LEMMA FoundById ==
  ASSUME NEW id \in input_id, NEW e, e = orng_find_device_by_id(id)
  PROVE  e = 0 \/ (/\ e \in 1..Len(Table) /\ Table[e].id = id
                  /\ \A other \in 1..(e - 1) : Table[other].id # id)
<1>1. ASSUME NEW x \in 1..Len(Table) PROVE Table[x].id \in input_id
  <2>1. Table[x] \in orng_device_info
    BY TableAssumption
  <2>2. QED
    BY <2>1 DEF orng_device_info
<1>2. ASSUME NEW x \in 1..Len(Table) PROVE idcmp(Table[x].id, id) = 0 <=> Table[x].id = id
  BY <1>1, IdcmpEqual
<1> DEFINE same == {x \in 1..Len(Table) : idcmp(Table[x].id, id) = 0}
<1>3. e = orng_find_device(same) /\ same \in SUBSET (1..Len(Table))
  BY Zenon DEF orng_find_device_by_id
<1>4. \A x \in 1..Len(Table) : x \in same <=> Table[x].id = id
  BY <1>2
<1> HIDE DEF same
<1>5. e = 0 \/ (e \in same /\ \A other \in 1..(e - 1) : other \notin same)
  BY <1>3, FoundMatches
<1>6. QED
  BY <1>3, <1>4, <1>5, Before

\* What is asked for is an entry of the table, or nothing.
LEMMA WantedType ==
  ASSUME NEW p \in Params, NEW k
  PROVE  Wanted(p, k) \in 0..Len(Table)
<1>1. Len(Table) \in Nat
  BY TableAssumption
<1>2. p.id \in input_id
  BY ParamsAssumption DEF ParamsType
<1>3. QED
  BY <1>1, <1>2, FoundByCname, FoundByName, FoundById DEF Wanted

\* The module is asked for at least one device, and no more than it has room for.
LEMMA CountType ==
  ASSUME NEW p \in Params
  PROVE  Count(p) \in Nat /\ Count(p) <= ORNG_NDEVICES
<1>1. p.devices \in Seq(STRING) /\ p.names \in Seq(STRING)
  BY ParamsAssumption DEF ParamsType
<1>2. Len(p.devices) <= ORNG_NDEVICES /\ Len(p.names) <= ORNG_NDEVICES
  BY ParamsAssumption
<1>3. Len(p.devices) \in Nat /\ Len(p.names) \in Nat
  BY <1>1
<1>4. QED
  BY <1>2, <1>3, SizeAssumption DEF Count

---------------------------------------------------------------------------
(* Type correctness.                                                       *)

\* A free block is a block.
LEMMA FreeBlockType == FreeBlock \in Block
<1>1. Len(Table) \in Nat
  BY TableAssumption
<1>2. QED
  BY <1>1, SizeAssumption DEF FreeBlock, Block

\* Initially everything is well typed.
LEMMA InitTypeOK == Init => TypeOK
BY FreeBlockType, SizeAssumption DEF Init, TypeOK, Stages

\* Every step of the module keeps the types.
LEMMA NextTypeOK == TypeOK /\ CurOK /\ ProgressOK /\ [Next]_vars => TypeOK'
<1> SUFFICES ASSUME TypeOK, CurOK, ProgressOK, [Next]_vars
             PROVE  TypeOK'
  OBVIOUS
<1> USE SizeAssumption, BlocksAssumption DEF TypeOK
<1>1. CASE Insmod
  BY <1>1 DEF Insmod, Stages
<1>2. CASE orng_init
  BY <1>2 DEF orng_init, Goto, Cleanup, Stages, Undoing
<1>3. CASE input_allocate_device
  <2>1. [FreeBlock EXCEPT !.use = "allocated"] \in Block
    BY FreeBlockType DEF FreeBlock, Block
  <2>2. QED
    BY <1>3, <2>1 DEF input_allocate_device, Cleanup, Stages, Undoing, Adding
<1>4. CASE orng_setup_device
  <2>1. cur \in Blocks
    BY <1>4 DEF CurOK, orng_setup_device, Adding
  <2>2. Wanted(param, i) \in 0..Len(Table)
    BY WantedType
  <2>3. heap[cur] \in Block
    BY <2>1
  <2>4. \A a \in {"live", "null"} : heap[cur].absinfo \in {"null", "live", "dangling"}
          /\ [heap[cur] EXCEPT !.entry = Wanted(param, i), !.absinfo = a] \in Block
          /\ [heap[cur] EXCEPT !.entry = Wanted(param, i)] \in Block
    BY <2>2, <2>3 DEF Block
  <2>5. \/ \E a \in {"live", "null"} :
             heap' = [heap EXCEPT ![cur] = [heap[cur] EXCEPT !.entry = Wanted(param, i),
                                                             !.absinfo = a]]
        \/ heap' = [heap EXCEPT ![cur] = [heap[cur] EXCEPT !.entry = Wanted(param, i)]]
    BY <1>4, <2>1 DEF orng_setup_device
  <2>6. heap' \in [Blocks -> Block]
    BY <2>1, <2>4, <2>5
  <2>7. QED
    BY <1>4, <2>6 DEF orng_setup_device, Goto, Stages, Adding
<1>5. CASE input_register_device
  <2>1. cur \in Blocks
    BY <1>5 DEF CurOK, input_register_device, Adding
  <2>2. heap' \in [Blocks -> Block]
    BY <1>5, <2>1, ZenonT(30) DEF input_register_device, Goto, Block
  <2>3. i < ORNG_NDEVICES
    BY <1>5, CountType DEF input_register_device, ProgressOK, Loading, Adding
  <2>4. QED
    BY <1>5, <2>1, <2>2, <2>3 DEF input_register_device, Goto, Stages, Adding, Indices
<1>6. CASE kfree_absinfo
  <2>1. cur \in Blocks
    BY <1>6 DEF CurOK, kfree_absinfo, Adding
  <2>2. QED
    BY <1>6, <2>1, SMTT(30) DEF kfree_absinfo, Goto, Stages, Adding, Block
<1>7. CASE clear_absinfo
  <2>1. cur \in Blocks
    BY <1>7 DEF CurOK, clear_absinfo, Adding
  <2>2. QED
    BY <1>7, <2>1 DEF clear_absinfo, Goto, Stages, Adding, Block
<1>8. CASE input_free_device
  <2>1. cur \in Blocks
    BY <1>8 DEF CurOK, input_free_device, Adding
  <2>2. QED
    BY <1>8, <2>1, FreeBlockType DEF input_free_device, Cleanup, Stages, Undoing
<1>9. CASE Rmmod
  BY <1>9 DEF Rmmod, Stages, Undoing
<1>10. CASE UnregisterNext
  <2>1. i - 1 \in Indices
    BY <1>10 DEF UnregisterNext, Indices
  <2>2. \A b \in Blocks : Unregistered(b) \in Block
    BY FreeBlockType DEF Unregistered, Block
  <2>3. QED
    BY <1>10, <2>1, <2>2 DEF UnregisterNext
<1>11. CASE Unloaded
  BY <1>11 DEF Unloaded, Goto, Stages
<1>12. ASSUME NEW b \in Blocks, Open(b) \/ Close(b) PROVE TypeOK'
  <2>1. heap[b] \in Block /\ heap[b].readers \in 0..MaxReaders
    BY DEF Block
  <2>2. CASE Open(b)
    <3>1. heap' = [heap EXCEPT ![b] = [heap[b] EXCEPT !.readers = heap[b].readers + 1]]
      BY <2>2 DEF Open
    <3>2. heap[b].readers + 1 \in 0..MaxReaders
      BY <2>1, <2>2 DEF Open
    <3>3. [heap[b] EXCEPT !.readers = heap[b].readers + 1] \in Block
      BY <2>1, <3>2 DEF Block
    <3>4. QED
      BY <2>2, <3>1, <3>3 DEF Open, loadVars
  <2>3. CASE Close(b)
    <3>1. \/ heap' = [heap EXCEPT ![b] = [heap[b] EXCEPT !.readers = heap[b].readers - 1]]
          \/ heap' = [heap EXCEPT ![b] = FreeBlock]
      BY <2>3 DEF Close, Closed
    <3>2. heap[b].readers - 1 \in 0..MaxReaders
      BY <2>1, <2>3 DEF Close
    <3>3. [heap[b] EXCEPT !.readers = heap[b].readers - 1] \in Block
      BY <2>1, <3>2 DEF Block
    <3>4. QED
      BY <2>3, <3>1, <3>3, FreeBlockType DEF Close, loadVars
  <2>4. QED
    BY <1>12, <2>2, <2>3
<1>13. CASE UNCHANGED vars
  BY <1>13 DEF vars, loadVars
<1>14. QED
  BY <1>1, <1>2, <1>3, <1>4, <1>5, <1>6, <1>7, <1>8, <1>9, <1>10, <1>11, <1>12, <1>13
     DEF Next, Module, add_device, Reader

---------------------------------------------------------------------------
(* What a step leaves of the blocks.                                       *)

\* Setting up a device changes nothing but its entry and its absinfo.
LEMMA SetupKeeps ==
  ASSUME TypeOK, CurOK, orng_setup_device
  PROVE  /\ \A b \in Blocks : heap'[b].use = heap[b].use /\ heap'[b].readers = heap[b].readers
         /\ \A b \in Blocks \ {cur} : heap'[b] = heap[b]
         /\ heap'[cur].entry = Wanted(param, i)
         /\ heap'[cur].absinfo \in {heap[cur].absinfo, "live", "null"}
<1> DEFINE e == Wanted(param, i)
<1>1. cur \in Blocks /\ heap[cur] \in Block /\ heap \in [Blocks -> Block]
  BY BlocksAssumption DEF TypeOK, CurOK, orng_setup_device, Adding
<1>2. \/ heap' = [heap EXCEPT ![cur] = [heap[cur] EXCEPT !.entry = e, !.absinfo = "live"]]
      \/ heap' = [heap EXCEPT ![cur] = [heap[cur] EXCEPT !.entry = e, !.absinfo = "null"]]
      \/ heap' = [heap EXCEPT ![cur] = [heap[cur] EXCEPT !.entry = e]]
  BY <1>1 DEF orng_setup_device
<1>3. \A b \in Blocks \ {cur} : heap'[b] = heap[b]
  BY <1>1, <1>2
<1>4. \/ heap'[cur] = [heap[cur] EXCEPT !.entry = e, !.absinfo = "live"]
      \/ heap'[cur] = [heap[cur] EXCEPT !.entry = e, !.absinfo = "null"]
      \/ heap'[cur] = [heap[cur] EXCEPT !.entry = e]
  BY <1>1, <1>2
<1> HIDE DEF e
<1>5. /\ heap'[cur].use = heap[cur].use /\ heap'[cur].readers = heap[cur].readers
      /\ heap'[cur].entry = e /\ heap'[cur].absinfo \in {heap[cur].absinfo, "live", "null"}
  BY <1>1, <1>4 DEF Block
<1>6. QED
  BY <1>3, <1>5 DEF e

\* A program that opens or closes a device changes the count of its readers, and
\* frees it only if it is the last one to have it.
LEMMA ReaderKeeps ==
  ASSUME TypeOK, NEW b \in Blocks, Open(b) \/ Close(b)
  PROVE  /\ \A c \in Blocks \ {b} : heap'[c] = heap[c]
         /\ \/ heap'[b] = FreeBlock /\ heap[b].use = "unregistered"
            \/ /\ heap'[b].use = heap[b].use
               /\ heap'[b].entry = heap[b].entry /\ heap'[b].absinfo = heap[b].absinfo
               /\ heap[b].use = "registered" \/ heap'[b].readers = heap[b].readers - 1
               /\ heap[b].use = "unregistered" => heap[b].readers # 1
<1>1. heap[b] \in Block /\ heap \in [Blocks -> Block]
  BY DEF TypeOK
<1>2. CASE Open(b)
  <2>1. heap' = [heap EXCEPT ![b] = [heap[b] EXCEPT !.readers = heap[b].readers + 1]]
    BY <1>2 DEF Open
  <2>2. QED
    BY <1>1, <1>2, <2>1 DEF Open, Block
<1>3. CASE Close(b)
  BY <1>1, <1>3 DEF Close, Closed, Block
<1>4. QED
  BY <1>2, <1>3

---------------------------------------------------------------------------
(* The parts of the inductive invariant.                                   *)

\* add_device works on a block of its own, as long as it works.
LEMMA NextCur == TypeOK /\ CurOK /\ (\A b \in Blocks : BlockOK(b)) /\ [Next]_vars => CurOK'
<1> SUFFICES ASSUME TypeOK, CurOK, \A b \in Blocks : BlockOK(b), [Next]_vars
             PROVE  CurOK'
  OBVIOUS
<1> USE BlocksAssumption DEF TypeOK, CurOK, Adding
<1>1. CASE Insmod
  BY <1>1 DEF Insmod
<1>2. CASE orng_init
  BY <1>2 DEF orng_init, Goto, Cleanup
<1>3. CASE input_allocate_device
  BY <1>3 DEF input_allocate_device, Cleanup, FreeBlock
<1>4. CASE orng_setup_device
  BY <1>4 DEF orng_setup_device, Goto, Block
<1>5. CASE input_register_device
  BY <1>5 DEF input_register_device, Goto
<1>6. CASE kfree_absinfo
  BY <1>6 DEF kfree_absinfo, Goto, Block
<1>7. CASE clear_absinfo
  BY <1>7 DEF clear_absinfo, Goto, Block
<1>8. CASE input_free_device
  BY <1>8 DEF input_free_device, Cleanup
<1>9. CASE Rmmod
  BY <1>9 DEF Rmmod
<1>10. CASE UnregisterNext
  BY <1>10 DEF UnregisterNext, Undoing
<1>11. CASE Unloaded
  BY <1>11 DEF Unloaded, Goto, Undoing
<1>12. ASSUME NEW b \in Blocks, Open(b) \/ Close(b) PROVE CurOK'
  BY <1>12 DEF Open, Close, Closed, loadVars, BlockOK, Block
<1>13. CASE UNCHANGED vars
  BY <1>13 DEF vars, loadVars
<1>14. QED
  BY <1>1, <1>2, <1>3, <1>4, <1>5, <1>6, <1>7, <1>8, <1>9, <1>10, <1>11, <1>12, <1>13
     DEF Next, Module, add_device, Reader

\* The array keeps to the registered devices, each in one place.
LEMMA NextArray == ModuleInv /\ [Next]_vars => ArrayOK'
<1> SUFFICES ASSUME ModuleInv, [Next]_vars
             PROVE  ArrayOK'
  OBVIOUS
<1> USE BlocksAssumption, SizeAssumption DEF ModuleInv, TypeOK, ArrayOK, Adding, Indices
<1>1. CASE Insmod
  BY <1>1 DEF Insmod
<1>2. CASE orng_init
  BY <1>2 DEF orng_init, Goto, Cleanup, ProgressOK, Loading
<1>3. CASE input_allocate_device
  BY <1>3 DEF input_allocate_device, Cleanup, ProgressOK, Loading
<1>4. CASE orng_setup_device
  <2>1. \A b \in Blocks : heap'[b].use = heap[b].use
    BY <1>4, SetupKeeps
  <2>2. QED
    BY <1>4, <2>1 DEF orng_setup_device, Goto
<1>5. CASE input_register_device
  <2>1. cur \in Blocks /\ heap[cur].use = "allocated" /\ i \in 0..(ORNG_NDEVICES - 1)
    BY <1>5, CountType DEF input_register_device, CurOK, ProgressOK, Loading
  <2>2. CASE Goto("kfree") /\ UNCHANGED heap
    BY <1>5, <2>2 DEF input_register_device, Goto
  <2>3. CASE stage' = "find"
    <3>1. /\ heap' = [heap EXCEPT ![cur] = [heap[cur] EXCEPT !.use = "registered"]]
          /\ indev' = [indev EXCEPT ![i] = cur] /\ i' = i + 1
      BY <1>5, <2>1, <2>3 DEF input_register_device, Goto
    <3>2. \A k \in Indices : indev[k] # cur
      BY <1>5, <2>1 DEF input_register_device, ProgressOK, Loading
    <3>3. heap'[cur].use = "registered" /\ \A b \in Blocks \ {cur} : heap'[b] = heap[b]
      BY <2>1, <3>1 DEF Block
    <3>4. QED
      BY <1>5, <2>1, <2>3, <3>1, <3>2, <3>3 DEF input_register_device
  <2>4. QED
    BY <1>5, <2>2, <2>3 DEF input_register_device, Goto
<1>6. CASE kfree_absinfo
  BY <1>6 DEF kfree_absinfo, Goto, CurOK, Block
<1>7. CASE clear_absinfo
  BY <1>7 DEF clear_absinfo, Goto, CurOK, Block
<1>8. CASE input_free_device
  BY <1>8 DEF input_free_device, Cleanup, CurOK, ProgressOK, Loading
<1>9. CASE Rmmod
  BY <1>9 DEF Rmmod, ProgressOK, Loading
<1>10. CASE UnregisterNext
  BY <1>10 DEF UnregisterNext, Undoing
<1>11. CASE Unloaded
  BY <1>11 DEF Unloaded, Goto, Undoing
<1>12. ASSUME NEW b \in Blocks, Open(b) \/ Close(b) PROVE ArrayOK'
  <2>1. \A c \in Blocks : heap[c].use = "registered" => heap'[c].use = "registered"
    BY <1>12, ReaderKeeps
  <2>2. QED
    BY <1>12, <2>1 DEF Open, Close, loadVars
<1>13. CASE UNCHANGED vars
  BY <1>13 DEF vars, loadVars
<1>14. QED
  BY <1>1, <1>2, <1>3, <1>4, <1>5, <1>6, <1>7, <1>8, <1>9, <1>10, <1>11, <1>12, <1>13
     DEF Next, Module, add_device, Reader

\* What has been registered is what was asked for, up to the loop counter.
LEMMA NextProgress == ModuleInv /\ [Next]_vars => ProgressOK'
<1> SUFFICES ASSUME ModuleInv, [Next]_vars
             PROVE  ProgressOK'
  OBVIOUS
<1> USE BlocksAssumption, SizeAssumption, CountType
    DEF ModuleInv, TypeOK, ProgressOK, Loading, Adding, Indices
<1>1. CASE Insmod
  <2>1. Count(param') \in Nat
    BY <1>1 DEF Insmod
  <2>2. QED
    BY <1>1, <2>1 DEF Insmod
<1>2. CASE orng_init
  BY <1>2 DEF orng_init, Goto, Cleanup
<1>3. CASE input_allocate_device
  <2>1. CASE Cleanup /\ UNCHANGED heap
    BY <2>1 DEF Cleanup
  <2>2. ASSUME NEW b \in Blocks, heap[b].use = "free", stage' = "setup",
               heap' = [heap EXCEPT ![b] = [FreeBlock EXCEPT !.use = "allocated"]],
               UNCHANGED <<param, i, indev>>
        PROVE  ProgressOK'
    <3>1. \A k \in Indices : k < i => indev[k] # b /\ indev[k] \in Blocks
      BY <1>3, <2>2 DEF ArrayOK, input_allocate_device
    <3>2. QED
      BY <1>3, <2>2, <3>1 DEF input_allocate_device
  <2>3. QED
    BY <1>3, <2>1, <2>2 DEF input_allocate_device
<1>4. CASE orng_setup_device
  <2>1. \A k \in Indices : k < i => indev[k] # cur /\ indev[k] \in Blocks
    BY <1>4 DEF ArrayOK, CurOK, orng_setup_device
  <2>2. \A b \in Blocks \ {cur} : heap'[b] = heap[b]
    BY <1>4, SetupKeeps
  <2>3. QED
    BY <1>4, <2>1, <2>2 DEF orng_setup_device, Goto
<1>5. CASE input_register_device
  <2>1. cur \in Blocks /\ heap[cur].use = "allocated" /\ i \in 0..(ORNG_NDEVICES - 1)
    BY <1>5 DEF input_register_device, CurOK
  <2>2. CASE stage' = "kfree"
    BY <1>5, <2>2 DEF input_register_device, Goto
  <2>3. CASE stage' = "find"
    <3>1. /\ heap' = [heap EXCEPT ![cur] = [heap[cur] EXCEPT !.use = "registered"]]
          /\ indev' = [indev EXCEPT ![i] = cur] /\ i' = i + 1 /\ param' = param
      BY <1>5, <2>1, <2>3 DEF input_register_device, Goto
    <3>2. \A b \in Blocks : heap'[b].entry = heap[b].entry
      BY <2>1, <3>1 DEF Block
    <3>3. heap[cur].entry = Wanted(param, i)
      BY <1>5 DEF input_register_device, CurOK
    <3>4. QED
      BY <1>5, <2>1, <2>3, <3>1, <3>2, <3>3 DEF input_register_device
  <2>4. QED
    BY <1>5, <2>2, <2>3 DEF input_register_device, Goto
<1>6. CASE kfree_absinfo
  <2>1. \A b \in Blocks : heap'[b].entry = heap[b].entry
    BY <1>6 DEF kfree_absinfo, CurOK, Block
  <2>2. QED
    BY <1>6, <2>1 DEF kfree_absinfo, Goto
<1>7. CASE clear_absinfo
  <2>1. \A b \in Blocks : heap'[b].entry = heap[b].entry
    BY <1>7 DEF clear_absinfo, CurOK, Block
  <2>2. QED
    BY <1>7, <2>1 DEF clear_absinfo, Goto
<1>8. CASE input_free_device
  BY <1>8 DEF input_free_device, Cleanup
<1>9. CASE Rmmod
  BY <1>9 DEF Rmmod
<1>10. CASE UnregisterNext
  BY <1>10 DEF UnregisterNext, Undoing
<1>11. CASE Unloaded
  BY <1>11 DEF Unloaded, Goto, Undoing
<1>12. ASSUME NEW b \in Blocks, Open(b) \/ Close(b) PROVE ProgressOK'
  <2>1. \A c \in Blocks : heap[c].use = "registered" => heap'[c].entry = heap[c].entry
    BY <1>12, ReaderKeeps
  <2>2. QED
    BY <1>12, <2>1, SMTT(30) DEF Open, Close, loadVars, ArrayOK
<1>13. CASE UNCHANGED vars
  BY <1>13 DEF vars, loadVars
<1>14. QED
  BY <1>1, <1>2, <1>3, <1>4, <1>5, <1>6, <1>7, <1>8, <1>9, <1>10, <1>11, <1>12, <1>13
     DEF Next, Module, add_device, Reader

\* A block that a program opens or closes and that is not freed by it is a device
\* that has been registered, and keeps its entry.
LEMMA ReaderUse ==
  ASSUME TypeOK, NEW b \in Blocks, BlockOK(b), Open(b) \/ Close(b),
         heap'[b].use = heap[b].use
  PROVE  /\ heap'[b].entry = heap[b].entry /\ heap'[b].absinfo = heap[b].absinfo
         /\ heap[b].use \in {"registered", "unregistered"}
         /\ heap[b].use = "unregistered" => heap'[b].readers = heap[b].readers - 1
                                             /\ heap[b].readers # 1
<1>1. heap[b] \in Block /\ (heap[b].use = "free" => heap[b].readers = 0)
  BY DEF TypeOK, BlockOK, FreeBlock
<1>2. heap[b].use \in {"registered", "unregistered"}
  BY <1>1 DEF Open, Close, BlockOK, Block
<1>3. ~(heap'[b] = FreeBlock /\ heap[b].use = "unregistered")
  BY DEF FreeBlock
<1>4. QED
  BY <1>2, <1>3, ReaderKeeps

\* Every block is free, or somebody's who will free it.
LEMMA NextBlocks == ModuleInv /\ [Next]_vars => \A b \in Blocks : BlockOK(b)'
<1> SUFFICES ASSUME ModuleInv, [Next]_vars, NEW b \in Blocks
             PROVE  BlockOK(b)'
  OBVIOUS
<1> USE BlocksAssumption, SizeAssumption DEF ModuleInv, TypeOK, BlockOK, Adding, Indices
<1>1. CASE Insmod
  BY <1>1 DEF Insmod
<1>2. CASE orng_init
  BY <1>2 DEF orng_init, Goto, Cleanup
<1>3. CASE input_allocate_device
  BY <1>3 DEF input_allocate_device, Cleanup, FreeBlock
<1>4. CASE orng_setup_device
  BY <1>4, SetupKeeps DEF orng_setup_device, Goto, CurOK
<1>5. CASE input_register_device
  <2>1. cur \in Blocks /\ heap[cur].use = "allocated" /\ i \in 0..(ORNG_NDEVICES - 1)
    BY <1>5, CountType DEF input_register_device, CurOK, ProgressOK, Loading
  <2>2. CASE stage' = "kfree"
    BY <1>5, <2>2 DEF input_register_device, Goto
  <2>3. CASE stage' = "find"
    <3>1. /\ heap' = [heap EXCEPT ![cur] = [heap[cur] EXCEPT !.use = "registered"]]
          /\ indev' = [indev EXCEPT ![i] = cur] /\ i' = i + 1
      BY <1>5, <2>1, <2>3 DEF input_register_device, Goto
    <3>2. CASE b = cur
      <4>1. heap[cur] \in Block /\ heap'[cur] = [heap[cur] EXCEPT !.use = "registered"]
        BY <2>1, <3>1
      <4>2. /\ heap'[cur].use = "registered" /\ heap'[cur].entry = heap[cur].entry
            /\ heap'[cur].absinfo = heap[cur].absinfo
        BY <4>1 DEF Block
      <4>3. /\ heap[cur].absinfo = "live" <=> Table[heap[cur].entry].abs
            /\ heap[cur].absinfo # "dangling"
        BY <1>5, <2>1 DEF input_register_device, CurOK
      <4>4. indev'[i] = cur /\ i \in Indices /\ i < i'
        BY <2>1, <3>1
      <4>5. QED
        BY <2>3, <3>2, <4>2, <4>3, <4>4
    <3>3. CASE b # cur
      <4>1. heap'[b] = heap[b]
        BY <2>1, <3>1, <3>3
      <4>2. \A k \in Indices : k < i => indev'[k] = indev[k] /\ k < i'
        BY <2>1, <3>1
      <4>3. heap[b].use # "allocated" /\ heap[b].absinfo # "dangling"
        BY <1>5, <3>3 DEF input_register_device
      <4>4. QED
        BY <2>3, <4>1, <4>2, <4>3
    <3>4. QED
      BY <3>2, <3>3
  <2>4. QED
    BY <1>5, <2>2, <2>3 DEF input_register_device, Goto
<1>6. CASE kfree_absinfo
  BY <1>6 DEF kfree_absinfo, Goto, CurOK, Block
<1>7. CASE clear_absinfo
  BY <1>7 DEF clear_absinfo, Goto, CurOK, Block
<1>8. CASE input_free_device
  BY <1>8 DEF input_free_device, Cleanup, CurOK, FreeBlock
<1>9. CASE Rmmod
  BY <1>9 DEF Rmmod
<1>10. CASE UnregisterNext
  <2>1. stage \in Undoing /\ stage' = stage /\ indev' = indev /\ i' = i - 1 /\ cur' = cur
        /\ i - 1 \in Indices
    BY <1>10 DEF UnregisterNext
  <2>2. CASE b = indev[i - 1]
    <3>1. heap'[b] = Unregistered(b) /\ heap[b].use = "registered"
      BY <1>10, <2>1, <2>2 DEF UnregisterNext, ArrayOK, Undoing
    <3>2. heap[b] \in Block
      OBVIOUS
    <3>3. CASE heap[b].readers = 0
      BY <3>1, <3>3 DEF Unregistered, FreeBlock
    <3>4. CASE heap[b].readers # 0
      <4>1. heap'[b] = [heap[b] EXCEPT !.use = "unregistered"] /\ heap[b].absinfo # "dangling"
        BY <2>1, <3>1, <3>4 DEF Unregistered, Undoing
      <4>2. heap'[b].use = "unregistered" /\ heap'[b].readers > 0
            /\ heap'[b].absinfo # "dangling"
        BY <3>2, <3>4, <4>1 DEF Block
      <4>3. QED
        BY <4>2
    <3>5. QED
      BY <3>3, <3>4
  <2>3. CASE b # indev[i - 1]
    <3>1. heap'[b] = heap[b]
      BY <1>10, <2>3 DEF UnregisterNext
    <3>2. \A k \in Indices : k < i /\ indev[k] = b => k < i - 1
      BY <2>1, <2>3
    <3>3. heap[b].use # "allocated" /\ heap[b].absinfo # "dangling" /\ stage # "out"
      BY <2>1 DEF Undoing
    <3>4. QED
      BY <2>1, <3>1, <3>2, <3>3
  <2>4. QED
    BY <2>2, <2>3
<1>11. CASE Unloaded
  BY <1>11 DEF Unloaded, Goto, Undoing
<1>12. ASSUME NEW c \in Blocks, Open(c) \/ Close(c) PROVE BlockOK(b)'
  <2>1. UNCHANGED loadVars
    BY <1>12 DEF Open, Close
  <2>2. CASE heap'[b] = heap[b]
    BY <2>1, <2>2 DEF loadVars
  <2>3. CASE heap'[b] = FreeBlock
    BY <2>3 DEF FreeBlock
  <2>4. CASE b = c /\ heap'[b].use = heap[b].use
    <3>1. /\ heap'[b].entry = heap[b].entry /\ heap'[b].absinfo = heap[b].absinfo
          /\ heap[b].use \in {"registered", "unregistered"}
          /\ heap[b].use = "unregistered" => heap'[b].readers = heap[b].readers - 1
                                              /\ heap[b].readers # 1
      BY <1>12, <2>4, ReaderUse
    <3>2. heap[b].readers \in Nat
      BY DEF Block
    <3>3. QED
      BY <2>1, <2>4, <3>1, <3>2 DEF loadVars
  <2>5. QED
    BY <1>12, <2>2, <2>3, <2>4, ReaderKeeps
<1>13. CASE UNCHANGED vars
  BY <1>13 DEF vars, loadVars
<1>14. QED
  BY <1>1, <1>2, <1>3, <1>4, <1>5, <1>6, <1>7, <1>8, <1>9, <1>10, <1>11, <1>12, <1>13
     DEF Next, Module, add_device, Reader

---------------------------------------------------------------------------
(* The theorems.                                                           *)

\* The invariant of the module's life: the array, the block add_device works on and
\* the readers share the blocks among them, and nobody has a block twice.
THEOREM ModuleInvariant == Spec => []ModuleInv
<1>1. Init => ModuleInv
  <2> SUFFICES ASSUME Init PROVE ModuleInv
    OBVIOUS
  <2>1. TypeOK
    BY InitTypeOK
  <2>2. QED
    BY <2>1 DEF Init, ModuleInv, ArrayOK, ProgressOK, Loading, CurOK, BlockOK, Adding, FreeBlock
<1>2. ModuleInv /\ [Next]_vars => ModuleInv'
  BY NextTypeOK, NextCur, NextArray, NextProgress, NextBlocks DEF ModuleInv
<1>3. QED
  BY <1>1, <1>2, PTL DEF Spec

\* Every reachable state of the module is well typed.
THEOREM ModuleTypeCorrect == Spec => []TypeOK
<1>1. ModuleInv => TypeOK
  BY DEF ModuleInv
<1>2. QED
  BY <1>1, ModuleInvariant, PTL

\* For every table, parameters and memory, a module that is out leaves nothing
\* registered, and one that is in use has registered just what it was asked for.
THEOREM LoadsAllOrNothing == Spec => []AllOrNothing
<1>1. ModuleInv => AllOrNothing
  <2> SUFFICES ASSUME ModuleInv PROVE AllOrNothing
    OBVIOUS
  <2> USE DEF ModuleInv, TypeOK
  <2>1. Count(param) \in Nat /\ Count(param) <= ORNG_NDEVICES
    BY CountType
  <2>2. stage = "out" => \A b \in Blocks : heap[b].use \notin {"allocated", "registered"}
    BY DEF BlockOK, Adding
  <2>3. ASSUME stage = "live"
        PROVE  \A k \in 0..(Count(param) - 1) :
                 indev[k] # Null /\ heap[indev[k]].use = "registered"
    BY <2>1, <2>3, SizeAssumption DEF ProgressOK, Loading, ArrayOK, Indices
  <2>4. ASSUME stage = "live", NEW b \in Blocks, heap[b].use = "registered"
        PROVE  \E k \in 0..(Count(param) - 1) : indev[k] = b
    <3>1. PICK k \in Indices : k < i /\ indev[k] = b
      BY <2>4 DEF BlockOK
    <3>2. i = Count(param)
      BY <2>4 DEF ProgressOK, Loading
    <3>3. QED
      BY <2>1, <3>1, <3>2, SizeAssumption DEF Indices
  <2>5. QED
    BY <2>2, <2>3, <2>4 DEF AllOrNothing
<1>2. QED
  BY <1>1, ModuleInvariant, PTL

\* The devices in use are the first ones in the table with the canonical names, names or id
\* that were asked for (orng_init, orng_find_device).
THEOREM LoadsAsAsked == Spec => []AsAsked
<1>1. ModuleInv => AsAsked
  <2> SUFFICES ASSUME ModuleInv, stage = "live", NEW k \in 0..(Count(param) - 1)
               PROVE  LET e == heap[indev[k]].entry
                      IN  /\ IsAskedFor(Table[e], k)
                          /\ \A other \in 1..(e - 1) : ~IsAskedFor(Table[other], k)
    BY DEF AsAsked
  <2>1. param \in Params /\ k \in Indices /\ k < i
    BY CountType, SizeAssumption DEF ModuleInv, TypeOK, ProgressOK, Loading, Indices
  <2>2. heap[indev[k]].entry = Wanted(param, k) /\ Wanted(param, k) # 0
    BY <2>1 DEF ModuleInv, ProgressOK, Loading
  <2>3. param.id \in input_id
    BY <2>1, ParamsAssumption DEF ParamsType
  <2>4. QED
    BY <2>2, <2>3, FoundByCname, FoundByName, FoundById DEF Wanted, IsAskedFor
<1>2. QED
  BY <1>1, ModuleInvariant, PTL

\* Every block in use has an owner who will free it.
THEOREM BlocksOwned == Spec => []Owned
<1>1. ModuleInv => Owned
  <2> SUFFICES ASSUME ModuleInv, NEW b \in Blocks
               PROVE  CASE heap[b].use = "free"         -> heap[b] = FreeBlock
                        [] heap[b].use = "allocated"    -> stage \in Adding /\ b = cur
                        [] heap[b].use = "registered"   -> \E k \in Indices : indev[k] = b
                        [] heap[b].use = "unregistered" -> heap[b].readers > 0
    BY DEF Owned
  <2>1. heap[b].use \in {"free", "allocated", "registered", "unregistered"}
    BY DEF ModuleInv, TypeOK, Block
  <2>2. BlockOK(b)
    BY DEF ModuleInv
  <2>3. QED
    BY <2>1, <2>2 DEF BlockOK
<1>2. QED
  BY <1>1, ModuleInvariant, PTL

\* No device and no absinfo is freed twice, and only registered devices are
\* unregistered.
THEOREM NothingReleasedTwice == Spec => []ReleasedOnce
<1>1. ModuleInv => ReleasedOnce
  <2> SUFFICES ASSUME ModuleInv PROVE ReleasedOnce
    OBVIOUS
  <2> USE DEF ModuleInv, TypeOK
  <2>1. ASSUME stage \in Undoing, i > 0, indev[i - 1] # Null
        PROVE  heap[indev[i - 1]].use = "registered" /\ heap[indev[i - 1]].absinfo # "dangling"
    <3>1. i - 1 \in Indices /\ indev[i - 1] \in Blocks
      BY <2>1, SizeAssumption DEF Indices
    <3>2. heap[indev[i - 1]].use = "registered"
      BY <2>1, <3>1 DEF ArrayOK, Undoing
    <3>3. BlockOK(indev[i - 1]) /\ stage # "clear"
      BY <2>1, <3>1 DEF Undoing
    <3>4. QED
      BY <3>2, <3>3 DEF BlockOK
  <2>2. ASSUME stage = "free"
        PROVE  heap[cur].use = "allocated" /\ heap[cur].absinfo # "dangling"
    BY <2>2 DEF CurOK, Adding, BlockOK
  <2>3. QED
    BY <2>1, <2>2 DEF ReleasedOnce
<1>2. QED
  BY <1>1, ModuleInvariant, PTL

\* No device is freed while a program has it open.
THEOREM ReadersAreSafe == Spec => []ReaderSafe
<1>1. ModuleInv => ReaderSafe
  BY DEF ModuleInv, BlockOK, ReaderSafe, TypeOK, Block, FreeBlock
<1>2. QED
  BY <1>1, ModuleInvariant, PTL

\* A registered device has the limits of its axes exactly if it has axes.
THEOREM LimitsAreKept == Spec => []LimitsKept
<1>1. ModuleInv => LimitsKept
  BY DEF ModuleInv, BlockOK, LimitsKept
<1>2. QED
  BY <1>1, ModuleInvariant, PTL

===========================================================================
