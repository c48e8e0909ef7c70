----------------------------- MODULE DevInfo -----------------------------
(***************************************************************************)
(* The table of device descriptions compiled into the kernel module, and   *)
(* the three ways to find a device in it: by canonical name, name and id.  *)
(* A device is the place of its entry in the table, 0 stands for NULL.     *)
(***************************************************************************)
EXTENDS Integers, Sequences

CONSTANT Table    \* the device descriptions, in the order they are searched

\* An entry: its id, its names, and whether it reports absolute positions.  The
\* other capability bits are copied to the device and decide nothing here.
input_id == [bustype: Nat, vendor: Nat, product: Nat, version: Nat]
orng_device_info == [id: input_id, cname: STRING, name: STRING, abs: BOOLEAN]

ASSUME TableAssumption == Table \in Seq(orng_device_info)

Id(bustype, vendor, product, version) ==
  [bustype |-> bustype, vendor |-> vendor, product |-> product, version |-> version]

---------------------------------------------------------------------------

\* A variant that goes on after it has found one.
orng_find_device_Last(matching) ==
  LET last == {e \in matching : \A other \in matching : other <= e}
  IN  IF last = {} THEN 0 ELSE CHOOSE e \in last : TRUE

\* The first of the entries that match, or none.
orng_find_device(matching) ==
  LET first == {e \in matching : \A other \in 1..(e - 1) : other \notin matching}
  IN  IF first = {} THEN 0 ELSE CHOOSE e \in first : TRUE

lldiff(lhs, rhs) == lhs - rhs
llcmp(diff) == (IF diff > 0 THEN 1 ELSE 0) - (IF diff < 0 THEN 1 ELSE 0)

\* The comparison of two ids, field by field.
idcmp(lhs, rhs) ==
  LET cmp(f) == llcmp(lldiff(lhs[f], rhs[f]))
  IN  IF cmp("bustype") # 0 THEN cmp("bustype")
      ELSE IF cmp("vendor") # 0 THEN cmp("vendor")
      ELSE IF cmp("product") # 0 THEN cmp("product")
      ELSE cmp("version")

orng_find_device_by_cname(cname) ==
  orng_find_device({e \in 1..Len(Table) : Table[e].cname = cname})
orng_find_device_by_name(name) ==
  orng_find_device({e \in 1..Len(Table) : Table[e].name = name})
orng_find_device_by_id(id) ==
  orng_find_device({e \in 1..Len(Table) : idcmp(Table[e].id, id) = 0})

===========================================================================
