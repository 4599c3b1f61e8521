------------------------ MODULE MemoryClustersProofs ------------------------
(* What MemoryClusters promises for any number of fabrics, commands and      *)
(* failures: the inventory stays with its compute cluster, a deletion of      *)
(* memory clusters that reports success has outlived them, and an update     *)
(* that gets through moves all of them, one copy to each configuration.      *)
EXTENDS MemoryClusters, FiniteSetTheorems, SequenceTheorems, TLAPS

(***************************************************************************)
(* The inventory.                                                          *)
(***************************************************************************)

(* While the compute cluster is being created the inventory is there         *)
(* already; and there is one compute cluster at most, or there were two.     *)
InventoryInv ==
  /\ "pc" \in DOMAIN op
  /\ op.pc = "cc" => inventory
  /\ ~twice => \A c, d \in ccs : c = d
  /\ InventoryKept

(* What most steps do to it: nothing, or they leave the phase of creation.   *)
Harmless ==
  /\ UNCHANGED <<inventory, ccs, twice, mistaken>>
  /\ "pc" \in DOMAIN op'
  /\ op' = op \/ op'.pc # "cc"

LEMMA HarmlessKeeps == InventoryInv /\ Harmless => InventoryInv'
BY DEF InventoryInv, Harmless, InventoryKept

LEMMA InventoryInit == Init => InventoryInv
BY DEF Init, InventoryInv, InventoryKept, NoCommand

LEMMA InventoryStep == InventoryInv /\ [Next]_vars => InventoryInv'
PROOF
  <1> SUFFICES ASSUME InventoryInv, [Next]_vars PROVE InventoryInv'
    OBVIOUS
  <1>1. CASE Create
    BY <1>1 DEF Create, Command, NoCommand, InventoryInv, InventoryKept
  <1>2. CASE CreateCc
    BY <1>2 DEF CreateCc, Finish, InventoryInv, InventoryKept
  <1>3. CASE DeleteCc
    BY <1>3 DEF DeleteCc, Finish, InventoryInv, InventoryKept
  <1>4. ASSUME World \/ Pass \/ UNCHANGED vars PROVE Harmless
    BY <1>4 DEF World, Activate, Gone, Register, Archive, Break, Pass, Scan, Each, AutoLaunch,
                vars, oci, Harmless, InventoryInv
  <1>8. CASE Terminate
    <2>1. ccs' = ccs /\ twice' = twice /\ "pc" \in DOMAIN op' /\ op'.pc # "cc"
      BY <1>8 DEF Terminate, NoCommand, InventoryInv
    <2>2. UNCHANGED <<inventory, mistaken>> \/ mistaken'
      BY <1>8 DEF Terminate
    <2> QED
      BY <2>1, <2>2 DEF InventoryInv, InventoryKept
  <1>5. ASSUME Add \/ OpLaunch \/ DeleteCluster \/ DeleteNodes \/ DeleteSome PROVE Harmless
    <2>1. ASSUME Add PROVE Harmless
      BY <2>1 DEF Add, Command, NoCommand, oci, Harmless, InventoryInv
    <2>2. ASSUME OpLaunch PROVE Harmless
      BY <2>2 DEF OpLaunch, AfterThis, Finish, Harmless, InventoryInv
    <2>3. ASSUME DeleteCluster PROVE Harmless
      BY <2>3 DEF DeleteCluster, Command, NoCommand, oci, Harmless, InventoryInv
    <2>4. ASSUME DeleteSome PROVE Harmless
      BY <2>4 DEF DeleteSome, Command, NoCommand, oci, Harmless, InventoryInv
    <2>5. ASSUME DeleteNodes PROVE Harmless
      BY <2>5 DEF DeleteNodes, Command, NoCommand, oci, Harmless, InventoryInv
    <2> QED BY <1>5, <2>1, <2>2, <2>3, <2>4, <2>5
  <1>6. ASSUME Delete \/ Await PROVE Harmless
    BY <1>6 DEF Delete, Await, AfterOne, DeleteError, Finish, oci, Harmless, InventoryInv
  <1>7. ASSUME Update \/ UpdateOne PROVE Harmless
    <2>1. ASSUME Update PROVE Harmless
      BY <2>1 DEF Update, Command, NoCommand, oci, Harmless, InventoryInv
    <2>2. ASSUME UpdateOne PROVE Harmless
      BY <2>2 DEF UpdateOne, AfterThis, Finish, Harmless, InventoryInv
    <2> QED BY <1>7, <2>1, <2>2
  <1> QED
    BY <1>1, <1>2, <1>3, <1>4, <1>5, <1>6, <1>7, <1>8, HarmlessKeeps DEF Next, Operator

(* A compute cluster keeps its inventory, for every number of fabrics,       *)
(* creations, commands and failures.                                         *)
THEOREM InventoryIsKept == Spec => []InventoryKept
PROOF
  <1>1. InventoryInv => InventoryKept
    BY DEF InventoryInv
  <1> QED
    BY <1>1, InventoryInit, InventoryStep, PTL DEF Spec

(***************************************************************************)
(* Deletions.                                                              *)
(***************************************************************************)

(* What is deleted never comes back.                                         *)
Shaped == DOMAIN gmc = Gmc /\ \A g \in Gmc : "state" \in DOMAIN gmc[g]

StaysDeleted == \A g \in Gmc : gmc[g].state = "deleted" => gmc'[g].state = "deleted"

LEMMA ShapedInit == Init => Shaped
BY DEF Init, Shaped, Absent

LEMMA LaunchIsHarmless ==
  ASSUME Shaped, NEW t, NEW cc, NEW config, Launch(t, cc, config)
  PROVE  Shaped' /\ StaysDeleted
BY DEF Shaped, StaysDeleted, Launch, Slots

LEMMA DeletedStays == Shaped /\ [Next]_vars => Shaped' /\ StaysDeleted
PROOF
  <1> SUFFICES ASSUME Shaped, [Next]_vars PROVE Shaped' /\ StaysDeleted
    OBVIOUS
  <1>1. CASE UNCHANGED gmc
    BY <1>1 DEF Shaped, StaysDeleted
  <1>2. ASSUME NEW g \in Gmc, Activate(g) \/ Gone(g) PROVE Shaped' /\ StaysDeleted
    BY <1>2 DEF Activate, Gone, Shaped, StaysDeleted
  <1>3. CASE AutoLaunch \/ OpLaunch
    BY <1>1, <1>3, LaunchIsHarmless DEF AutoLaunch, OpLaunch
  <1>4. CASE Delete
    BY <1>4 DEF Delete, Shaped, StaysDeleted
  <1>5. CASE UpdateOne
    BY <1>5 DEF UpdateOne, Shaped, StaysDeleted
  <1>10. CASE Terminate
    <2>1. PICK gs \in SUBSET ToSet(op.seen) : End(gs)
      BY <1>10 DEF Terminate
    <2> QED
      BY <2>1 DEF End, Shaped, StaysDeleted
  <1>6. ASSUME Create \/ CreateCc \/ Add \/ DeleteCluster \/ DeleteNodes \/ DeleteSome \/ Await \/ DeleteCc \/ Update
        PROVE  UNCHANGED gmc
    BY <1>6 DEF Create, CreateCc, Add, DeleteCluster, DeleteNodes, DeleteSome, Await, DeleteCc, Update, oci
  <1>7. ASSUME Scan \/ Each \/ UNCHANGED vars PROVE UNCHANGED gmc
    BY <1>7 DEF Scan, Each, vars, oci
  <1>8. ASSUME NEW g \in Gmc, Register(g) \/ Archive(g) PROVE UNCHANGED gmc
    BY <1>8 DEF Register, Archive, oci
  <1>9. ASSUME NEW f \in Fabric, Break(f) PROVE UNCHANGED gmc
    BY <1>9 DEF Break
  <1> QED
    BY <1>1, <1>2, <1>3, <1>4, <1>5, <1>6, <1>7, <1>8, <1>9, <1>10 DEF Next, Operator, Pass, World

(* A command on chosen memory clusters still has to do what is neither       *)
(* deleted nor counted as a failure.                                         *)
Fields == {"cmd", "pc", "todo", "cc", "config", "seen", "made", "failed"}

Deleting ==
  /\ op.pc \in {"delete", "await", "done", "failed"}
  /\ op.todo \in Seq(Gmc) /\ op.seen \in Seq(Gmc) /\ op.failed \in BOOLEAN
  /\ op.pc \in {"delete", "await"} => op.todo # <<>>
  /\ op.pc = "done" => op.todo = <<>> /\ ~op.failed
  /\ op.failed \/ op.pc = "failed" \/
       \A i \in DOMAIN op.seen :
         gmc[op.seen[i]].state = "deleted" \/ \E k \in DOMAIN op.todo : op.todo[k] = op.seen[i]

DeleteInv ==
  /\ Shaped /\ rows \subseteq Gmc
  /\ DOMAIN op = Fields
  /\ op.cmd = "delete some" => Deleting

LEMMA DeleteInit == Init => DeleteInv
BY ShapedInit DEF Init, DeleteInv, NoCommand, Fields

LEMMA ListingsAreSequences ==
  ASSUME NEW gs \in SUBSET Gmc, NEW s \in Listings(gs)
  PROVE  s \in Seq(Gmc) /\ (gs # {} => s # <<>>)
PROOF
  <1>0. {MaxGmcs, MaxConfigs, MaxCreates, MaxOps, MaxFaults} \subseteq Nat
    BY ParameterAssumption
  <1>1. IsFiniteSet(gs)
    <2>1. MaxGmcs \in Int
      BY <1>0
    <2>2. IsFiniteSet(1..MaxGmcs)
      BY <2>1, FS_Interval
    <2> QED
      BY <2>2, FS_Subset DEF Gmc
  <1>2. Cardinality(gs) \in Nat /\ (gs # {} => Cardinality(gs) # 0)
    BY <1>1, FS_CardinalityType, FS_EmptySet
  <1> QED
    BY <1>2 DEF Listings

(* A list without its head.                                                  *)
LEMMA TailFacts ==
  ASSUME NEW S, NEW s \in Seq(S), s # <<>>
  PROVE  /\ Tail(s) \in Seq(S)
         /\ Len(s) > 1 <=> Tail(s) # <<>>
         /\ s[1] = Head(s) /\ Head(s) \in S
         /\ \A k \in DOMAIN s : k = 1 \/ (k - 1 \in DOMAIN Tail(s) /\ Tail(s)[k - 1] = s[k])
PROOF
  <1>1. /\ Head(s) \in S /\ Tail(s) \in Seq(S) /\ Len(Tail(s)) = Len(s) - 1
        /\ \A i \in 1..Len(Tail(s)) : Tail(s)[i] = s[i + 1]
    BY HeadTailProperties
  <1>2. /\ Len(s) \in Nat \ {0} /\ DOMAIN s = 1..Len(s)
        /\ Len(Tail(s)) \in Nat /\ DOMAIN Tail(s) = 1..Len(Tail(s))
    BY <1>1, EmptySeq, LenProperties
  <1>3. Len(s) > 1 <=> Tail(s) # <<>>
    <2>1. CASE Tail(s) = <<>>
      <3>1. Len(Tail(s)) = 0
        BY <2>1, EmptySeq
      <3>2. Len(s) = 1
        <4>1. Len(s) \in Nat /\ Len(Tail(s)) = Len(s) - 1
          BY <1>1, <1>2
        <4> QED
          BY ONLY <3>1, <4>1
      <3> QED
        BY <2>1, <3>2, SMTT(20)
    <2>2. CASE Tail(s) # <<>>
      <3>1. Len(Tail(s)) \in Nat \ {0}
        BY <1>1, <2>2, EmptySeq
      <3> QED
        BY <1>1, <1>2, <2>2, <3>1
    <2> QED
      BY <2>1, <2>2
  <1>4. s[1] = Head(s)
    OBVIOUS
  <1>5. ASSUME NEW k \in DOMAIN s, k # 1
        PROVE  k - 1 \in DOMAIN Tail(s) /\ Tail(s)[k - 1] = s[k]
    <2>1. k - 1 \in 1..Len(Tail(s)) /\ (k - 1) + 1 = k
      BY <1>1, <1>2, <1>5
    <2> QED BY <1>1, <1>2, <2>1
  <1> QED
    BY <1>1, <1>3, <1>4, <1>5

(* The head is done with: it is deleted, or its failure is counted.          *)
LEMMA AfterOneKeeps ==
  ASSUME DeleteInv, Shaped', StaysDeleted, rows' = rows, NEW cc, AfterOne(cc), op.pc \in {"delete", "await"},
         gmc'[Head(op.todo)].state = "deleted"
  PROVE  DeleteInv'
PROOF
  <1>1. op'.cmd = op.cmd /\ DOMAIN op' = Fields
    BY DEF AfterOne, DeleteInv, Fields
  <1> SUFFICES ASSUME op.cmd = "delete some" PROVE Deleting'
    BY <1>1 DEF DeleteInv
  <1>2. Deleting
    BY DEF DeleteInv
  <1>3. /\ op'.todo = Tail(op.todo) /\ op'.seen = op.seen /\ op'.failed = op.failed
        /\ op'.pc = IF Len(op.todo) > 1 THEN "delete" ELSE IF op.failed THEN "failed" ELSE "done"
    BY <1>2 DEF AfterOne, DeleteInv, Fields, Deleting
  <1>4. op.todo \in Seq(Gmc) /\ op.todo # <<>> /\ op.seen \in Seq(Gmc) /\ op.failed \in BOOLEAN
    BY <1>2 DEF Deleting
  <1>5. \/ op.failed
        \/ \A i \in DOMAIN op.seen :
             gmc'[op.seen[i]].state = "deleted" \/ \E k \in DOMAIN Tail(op.todo) : Tail(op.todo)[k] = op.seen[i]
    <2> SUFFICES ASSUME ~op.failed, NEW i \in DOMAIN op.seen
                 PROVE  gmc'[op.seen[i]].state = "deleted" \/ \E k \in DOMAIN Tail(op.todo) : Tail(op.todo)[k] = op.seen[i]
      OBVIOUS
    <2>1. op.seen[i] \in Gmc
      BY <1>4, LenProperties
    <2>2. CASE gmc[op.seen[i]].state = "deleted"
      BY <2>1, <2>2 DEF StaysDeleted
    <2>3. ASSUME NEW k \in DOMAIN op.todo, op.todo[k] = op.seen[i]
          PROVE  gmc'[op.seen[i]].state = "deleted" \/ \E j \in DOMAIN Tail(op.todo) : Tail(op.todo)[j] = op.seen[i]
      <3>1. CASE k = 1
        BY <1>4, <2>3, <3>1, TailFacts
      <3>2. CASE k # 1
        <4>1. k - 1 \in DOMAIN Tail(op.todo) /\ Tail(op.todo)[k - 1] = op.todo[k]
          BY <1>4, <3>2, TailFacts
        <4> QED BY <4>1, <2>3
      <3> QED BY <3>1, <3>2
    <2> QED
      BY <1>2, <2>2, <2>3 DEF Deleting
  <1>6. Tail(op.todo) \in Seq(Gmc) /\ (Len(op.todo) > 1 <=> Tail(op.todo) # <<>>)
    BY <1>4, TailFacts
  <1> QED
    BY <1>3, <1>4, <1>5, <1>6 DEF Deleting

LEMMA DeleteErrorKeeps ==
  ASSUME DeleteInv, Shaped', rows' = rows, DeleteError, op.pc \in {"delete", "await"}
  PROVE  DeleteInv'
PROOF
  <1>1. op'.cmd = op.cmd /\ DOMAIN op' = Fields
    BY DEF DeleteError, Finish, DeleteInv, Fields
  <1> SUFFICES ASSUME op.cmd = "delete some" PROVE Deleting'
    BY <1>1 DEF DeleteInv
  <1>2. Deleting
    BY DEF DeleteInv
  <1>3. /\ op'.todo = Tail(op.todo) /\ op'.seen = op.seen /\ op'.failed = TRUE
        /\ op'.pc = IF Len(op.todo) > 1 THEN "delete" ELSE "failed"
    BY DEF DeleteError, DeleteInv, Fields
  <1>4. op.todo \in Seq(Gmc) /\ op.todo # <<>> /\ op.seen \in Seq(Gmc)
    BY <1>2 DEF Deleting
  <1>5. Tail(op.todo) \in Seq(Gmc) /\ (Len(op.todo) > 1 <=> Tail(op.todo) # <<>>)
    BY <1>4, TailFacts
  <1> QED
    BY <1>3, <1>4, <1>5 DEF Deleting

(* Every other step leaves the command as it is, or begins or goes on with   *)
(* another command.                                                          *)
Aside == DOMAIN op' = Fields /\ (op' = op \/ op'.cmd # "delete some")

LEMMA AsideKeeps ==
  ASSUME DeleteInv, Shaped', StaysDeleted, rows' \subseteq Gmc, Aside
  PROVE  DeleteInv'
PROOF
  <1> SUFFICES ASSUME op' = op, op.cmd = "delete some" PROVE Deleting'
    BY DEF DeleteInv, Aside
  <1>1. Deleting
    BY DEF DeleteInv
  <1>2. \A i \in DOMAIN op.seen : op.seen[i] \in Gmc
    BY <1>1, LenProperties DEF Deleting
  <1> QED
    BY <1>1, <1>2 DEF Deleting, StaysDeleted

LEMMA DeleteStep == DeleteInv /\ [Next]_vars => DeleteInv'
PROOF
  <1> SUFFICES ASSUME DeleteInv, [Next]_vars PROVE DeleteInv'
    OBVIOUS
  <1>1. Shaped' /\ StaysDeleted
    BY DeletedStays DEF DeleteInv
  <1>2. CASE DeleteSome
    <2>1. PICK some \in SUBSET rows : some # {} /\ \E gs \in Listings(some) :
            op' = [NoCommand EXCEPT !.pc = "delete", !.todo = gs, !.seen = gs, !.cmd = "delete some"]
      BY <1>2 DEF DeleteSome, Command
    <2>2. PICK gs \in Listings(some) :
            op' = [NoCommand EXCEPT !.pc = "delete", !.todo = gs, !.seen = gs, !.cmd = "delete some"]
      BY <2>1
    <2>3. gs \in Seq(Gmc) /\ gs # <<>>
      BY <2>1, ListingsAreSequences DEF DeleteInv
    <2>4. /\ DOMAIN op' = Fields /\ op'.pc = "delete" /\ op'.todo = gs /\ op'.seen = gs /\ op'.failed = FALSE
      BY <2>2 DEF NoCommand, Fields
    <2>5. rows' = rows
      BY <1>2 DEF DeleteSome
    <2> QED
      BY <1>1, <2>3, <2>4, <2>5 DEF DeleteInv, Deleting
  <1>3. CASE Delete
    <2>1. rows' = rows /\ op.pc = "delete"
      BY <1>3 DEF Delete
    <2>2. CASE AfterOne(op.cc) /\ gmc' = gmc /\ gmc[Head(op.todo)].state = "deleted"
      BY <1>1, <2>1, <2>2, AfterOneKeeps
    <2>3. CASE op' = [op EXCEPT !.pc = "await"]
      <3>1. op'.cmd = op.cmd /\ DOMAIN op' = Fields
        BY <2>3 DEF DeleteInv, Fields
      <3> SUFFICES ASSUME op.cmd = "delete some" PROVE Deleting'
        BY <1>1, <2>1, <3>1 DEF DeleteInv
      <3>2. /\ Deleting /\ op'.pc = "await" /\ op'.todo = op.todo /\ op'.seen = op.seen
            /\ op'.failed = op.failed
        BY <2>3 DEF DeleteInv, Fields
      <3>3. \A i \in DOMAIN op.seen : op.seen[i] \in Gmc
        BY <3>2, LenProperties DEF Deleting
      <3> QED
        BY <1>1, <2>1, <3>2, <3>3 DEF Deleting, StaysDeleted
    <2>4. CASE DeleteError
      BY <1>1, <2>1, <2>4, DeleteErrorKeeps
    <2> QED
      BY <1>3, <2>2, <2>3, <2>4 DEF Delete
  <1>4. CASE Await
    <2>1. rows' = rows /\ op.pc = "await" /\ gmc' = gmc
      BY <1>4 DEF Await, oci
    <2>2. CASE AfterOne(gmc[Head(op.todo)].cc) /\ gmc[Head(op.todo)].state = "deleted"
      BY <1>1, <2>1, <2>2, AfterOneKeeps
    <2>3. CASE DeleteError
      BY <1>1, <2>1, <2>3, DeleteErrorKeeps
    <2> QED
      BY <1>4, <2>2, <2>3 DEF Await
  <1>5. ASSUME World \/ Pass \/ UNCHANGED vars PROVE rows' \subseteq Gmc /\ Aside
    BY <1>5 DEF World, Activate, Gone, Register, Archive, Break, Pass, Scan, Each, AutoLaunch,
                vars, oci, Aside, DeleteInv
  <1>6. ASSUME Create \/ Add \/ DeleteCluster \/ DeleteNodes \/ Update PROVE rows' = rows /\ Aside
    BY <1>6 DEF Create, Add, DeleteCluster, DeleteNodes, Update, Command, NoCommand, oci, Aside, Fields
  <1>7. ASSUME CreateCc \/ OpLaunch \/ DeleteCc \/ UpdateOne PROVE rows' = rows /\ Aside
    <2>1. op.pc \in {"cc", "launch", "delete cc", "update"} /\ rows' = rows
      BY <1>7 DEF CreateCc, OpLaunch, DeleteCc, UpdateOne
    <2>2. op.cmd # "delete some"
      BY <2>1 DEF DeleteInv, Deleting
    <2>3. op'.cmd = op.cmd /\ DOMAIN op' = Fields
      BY <1>7 DEF CreateCc, OpLaunch, DeleteCc, UpdateOne, Finish, AfterThis, DeleteInv, Fields
    <2> QED
      BY <2>1, <2>2, <2>3 DEF Aside
  <1>8. ASSUME Terminate PROVE rows' = rows /\ Aside
    <2>1. op.cmd # "delete some" /\ rows' = rows
      BY <1>8 DEF Terminate, DeleteInv, Deleting
    <2>2. CASE op' = [op EXCEPT !.pc = "delete cc", !.seen = <<>>]
      BY <2>1, <2>2 DEF Aside, DeleteInv, Fields
    <2>3. CASE op' = [NoCommand EXCEPT !.cmd = "delete"] \/ op' = [NoCommand EXCEPT !.cmd = "delete", !.pc = "failed"]
      BY <2>1, <2>3 DEF Aside, NoCommand, Fields
    <2> QED
      BY <1>8, <2>1, <2>2, <2>3 DEF Terminate
  <1> QED
    BY <1>1, <1>2, <1>3, <1>4, <1>5, <1>6, <1>7, <1>8, AsideKeeps DEF Next, Operator, DeleteInv

(* A deletion of chosen memory clusters that reports success has outlived    *)
(* them, however many they are and whatever fails.                           *)
THEOREM ReportedIsDeleted == Spec => []ReportedDeletes
PROOF
  <1>1. DeleteInv => ReportedDeletes
    <2> SUFFICES ASSUME DeleteInv, op.cmd = "delete some", op.pc = "done", NEW i \in DOMAIN op.seen
                 PROVE  gmc[op.seen[i]].state = "deleted"
      BY DEF ReportedDeletes
    <2>1. Deleting /\ op.todo = <<>>
      BY DEF DeleteInv, Deleting
    <2>2. op.todo \in Seq(Gmc) /\ Len(op.todo) = 0
      BY <2>1, EmptySeq
    <2>3. \A k \in DOMAIN op.todo : FALSE
      <3>1. DOMAIN op.todo = 1..0
        BY <2>2, LenProperties
      <3> QED
        BY ONLY <3>1, SMTT(20)
    <2> QED
      BY <2>1, <2>3 DEF Deleting
  <1> QED
    BY <1>1, DeleteInit, DeleteStep, PTL DEF Spec
(***************************************************************************)
(* Updates.                                                                *)
(***************************************************************************)

(* Memory clusters that exist or existed have a configuration that exists,   *)
(* and so has whatever is about to be launched.                              *)
Known == {g \in Gmc : gmc[g].state # "absent"}

Shapely ==
  /\ DOMAIN gmc = Gmc /\ \A g \in Gmc : DOMAIN gmc[g] = {"state", "fabric", "cc", "size", "config"}
  /\ \A g \in Known : gmc[g].config \in DOMAIN images

SvcConfigured ==
  /\ DOMAIN svc = {"pc", "todo", "first", "cc", "config"}
  /\ svc.pc = "each" => svc.first \in Known
  /\ svc.pc = "launch" => svc.first \in Known /\ svc.config \in DOMAIN images

OpConfigured ==
  /\ DOMAIN op = Fields
  /\ op.pc \in {"cc", "launch"} => op.config \in {0} \cup DOMAIN images

Configured ==
  /\ images \in Seq({"old", "new"})
  /\ Shapely /\ rows \subseteq Known /\ SvcConfigured /\ OpConfigured

(* An update has moved each memory cluster it chose to the copy of the       *)
(* configuration it had, or still has to.                                    *)
Moved(s) == op.made[s[2]] # 0 /\ gmc[s[1]].config = op.made[s[2]]

Updating ==
  /\ op.pc \in {"update", "done", "failed"}
  /\ op.todo \in Seq(Gmc) /\ op.seen \in Seq(Known \X DOMAIN op.made)
  /\ DOMAIN op.made \subseteq DOMAIN images
  /\ \A c \in DOMAIN op.made :
        op.made[c] = 0 \/ (op.made[c] \in DOMAIN images /\ images[op.made[c]] = "new")
  /\ \A i, j \in DOMAIN op.seen : op.seen[i][1] = op.seen[j][1] => op.seen[i] = op.seen[j]
  /\ \A k \in DOMAIN op.todo : \E i \in DOMAIN op.seen : op.seen[i][1] = op.todo[k]
  /\ op.pc = "update" => op.todo # <<>>
  /\ op.pc = "done" => op.todo = <<>>
  /\ op.pc # "failed" =>
        \A i \in DOMAIN op.seen : Moved(op.seen[i]) \/ \E k \in DOMAIN op.todo : op.todo[k] = op.seen[i][1]

UpdateInv == Configured /\ (op.cmd = "update" => Updating) /\ (op.pc = "update" => op.cmd = "update")

(* Configurations are only added, memory clusters too, and except for an     *)
(* update a memory cluster keeps its configuration.                          *)
Onward ==
  /\ images' \in Seq({"old", "new"}) /\ DOMAIN images \subseteq DOMAIN images'
  /\ \A i \in DOMAIN images : images'[i] = images[i]
  /\ Known \subseteq Known'

Kept == \A g \in Known : gmc'[g].config = gmc[g].config

LEMMA OneMoreImage ==
  ASSUME NEW s \in Seq({"old", "new"}), NEW x \in {"old", "new"}
  PROVE  /\ Append(s, x) \in Seq({"old", "new"}) /\ DOMAIN s \subseteq DOMAIN Append(s, x)
         /\ \A i \in DOMAIN s : Append(s, x)[i] = s[i]
         /\ Len(s) + 1 \in DOMAIN Append(s, x) /\ Append(s, x)[Len(s) + 1] = x
         /\ Len(s) + 1 # 0 /\ Len(s) + 1 \notin DOMAIN s
BY AppendProperties, LenProperties

LEMMA UpdateInit == Init => UpdateInv
PROOF
  <1> SUFFICES ASSUME Init PROVE Configured /\ op.cmd # "update" /\ op.pc # "update"
    BY DEF UpdateInv
  <1>1. images = <<>> /\ rows = {} /\ op = NoCommand /\ svc.pc = "wait" /\ op.pc = "done"
        /\ DOMAIN svc = {"pc", "todo", "first", "cc", "config"}
    BY DEF Init, NoCommand
  <1>2. gmc = [g \in Gmc |-> Absent]
    BY DEF Init
  <1>3. images \in Seq({"old", "new"})
    BY <1>1
  <1>4. DOMAIN gmc = Gmc /\ (\A g \in Gmc : DOMAIN gmc[g] = {"state", "fabric", "cc", "size", "config"})
        /\ Known = {}
    BY <1>2 DEF Known, Absent
  <1> QED
    BY <1>1, <1>3, <1>4 DEF Configured, Shapely, SvcConfigured, OpConfigured, NoCommand, Fields

(* A launch gives a new memory cluster a configuration that exists.          *)
LEMMA LaunchConfigures ==
  ASSUME Configured, NEW t, NEW cc, NEW config, Launch(t, cc, config),
         DOMAIN images \subseteq DOMAIN images', config \in DOMAIN images'
  PROVE  /\ Kept /\ Known \subseteq Known'
         /\ Shapely'
PROOF
  <1>1. PICK g \in Slots :
          gmc' = [gmc EXCEPT ![g] = [state |-> "creating", fabric |-> t.fabric, cc |-> cc,
                                     size |-> t.count, config |-> config]]
    BY DEF Launch
  <1>2. g \in Gmc /\ g \notin Known /\ DOMAIN gmc = Gmc
    BY DEF Slots, Known, Configured, Shapely
  <1>3. gmc'[g].config = config /\ DOMAIN gmc'[g] = {"state", "fabric", "cc", "size", "config"}
        /\ gmc'[g].state = "creating"
    BY <1>1, <1>2
  <1>4. DOMAIN gmc' = Gmc /\ \A h \in Gmc : h # g => gmc'[h] = gmc[h]
    BY <1>1, <1>2
  <1>5. Known' = Known \cup {g}
    BY <1>2, <1>3, <1>4 DEF Known
  <1> QED
    BY <1>2, <1>3, <1>4, <1>5 DEF Configured, Shapely, Kept, Known

(* The images and memory clusters of a step, then the two processes.         *)
CloudGoesOn == Onward /\ Kept /\ Shapely' /\ rows' \subseteq Known'

LEMMA NothingInTheCloud ==
  ASSUME Configured, images' = images, gmc' = gmc, rows' \subseteq Known
  PROVE  CloudGoesOn
BY DEF CloudGoesOn, Configured, Onward, Kept, Shapely, Known

LEMMA OneChanges ==
  ASSUME Configured, NEW g \in Known, images' = images, rows' = rows,
         DOMAIN gmc' = Gmc, \A h \in Gmc : h # g => gmc'[h] = gmc[h],
         gmc'[g].state # "absent", gmc'[g].config = gmc[g].config, DOMAIN gmc'[g] = DOMAIN gmc[g]
  PROVE  CloudGoesOn
PROOF
  <1>1. g \in Gmc /\ Known' = Known
    BY DEF Known
  <1> QED
    BY <1>1 DEF CloudGoesOn, Configured, Onward, Kept, Shapely, Known

LEMMA SvcStaysConfigured ==
  ASSUME Configured, Onward, svc' = svc
  PROVE  SvcConfigured'
BY DEF Configured, SvcConfigured, Onward

LEMMA OpStaysConfigured ==
  ASSUME Configured, Onward, op' = op \/ (DOMAIN op' = Fields /\ op'.config = op.config /\ op.pc \in {"cc", "launch"})
                              \/ (DOMAIN op' = Fields /\ op'.pc \notin {"cc", "launch"})
  PROVE  OpConfigured'
BY DEF Configured, OpConfigured, Onward

LEMMA PassConfigures ==
  ASSUME Configured, Pass
  PROVE  CloudGoesOn /\ SvcConfigured' /\ op' = op
PROOF
  <1> USE DEF Configured
  <1>1. CASE Scan
    <2>1. images' = images /\ gmc' = gmc /\ rows' = rows /\ op' = op
      BY <1>1 DEF Scan, oci
    <2>2. PICK g \in rows : svc' = [svc EXCEPT !.pc = "each", !.todo = Targets, !.first = g]
      BY <1>1 DEF Scan
    <2>3. SvcConfigured'
      BY <2>1, <2>2 DEF SvcConfigured, Known
    <2> QED
      BY <2>1, <2>3, NothingInTheCloud
  <1>2. ASSUME Proceed
        PROVE  /\ DOMAIN svc' = DOMAIN svc
               /\ svc'.pc = "wait" \/ (svc'.pc = "each" /\ svc'.first = svc.first)
    BY <1>2 DEF Proceed, SvcConfigured
  <1>3. CASE Each
    <2>1. images' = images /\ gmc' = gmc /\ rows' = rows /\ op' = op /\ svc.pc = "each"
      BY <1>3 DEF Each, oci
    <2>2. CASE Proceed
      BY <1>2, <2>1, <2>2, NothingInTheCloud DEF SvcConfigured, Known
    <2>3. CASE svc' = [svc EXCEPT !.pc = "launch", !.cc = gmc[svc.first].cc, !.config = gmc[svc.first].config]
      BY <2>1, <2>3, NothingInTheCloud DEF SvcConfigured, Shapely, Known
    <2> QED
      BY <1>3, <2>2, <2>3 DEF Each
  <1>4. CASE AutoLaunch
    <2>1. Proceed /\ images' = images /\ rows' = rows /\ op' = op /\ svc.pc = "launch"
      BY <1>4 DEF AutoLaunch
    <2>2. CASE gmc' = gmc
      BY <1>2, <2>1, <2>2, NothingInTheCloud DEF SvcConfigured, Known
    <2>3. CASE Launch(Head(svc.todo), svc.cc, svc.config)
      <3>1. Kept /\ Known \subseteq Known' /\ Shapely'
        BY <2>1, <2>3, LaunchConfigures DEF SvcConfigured
      <3> QED
        BY <1>2, <2>1, <3>1 DEF SvcConfigured, CloudGoesOn, Onward
    <2> QED
      BY <1>4, <2>2, <2>3 DEF AutoLaunch
  <1> QED
    BY <1>1, <1>3, <1>4 DEF Pass

LEMMA WorldConfigures ==
  ASSUME Configured, World
  PROVE  CloudGoesOn /\ svc' = svc /\ op' = op
PROOF
  <1> USE DEF Configured, Shapely
  <1>1. ASSUME NEW g \in Gmc, Activate(g) PROVE CloudGoesOn /\ svc' = svc /\ op' = op
    BY <1>1, OneChanges DEF Activate, Known
  <1>2. ASSUME NEW g \in Gmc, Gone(g) PROVE CloudGoesOn /\ svc' = svc /\ op' = op
    BY <1>2, OneChanges DEF Gone, Known
  <1>3. ASSUME NEW g \in Gmc, Register(g) \/ Archive(g) PROVE CloudGoesOn /\ svc' = svc /\ op' = op
    BY <1>3, NothingInTheCloud DEF Register, Unregistered, Archive, oci, Known
  <1>4. ASSUME NEW f \in Fabric, Break(f) PROVE CloudGoesOn /\ svc' = svc /\ op' = op
    BY <1>4, NothingInTheCloud DEF Break
  <1> QED
    BY <1>1, <1>2, <1>3, <1>4 DEF World

(* The operator's commands, but for an update: none goes on as an update.    *)
OtherCommand == op'.cmd # "update" /\ op'.pc # "update"

LEMMA CreationConfigures ==
  ASSUME UpdateInv, Create \/ CreateCc
  PROVE  CloudGoesOn /\ svc' = svc /\ OpConfigured' /\ OtherCommand
PROOF
  <1> USE DEF UpdateInv
  <1>1. CASE Create
    <2>1. gmc' = gmc /\ rows' = rows /\ svc' = svc
      BY <1>1 DEF Create
    <2>2. CASE images' = Append(images, "old")
               /\ op' = [NoCommand EXCEPT !.pc = "cc", !.todo = Targets, !.config = Len(images) + 1, !.cmd = "create"]
      <3>1. /\ images' \in Seq({"old", "new"}) /\ DOMAIN images \subseteq DOMAIN images'
            /\ \A i \in DOMAIN images : images'[i] = images[i]
            /\ Len(images) + 1 \in DOMAIN images'
        BY <2>2, OneMoreImage DEF Configured
      <3>2. CloudGoesOn
        BY <2>1, <3>1 DEF CloudGoesOn, Onward, Kept, Configured, Shapely, Known
      <3>3. DOMAIN op' = Fields /\ op'.config = Len(images) + 1 /\ op'.cmd = "create" /\ op'.pc = "cc"
        BY <2>2 DEF NoCommand, Fields
      <3> QED
        BY <2>1, <3>1, <3>2, <3>3 DEF OpConfigured, OtherCommand
    <2>3. CASE images' = images /\ op' = [NoCommand EXCEPT !.pc = "failed", !.cmd = "create"]
      <3>1. CloudGoesOn
        BY <2>1, <2>3, NothingInTheCloud DEF Configured
      <3>2. DOMAIN op' = Fields /\ op'.cmd = "create" /\ op'.pc = "failed"
        BY <2>3 DEF NoCommand, Fields
      <3> QED
        BY <2>1, <3>1, <3>2, OpStaysConfigured DEF CloudGoesOn, OtherCommand
    <2> QED
      BY <1>1, <2>2, <2>3 DEF Create, Command
  <1>2. CASE CreateCc
    <2>1. CloudGoesOn /\ svc' = svc
      BY <1>2, NothingInTheCloud DEF CreateCc, Configured
    <2>2. op.pc = "cc" /\ op.cmd # "update"
      BY <1>2 DEF CreateCc, Updating
    <2>3. /\ DOMAIN op' = Fields /\ op'.config = op.config /\ op'.cmd = op.cmd
          /\ op'.pc \in {"launch", "failed"}
      BY <1>2 DEF CreateCc, Finish, Configured, OpConfigured, Fields
    <2> QED
      BY <2>1, <2>2, <2>3, OpStaysConfigured DEF CloudGoesOn, OtherCommand
  <1> QED
    BY <1>1, <1>2

LEMMA AddConfigures ==
  ASSUME UpdateInv, Add
  PROVE  CloudGoesOn /\ svc' = svc /\ OpConfigured' /\ OtherCommand
PROOF
  <1>1. images' = images /\ CloudGoesOn /\ svc' = svc
    BY NothingInTheCloud DEF UpdateInv, Configured, Add, oci
  <1>2. ASSUME NEW g \in rows,
               op' = [NoCommand EXCEPT !.pc = "launch", !.todo = Targets, !.cc = gmc[g].cc,
                                       !.config = gmc[g].config, !.cmd = "add"]
        PROVE  OpConfigured' /\ OtherCommand
    <2>1. gmc[g].config \in DOMAIN images
      BY DEF UpdateInv, Configured, Shapely
    <2>2. DOMAIN op' = Fields /\ op'.config = gmc[g].config /\ op'.cmd = "add" /\ op'.pc = "launch"
      BY <1>2 DEF NoCommand, Fields
    <2> QED
      BY <1>1, <2>1, <2>2 DEF OpConfigured, OtherCommand
  <1>3. ASSUME op' = [NoCommand EXCEPT !.pc = "launch", !.todo = Targets, !.cc = CHOOSE c \in ccs : TRUE, !.cmd = "add"]
        PROVE  OpConfigured' /\ OtherCommand
    <2>1. DOMAIN op' = Fields /\ op'.config = 0 /\ op'.cmd = "add" /\ op'.pc = "launch"
      BY <1>3 DEF NoCommand, Fields
    <2> QED
      BY <2>1 DEF OpConfigured, OtherCommand
  <1> QED
    BY <1>1, <1>2, <1>3 DEF Add, Command

LEMMA OpLaunchConfigures ==
  ASSUME UpdateInv, OpLaunch
  PROVE  CloudGoesOn /\ svc' = svc /\ OpConfigured' /\ OtherCommand
PROOF
  <1> USE DEF UpdateInv
  <1>1. op.pc = "launch" /\ op.cmd # "update" /\ svc' = svc /\ rows' = rows
    BY DEF OpLaunch, Updating
  <1>2. DOMAIN op' = Fields /\ op'.config = op.config /\ op'.cmd = op.cmd /\ op'.pc \in {"launch", "done", "failed"}
    BY <1>1 DEF OpLaunch, AfterThis, Finish, Configured, OpConfigured, Fields
  <1>3. CloudGoesOn
    <2>1. CASE images' = images /\ gmc' = gmc
      BY <1>1, <2>1, NothingInTheCloud DEF Configured
    <2>2. CASE op.config # 0 /\ images' = images /\ Launch(Head(op.todo), op.cc, op.config)
      <3>1. Kept /\ Known \subseteq Known' /\ Shapely'
        BY <1>1, <2>2, LaunchConfigures DEF Configured, OpConfigured
      <3> QED
        BY <1>1, <2>2, <3>1 DEF CloudGoesOn, Onward, Configured
    <2>3. CASE images' = Append(images, "old") /\ Launch(Head(op.todo), op.cc, Len(images) + 1)
      <3>1. /\ images' \in Seq({"old", "new"}) /\ DOMAIN images \subseteq DOMAIN images'
            /\ \A i \in DOMAIN images : images'[i] = images[i]
            /\ Len(images) + 1 \in DOMAIN images'
        BY <2>3, OneMoreImage DEF Configured
      <3>2. Kept /\ Known \subseteq Known' /\ Shapely'
        BY <2>3, <3>1, LaunchConfigures
      <3> QED
        BY <1>1, <3>1, <3>2 DEF CloudGoesOn, Onward, Configured
    <2> QED
      BY <2>1, <2>2, <2>3 DEF OpLaunch
  <1> QED
    BY <1>1, <1>2, <1>3, OpStaysConfigured DEF CloudGoesOn, OtherCommand

LEMMA DeletionConfigures ==
  ASSUME UpdateInv, DeleteCluster \/ DeleteNodes \/ Terminate \/ DeleteSome \/ Delete \/ Await \/ DeleteCc
  PROVE  CloudGoesOn /\ svc' = svc /\ OpConfigured' /\ OtherCommand
PROOF
  <1> USE DEF UpdateInv
  <1>1. CASE DeleteCluster \/ DeleteSome
    <2>1. CloudGoesOn /\ svc' = svc
      BY <1>1, NothingInTheCloud DEF Configured, DeleteCluster, DeleteSome, oci
    <2>2. DOMAIN op' = Fields /\ op'.cmd \in {"delete", "delete some"} /\ op'.pc = "delete"
      BY <1>1 DEF DeleteCluster, DeleteSome, Command, NoCommand, Fields
    <2> QED
      BY <2>1, <2>2, OpStaysConfigured DEF CloudGoesOn, OtherCommand
  <1>2. CASE Delete \/ Await \/ DeleteCc
    <2>1. op.pc \in {"delete", "await", "delete cc"} /\ op.cmd # "update" /\ svc' = svc /\ rows' = rows
          /\ images' = images
      BY <1>2 DEF Delete, Await, DeleteCc, Updating, oci
    <2>2. DOMAIN op' = Fields /\ op'.cmd = op.cmd /\ op'.pc \notin {"cc", "launch", "update"}
      BY <1>2, <2>1 DEF Delete, Await, DeleteCc, AfterOne, DeleteError, Finish, Configured, OpConfigured, Fields
    <2>3. CASE gmc' = gmc
      BY <2>1, <2>2, <2>3, NothingInTheCloud, OpStaysConfigured DEF CloudGoesOn, OtherCommand, Configured
    <2>4. CASE Delete /\ gmc' # gmc
      <3> DEFINE g == Head(op.todo)
      <3>1. /\ gmc[g].state \in {"creating", "active"}
            /\ gmc' = [gmc EXCEPT ![g].state = "deleting", ![g].size = IF gmc[g].state = "active" THEN @ ELSE 0]
        BY <2>4 DEF Delete
      <3>2. CASE g \in Gmc
        BY <2>1, <2>2, <3>1, <3>2, OneChanges, OpStaysConfigured
           DEF CloudGoesOn, OtherCommand, Configured, Shapely, Known
      <3>3. CASE g \notin Gmc
        <4>1. DOMAIN gmc' = Gmc /\ \A h \in Gmc : gmc'[h] = gmc[h]
          BY <3>1, <3>3 DEF Configured, Shapely
        <4>2. CloudGoesOn
          BY <2>1, <4>1 DEF CloudGoesOn, Onward, Kept, Configured, Shapely, Known
        <4> QED
          BY <2>1, <2>2, <4>2, OpStaysConfigured DEF CloudGoesOn, OtherCommand
      <3> QED
        BY <3>2, <3>3
    <2> QED
      BY <1>2, <2>3, <2>4 DEF Await, DeleteCc, oci
  <1>3. CASE DeleteNodes
    <2>1. CloudGoesOn /\ svc' = svc
      BY <1>3, NothingInTheCloud DEF Configured, DeleteNodes, oci
    <2>2. DOMAIN op' = Fields /\ op'.cmd = "delete" /\ op'.pc = "terminate"
      BY <1>3 DEF DeleteNodes, Command, NoCommand, Fields
    <2> QED
      BY <2>1, <2>2, OpStaysConfigured DEF CloudGoesOn, OtherCommand
  <1>4. CASE Terminate
    <2>1. PICK gs \in SUBSET ToSet(op.seen) : End(gs)
      BY <1>4 DEF Terminate
    <2>2. /\ op.pc = "terminate" /\ op.cmd # "update" /\ svc' = svc /\ rows' = rows /\ images' = images
      BY <1>4 DEF Terminate, Updating
    <2>3. /\ DOMAIN gmc' = Gmc
          /\ \A g \in Gmc : /\ DOMAIN gmc'[g] = DOMAIN gmc[g] /\ gmc'[g].state = gmc[g].state
                            /\ gmc'[g].config = gmc[g].config
      BY <2>1 DEF End, Configured, Shapely
    <2>4. Known' = Known
      BY <2>3 DEF Known
    <2>5. CloudGoesOn
      BY <2>2, <2>3, <2>4 DEF CloudGoesOn, Onward, Kept, Configured, Shapely, Known
    <2>6. CASE op' = [op EXCEPT !.pc = "delete cc", !.seen = <<>>]
      <3>1. DOMAIN op' = Fields /\ op'.cmd = op.cmd /\ op'.pc = "delete cc"
        BY <2>6 DEF Configured, OpConfigured, Fields
      <3> QED
        BY <2>2, <2>5, <3>1, OpStaysConfigured DEF CloudGoesOn, OtherCommand
    <2>7. CASE op' = [NoCommand EXCEPT !.cmd = "delete"] \/ op' = [NoCommand EXCEPT !.cmd = "delete", !.pc = "failed"]
      <3>1. DOMAIN op' = Fields /\ op'.cmd = "delete" /\ op'.pc \in {"done", "failed"}
        BY <2>7 DEF NoCommand, Fields
      <3> QED
        BY <2>2, <2>5, <3>1, OpStaysConfigured DEF CloudGoesOn, OtherCommand
    <2> QED
      BY <1>4, <2>6, <2>7 DEF Terminate
  <1> QED
    BY <1>1, <1>2, <1>3, <1>4

(* An update in progress, or over, while something else happens.             *)
LEMMA UpdatingStays ==
  ASSUME Configured, Updating, CloudGoesOn, op' = op
  PROVE  Updating'
PROOF
  <1>1. \A i \in DOMAIN op.seen : op.seen[i] \in Known \X DOMAIN op.made
    BY LenProperties DEF Updating
  <1>2. op.seen \in Seq(Known' \X DOMAIN op.made)
    BY <1>1, LenProperties, SeqDef DEF Updating, CloudGoesOn, Onward
  <1>3. \A c \in DOMAIN op.made :
          op.made[c] = 0 \/ (op.made[c] \in DOMAIN images' /\ images'[op.made[c]] = "new")
    BY DEF Updating, CloudGoesOn, Onward
  <1>4. \A i \in DOMAIN op.seen : Moved(op.seen[i]) => Moved(op.seen[i])'
    BY <1>1 DEF Moved, CloudGoesOn, Kept
  <1>5. DOMAIN op.made \subseteq DOMAIN images'
    BY DEF Updating, CloudGoesOn, Onward
  <1> QED
    BY <1>2, <1>3, <1>4, <1>5 DEF Updating

(* The beginning of an update.                                               *)
LEMMA UpdateConfigures ==
  ASSUME UpdateInv, Update
  PROVE  UpdateInv'
PROOF
  <1> USE DEF UpdateInv
  <1>1. CloudGoesOn /\ svc' = svc /\ images' = images /\ gmc' = gmc
    BY NothingInTheCloud DEF Configured, Update, oci
  <1> DEFINE chosen == {g \in rows : gmc[g].state # "deleted"}
             seen(gs) == [i \in DOMAIN gs |-> <<gs[i], gmc[gs[i]].config>>]
             made == [c \in DOMAIN images |-> 0]
  <1>2. PICK gs \in Listings(chosen) :
          /\ gs # <<>>
          /\ op' = [NoCommand EXCEPT !.pc = "update", !.todo = gs, !.seen = seen(gs), !.made = made,
                                     !.cmd = "update"]
    BY DEF Update, Command
  <1>3. chosen \subseteq Known /\ Known \subseteq Gmc
    BY DEF Configured, Known
  <1>4. gs \in Seq(Gmc) /\ DOMAIN gs = 1..Len(gs) /\ Len(gs) \in Nat
    BY <1>3, ListingsAreSequences, LenProperties
  <1>5. \A i \in DOMAIN gs : gs[i] \in chosen
    BY DEF Listings
  <1>6. /\ DOMAIN op' = Fields /\ op'.pc = "update" /\ op'.cmd = "update" /\ op'.todo = gs
        /\ op'.seen = seen(gs) /\ op'.made = made
    BY <1>2 DEF NoCommand, Fields
  <1>7. \A i \in DOMAIN gs : seen(gs)[i] \in Known \X DOMAIN images
    BY <1>3, <1>5 DEF Configured, Shapely
  <1>8. seen(gs) \in Seq(Known \X DOMAIN images)
    BY <1>4, <1>7, SeqDef
  <1>9. DOMAIN seen(gs) = DOMAIN gs /\ \A i \in DOMAIN gs : seen(gs)[i] = <<gs[i], gmc[gs[i]].config>>
    OBVIOUS
  <1>10. Known' = Known
    BY <1>1 DEF Known
  <1>11. Configured'
    BY <1>1, <1>6, SvcStaysConfigured, OpStaysConfigured DEF CloudGoesOn, Configured, Onward
  <1>12. \A i, j \in DOMAIN seen(gs) : seen(gs)[i][1] = seen(gs)[j][1] => seen(gs)[i] = seen(gs)[j]
    BY <1>9
  <1>13. \A k \in DOMAIN gs : k \in DOMAIN seen(gs) /\ seen(gs)[k][1] = gs[k]
    BY <1>9
  <1> HIDE DEF seen
  <1>14. DOMAIN made = DOMAIN images /\ \A c \in DOMAIN made : made[c] = 0
    OBVIOUS
  <1> HIDE DEF made
  <1>15. Updating'
    BY <1>1, <1>2, <1>4, <1>6, <1>8, <1>9, <1>10, <1>12, <1>13, <1>14 DEF Updating
  <1> QED
    BY <1>6, <1>11, <1>15

(* The configuration a memory cluster had when it was chosen.                *)
LEMMA SourceIsThere ==
  ASSUME Configured, Updating, NEW j \in DOMAIN op.seen, NEW g, op.seen[j][1] = g
  PROVE  SourceOf(g) \in DOMAIN op.made /\ op.seen[j] = <<g, SourceOf(g)>>
PROOF
  <1>1. op.seen[j] \in Known \X DOMAIN op.made /\ DOMAIN op.made \subseteq DOMAIN images
    BY LenProperties DEF Updating
  <1>2. op.seen[j] = <<g, op.seen[j][2]>> /\ op.seen[j][2] \in DOMAIN images
    BY <1>1
  <1>3. <<g, op.seen[j][2]>> \in ToSet(op.seen)
    BY <1>2 DEF ToSet
  <1>4. <<g, SourceOf(g)>> \in ToSet(op.seen)
    BY <1>2, <1>3 DEF SourceOf
  <1>5. PICK i \in DOMAIN op.seen : op.seen[i] = <<g, SourceOf(g)>>
    BY <1>4 DEF ToSet
  <1>6. op.seen[i] = op.seen[j]
    BY <1>5 DEF Updating
  <1> QED
    BY <1>1, <1>5, <1>6

(* The copy of a source is new, and remembered for the next.                 *)
LEMMA CopyIsNew ==
  ASSUME Configured, Updating, NEW c \in DOMAIN op.made, Copy(c)
  PROVE  /\ images' \in Seq({"old", "new"}) /\ DOMAIN images \subseteq DOMAIN images'
         /\ \A i \in DOMAIN images : images'[i] = images[i]
         /\ Target(c) \in DOMAIN images' /\ images'[Target(c)] = "new" /\ Target(c) # 0
         /\ op.made[c] # 0 => Target(c) = op.made[c]
PROOF
  <1>1. CASE op.made[c] # 0
    BY <1>1 DEF Copy, Target, Configured, Updating
  <1>2. CASE op.made[c] = 0
    <2>1. images' = Append(images, "new") /\ Target(c) = Len(images) + 1
      BY <1>2 DEF Copy, Target
    <2> QED
      BY <1>2, <2>1, OneMoreImage DEF Configured
  <1> QED
    BY <1>1, <1>2

(* A command that failed promises nothing.                                   *)
LEMMA FailureKeeps ==
  ASSUME UpdateInv, op.pc = "update", Finish("failed"), gmc' = gmc, rows' = rows, svc' = svc,
         images' \in Seq({"old", "new"}), DOMAIN images \subseteq DOMAIN images',
         \A i \in DOMAIN images : images'[i] = images[i]
  PROVE  UpdateInv'
PROOF
  <1>1. CloudGoesOn /\ Known' = Known
    BY DEF CloudGoesOn, Onward, Kept, UpdateInv, Configured, Shapely, Known
  <1>2. /\ DOMAIN op' = Fields /\ op'.pc = "failed" /\ op'.cmd = op.cmd /\ op'.todo = <<>>
        /\ op'.seen = op.seen /\ op'.made = op.made
    BY DEF Finish, UpdateInv, Configured, OpConfigured, Fields
  <1>3. Configured'
    BY <1>1, <1>2, SvcStaysConfigured, OpStaysConfigured DEF UpdateInv, CloudGoesOn, Configured, Onward
  <1>4. Updating
    BY DEF UpdateInv
  <1>5. <<>> \in Seq(Gmc) /\ \A k \in DOMAIN <<>> : FALSE
    OBVIOUS
  <1>6. Updating'
    BY <1>1, <1>2, <1>4, <1>5 DEF Updating, Onward
  <1> QED
    BY <1>2, <1>3, <1>6 DEF UpdateInv

LEMMA UpdateOneConfigures ==
  ASSUME UpdateInv, UpdateOne
  PROVE  UpdateInv'
PROOF
  <1> DEFINE g == Head(op.todo)
             c == SourceOf(g)
             t == Target(c)
  <1>1. op.pc = "update" /\ rows' = rows /\ svc' = svc
    BY DEF UpdateOne
  <1>2. Configured /\ Updating /\ DOMAIN op = Fields
    BY <1>1 DEF UpdateInv, Configured, OpConfigured
  <1>3. op.todo \in Seq(Gmc) /\ op.todo # <<>>
    BY <1>1, <1>2 DEF Updating
  <1>4. /\ Tail(op.todo) \in Seq(Gmc) /\ (Len(op.todo) > 1 <=> Tail(op.todo) # <<>>)
        /\ op.todo[1] = g /\ g \in Gmc /\ 1 \in DOMAIN op.todo
        /\ \A k \in DOMAIN op.todo :
              k = 1 \/ (k - 1 \in DOMAIN Tail(op.todo) /\ Tail(op.todo)[k - 1] = op.todo[k])
    <2>1. 1 \in DOMAIN op.todo
      BY <1>3, EmptySeq, LenProperties
    <2> QED
      BY <1>3, <2>1, TailFacts
  <1>5. PICK j \in DOMAIN op.seen : op.seen[j][1] = g
    BY <1>2, <1>4 DEF Updating
  <1>6. c \in DOMAIN op.made /\ g \in Known
    <2>1. op.seen[j] \in Known \X DOMAIN op.made
      BY <1>2, LenProperties DEF Updating
    <2> QED
      BY <1>2, <1>5, <2>1, SourceIsThere
  <1>7. \A i \in DOMAIN op.seen : op.seen[i] \in Known \X DOMAIN op.made /\ (op.seen[i][1] = g => op.seen[i][2] = c)
    <2>1. \A i \in DOMAIN op.seen : op.seen[i] \in Known \X DOMAIN op.made
      BY <1>2, LenProperties DEF Updating
    <2>2. ASSUME NEW i \in DOMAIN op.seen, op.seen[i][1] = g PROVE op.seen[i][2] = c
      BY <1>2, <2>2, SourceIsThere
    <2> QED
      BY <2>1, <2>2
  <1> HIDE DEF g, c, t
  <1>8. ASSUME Copy(c), gmc' = [gmc EXCEPT ![g].config = t],
               op' = [op EXCEPT !.todo = Tail(@), !.pc = AfterThis, !.made[c] = t]
        PROVE  UpdateInv'
    <2>1. /\ images' \in Seq({"old", "new"}) /\ DOMAIN images \subseteq DOMAIN images'
          /\ \A i \in DOMAIN images : images'[i] = images[i]
          /\ t \in DOMAIN images' /\ images'[t] = "new" /\ t # 0
          /\ op.made[c] # 0 => t = op.made[c]
      BY <1>2, <1>6, <1>8, CopyIsNew DEF t
    <2>2. /\ DOMAIN op' = Fields /\ op'.cmd = op.cmd /\ op'.todo = Tail(op.todo) /\ op'.seen = op.seen
          /\ op'.pc = AfterThis /\ op'.made = [op.made EXCEPT ![c] = t]
      BY <1>2, <1>8 DEF Fields
    <2>3. /\ DOMAIN op'.made = DOMAIN op.made /\ op'.made[c] = t
          /\ \A d \in DOMAIN op.made : d # c => op'.made[d] = op.made[d]
      BY <1>6, <2>2
    <2>4. op'.pc = IF Tail(op.todo) = <<>> THEN "done" ELSE "update"
      <3>1. Len(op.todo) = 1 <=> Tail(op.todo) = <<>>
        <4>1. Len(op.todo) \in Nat /\ Len(op.todo) # 0
          BY <1>3, EmptySeq, LenProperties
        <4>2. \A n \in Nat : n # 0 => (n = 1 <=> ~(n > 1))
          OBVIOUS
        <4>3. Len(op.todo) = 1 <=> ~(Len(op.todo) > 1)
          BY <4>1, <4>2
        <4> QED
          BY <1>4, <4>3
      <3> QED
        BY <1>1, <2>2, <3>1 DEF AfterThis
    <2>5. /\ DOMAIN gmc' = Gmc /\ gmc'[g].config = t /\ gmc'[g].state = gmc[g].state
          /\ DOMAIN gmc'[g] = DOMAIN gmc[g]
          /\ \A h \in Gmc : h # g => gmc'[h] = gmc[h]
      BY <1>2, <1>4, <1>8 DEF Configured, Shapely
    <2>6. Known' = Known
      BY <1>4, <2>5 DEF Known
    <2>7. Onward /\ Shapely'
      BY <1>2, <2>1, <2>5, <2>6 DEF Onward, Configured, Shapely, Known
    <2>8. Configured'
      BY <1>1, <1>2, <2>2, <2>4, <2>6, <2>7, SvcStaysConfigured, OpStaysConfigured DEF Configured, Onward
    <2>9. \A i \in DOMAIN op.seen : op.seen[i][1] = g => Moved(op.seen[i])'
      BY <1>7, <2>1, <2>2, <2>3, <2>5 DEF Moved
    <2>10. ASSUME NEW i \in DOMAIN op.seen, op.seen[i][1] # g, Moved(op.seen[i]) PROVE Moved(op.seen[i])'
      <3> DEFINE s == op.seen[i]
      <3>1. s[1] \in Gmc /\ s[2] \in DOMAIN op.made
        BY <1>7 DEF Known
      <3>2. gmc'[s[1]] = gmc[s[1]]
        BY <2>5, <2>10, <3>1
      <3>3. op'.made[s[2]] = op.made[s[2]]
        BY <2>1, <2>3, <2>10, <3>1 DEF Moved
      <3> QED
        BY <2>2, <2>10, <3>2, <3>3 DEF Moved
    <2>11. \A i \in DOMAIN op.seen :
             Moved(op.seen[i])' \/ \E k \in DOMAIN Tail(op.todo) : Tail(op.todo)[k] = op.seen[i][1]
      <3> SUFFICES ASSUME NEW i \in DOMAIN op.seen, op.seen[i][1] # g, NEW k \in DOMAIN op.todo,
                          op.todo[k] = op.seen[i][1]
                   PROVE  \E n \in DOMAIN Tail(op.todo) : Tail(op.todo)[n] = op.seen[i][1]
        BY <1>1, <1>2, <2>9, <2>10 DEF Updating
      <3> QED
        BY <1>4
    <2>12. \A k \in DOMAIN Tail(op.todo) : \E i \in DOMAIN op.seen : op.seen[i][1] = Tail(op.todo)[k]
      <3> SUFFICES ASSUME NEW k \in DOMAIN Tail(op.todo)
                   PROVE  k + 1 \in DOMAIN op.todo /\ op.todo[k + 1] = Tail(op.todo)[k]
        BY <1>2 DEF Updating
      <3> QED
        BY <1>3, HeadTailProperties, LenProperties
    <2>13. \A d \in DOMAIN op.made :
             op'.made[d] = 0 \/ (op'.made[d] \in DOMAIN images' /\ images'[op'.made[d]] = "new")
      <3> TAKE d \in DOMAIN op.made
      <3>1. CASE d = c
        BY <2>1, <2>3, <3>1
      <3>2. CASE d # c
        <4>1. op.made[d] = 0 \/ (op.made[d] \in DOMAIN images /\ images[op.made[d]] = "new")
          BY <1>2 DEF Updating
        <4>2. op'.made[d] = op.made[d]
          BY <2>3, <3>2
        <4> HIDE <1>8
        <4> QED
          BY <2>1, <4>1, <4>2
      <3> QED
        BY <3>1, <3>2
    <2>14. DOMAIN op'.made \subseteq DOMAIN images'
      BY <1>2, <2>1, <2>3 DEF Updating
    <2>15. op'.seen \in Seq(Known' \X DOMAIN op'.made)
      BY <1>2, <2>2, <2>3, <2>6 DEF Updating
    <2>16. \A d \in DOMAIN op'.made :
             op'.made[d] = 0 \/ (op'.made[d] \in DOMAIN images' /\ images'[op'.made[d]] = "new")
      BY <2>3, <2>13
    <2>17. op'.pc \in {"update", "done"} /\ (op'.pc = "update" => op'.todo # <<>>)
           /\ (op'.pc = "done" => op'.todo = <<>>) /\ op'.todo \in Seq(Gmc)
      BY <1>4, <2>2, <2>4
    <2>18. Updating'
      <3>1. /\ \A i, k \in DOMAIN op'.seen : op'.seen[i][1] = op'.seen[k][1] => op'.seen[i] = op'.seen[k]
            /\ \A k \in DOMAIN op'.todo : \E i \in DOMAIN op'.seen : op'.seen[i][1] = op'.todo[k]
            /\ \A i \in DOMAIN op'.seen : Moved(op.seen[i])' \/ \E k \in DOMAIN op'.todo : op'.todo[k] = op'.seen[i][1]
        BY <1>2, <2>2, <2>11, <2>12 DEF Updating
      <3> QED
        BY <2>2, <2>14, <2>15, <2>16, <2>17, <3>1 DEF Updating
    <2> QED
      BY <1>1, <2>2, <2>8, <2>18 DEF UpdateInv
  <1>9. ASSUME Copy(c), Finish("failed"), gmc' = gmc PROVE UpdateInv'
    BY <1>1, <1>2, <1>6, <1>9, CopyIsNew, FailureKeeps
  <1>10. ASSUME Finish("failed"), gmc' = gmc, images' = images PROVE UpdateInv'
    BY <1>1, <1>2, <1>10, FailureKeeps DEF Configured
  <1> QED
    BY <1>8, <1>9, <1>10 DEF UpdateOne, g, c, t

LEMMA UpdateStep == UpdateInv /\ [Next]_vars => UpdateInv'
PROOF
  <1> SUFFICES ASSUME UpdateInv, [Next]_vars PROVE UpdateInv'
    OBVIOUS
  <1>1. Configured
    BY DEF UpdateInv
  <1>2. ASSUME CloudGoesOn, svc' = svc \/ SvcConfigured', op' = op \/ (OpConfigured' /\ OtherCommand)
        PROVE  UpdateInv'
    <2>1. Onward /\ SvcConfigured' /\ OpConfigured'
      BY <1>1, <1>2, SvcStaysConfigured, OpStaysConfigured DEF CloudGoesOn
    <2>2. Configured'
      BY <1>2, <2>1 DEF Configured, CloudGoesOn, Onward
    <2> QED
      BY <1>1, <1>2, <2>2, UpdatingStays DEF UpdateInv, OtherCommand
  <1>3. CASE Pass
    BY <1>1, <1>2, <1>3, PassConfigures
  <1>4. CASE World
    BY <1>1, <1>2, <1>4, WorldConfigures
  <1>5. CASE \/ Create \/ CreateCc \/ Add \/ OpLaunch \/ DeleteCluster \/ DeleteNodes \/ Terminate
            \/ DeleteSome \/ Delete \/ Await \/ DeleteCc
    BY <1>2, <1>5, CreationConfigures, AddConfigures, OpLaunchConfigures, DeletionConfigures
  <1>6. CASE Update \/ UpdateOne
    BY <1>6, UpdateConfigures, UpdateOneConfigures
  <1>7. CASE UNCHANGED vars
    BY <1>1, <1>2, <1>7, NothingInTheCloud DEF vars, oci, Configured
  <1> QED
    BY <1>3, <1>4, <1>5, <1>6, <1>7 DEF Next, Operator

(* An update that gets through leaves every memory cluster it chose with the *)
(* new image, and those that shared a configuration with one copy of it,     *)
(* although OCI creates and deletes others and the service adds some.        *)
THEOREM UpdateIsUniform == Spec => []UpdatedIsUniform
PROOF
  <1>1. UpdateInv => UpdatedIsUniform
    <2> SUFFICES ASSUME UpdateInv, op.cmd = "update", op.pc = "done",
                        NEW s \in ToSet(op.seen), NEW t \in ToSet(op.seen)
                 PROVE  images[gmc[s[1]].config] = "new" /\ (s[2] = t[2] => gmc[s[1]].config = gmc[t[1]].config)
      BY DEF UpdatedIsUniform
    <2>1. Updating /\ op.todo = <<>>
      BY DEF UpdateInv, Updating
    <2>2. \A i \in DOMAIN op.seen : Moved(op.seen[i]) /\ op.seen[i] \in Known \X DOMAIN op.made
      <3>1. \A k \in DOMAIN op.todo : FALSE
        BY <2>1
      <3> QED
        BY <2>1, <3>1, LenProperties DEF Updating
    <2>3. Moved(s) /\ Moved(t) /\ s[2] \in DOMAIN op.made
      BY <2>2 DEF ToSet
    <2> QED
      BY <2>1, <2>3 DEF Moved, Updating
  <1> QED
    BY <1>1, UpdateInit, UpdateStep, PTL DEF Spec

=============================================================================
