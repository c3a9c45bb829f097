------------------------------ MODULE SharedMem ------------------------------
(***************************************************************************)
(* The shared-memory manager of src/xv6-public/proc.c (shm_init,           *)
(* shm_open, shm_close) behind sys_open_sharedmem and sys_close_sharedmem  *)
(* (sysproc.c), with the parts of the process lifecycle that touch a      *)
(* process's address space: fork (a child starts with no shared pages),   *)
(* growproc, exit, and wait's freevm of the child's page table.           *)
(*                                                                         *)
(* Address spaces are cut down to pages 0..MaxSz of each process: a page  *)
(* is unmapped, mapped to a private frame (Priv, not tracked), or mapped  *)
(* to a frame of the pool Frames that shm_open takes from kalloc().  The  *)
(* kalloc free list is a stack, as kfree() pushes and kalloc() pops.       *)
(* mappages, freevm, kalloc and kfree live in vm.c and kalloc.c, which    *)
(* are not in this snapshot; they are modelled from spec.md, where they   *)
(* are the external allocate_page/map/free_page, and from their xv6       *)
(* contract: mapping a page that is already present is a panic("remap").  *)
(***************************************************************************)
EXTENDS Naturals, Sequences, SequencesExt, FiniteSets

CONSTANTS
    NPROC,             \* process slots
    MAX_SHARED_PAGES,  \* entries of shm.shared_pages (16 in shm.h)
    NFRAMES,           \* frames kalloc() can hand out
    MaxSz,             \* bound on p->sz, in pages
    Ids                \* ids passed to open_sharedmem/close_sharedmem

Procs   == 1..NPROC
PoolIdx == 1..MAX_SHARED_PAGES
Frames  == 1..NFRAMES
Pages   == 0..MaxSz
NoFrame == 0
Priv    == -1                \* a private page of the process
FREE_ID == -1                \* shared_pages[i].id of an unused entry
NoAddr  == -1                \* shared_addresses[i] when not mapped
NoPanic == "none"

VARIABLES
    pstate,    \* UNUSED, LIVE (EMBRYO to RUNNING) or ZOMBIE
    sz,        \* p->sz in pages
    pt,        \* p->pgdir over Pages
    shaddr,    \* p->shared_addresses, a page or NoAddr
    pool,      \* shm.shared_pages: [id, ref (ref_count), frame]
    freelist,  \* kmem.freelist, head first
    panicked   \* the reason the kernel panicked, or NoPanic

vars == <<pstate, sz, pt, shaddr, pool, freelist, panicked>>

Holds(p) == pstate[p] # "UNUSED"      \* p has a page table

-----------------------------------------------------------------------------
(* kalloc.c/vm.c, from spec.md: kinit frees the frames in ascending order, *)
(* so the highest is at the head; kalloc pops the head, 0 when empty;      *)
(* kfree pushes.                                                           *)
KInit == [k \in 1..NFRAMES |-> NFRAMES + 1 - k]

(* mappages() of one page: it panics with "remap" if the page is present *)
(* already, and the kernel stops there.                                    *)
Remap(p, pg) == pt[p][pg] # NoFrame

Panic(why) ==
    /\ panicked' = why
    /\ UNCHANGED <<pstate, sz, pt, shaddr, pool, freelist>>

(* freevm(pgdir): every present user page is kfree'd in ascending order,   *)
(* so the frame of the highest page ends at the head of the free list.     *)
FreeVmFrames(p) ==
    LET Mapped == SelectSeq([k \in 1..MaxSz + 1 |-> k - 1],
                            LAMBDA pg : pt[p][pg] \in Frames)
    IN  Reverse([k \in DOMAIN Mapped |-> pt[p][Mapped[k]]])

-----------------------------------------------------------------------------
(* shm_init() (proc.c:973-983) on the zeroed global shm, with initcode as *)
(* the only process, one private page (userinit sets sz = PGSIZE).         *)
Init ==
    /\ pstate = [p \in Procs |-> IF p = 1 THEN "LIVE" ELSE "UNUSED"]
    /\ sz = [p \in Procs |-> IF p = 1 THEN 1 ELSE 0]
    /\ pt = [p \in Procs |-> [pg \in Pages |-> IF p = 1 /\ pg = 0 THEN Priv ELSE NoFrame]]
    /\ shaddr = [p \in Procs |-> [i \in PoolIdx |-> IF p = 1 THEN NoAddr ELSE 0]]
    /\ pool = [i \in PoolIdx |-> [id |-> FREE_ID, ref |-> 0, frame |-> NoFrame]]
    /\ freelist = KInit
    /\ panicked = NoPanic

(* The index of the first entry whose id is id, 0 if none               *)
(* (proc.c:993-1000 and 1050-1057).                                       *)
PageIndex(id) ==
    IF \E i \in PoolIdx : pool[i].id = id
    THEN CHOOSE i \in PoolIdx : pool[i].id = id /\ \A j \in 1..i-1 : pool[j].id # id
    ELSE 0

(* The first free entry, 0 if none (proc.c:1005-1012). *)
FreeIndex == PageIndex(FREE_ID)

(* shm_open(id) by p (proc.c:986-1043) runs under shm.slk and ends in one  *)
(* of three ways, one action each.                                         *)

(* -1 (proc.c:1014-1018, 1031-1035): a new id and no free entry, or an id  *)
(* p has mapped already.                                                   *)
ShmOpenFail(p, id) ==
    LET i == PageIndex(id) IN
    /\ \/ i = 0 /\ FreeIndex = 0
       \/ i # 0 /\ shaddr[p][i] # NoAddr
    /\ UNCHANGED vars

(* A new id (proc.c:1002-1029): the first free entry gets a frame from     *)
(* kalloc(), which is not checked for 0 before memset (a fault in the      *)
(* kernel, hence a panic); the frame is mapped at PGROUNDUP(p->sz), which  *)
(* p->sz is not moved past, and recorded, and the entry counts one user.   *)
ShmOpenNew(p, id) ==
    LET n == FreeIndex IN
    /\ PageIndex(id) = 0 /\ n # 0
    /\ CASE freelist = <<>> -> Panic("kalloc")
         [] Remap(p, sz[p]) -> Panic("remap")
         [] OTHER ->
              /\ pt' = [pt EXCEPT ![p][sz[p]] = Head(freelist)]
              /\ freelist' = Tail(freelist)
              /\ shaddr' = [shaddr EXCEPT ![p][n] = sz[p]]
              /\ pool' = [pool EXCEPT ![n] = [id |-> id, ref |-> @.ref + 1,
                                              frame |-> Head(freelist)]]
              /\ UNCHANGED <<pstate, sz, panicked>>

(* Fault seed for ShmOpenShared: the new user is not counted. *)
ShmOpenSharedFaultNoRef(p, id) ==
    LET i == PageIndex(id) IN
    /\ i # 0 /\ shaddr[p][i] = NoAddr
    /\ IF Remap(p, sz[p]) THEN Panic("remap")
       ELSE /\ pt' = [pt EXCEPT ![p][sz[p]] = pool[i].frame]
            /\ shaddr' = [shaddr EXCEPT ![p][i] = sz[p]]
            /\ UNCHANGED <<pstate, sz, pool, freelist, panicked>>

(* An id open elsewhere (proc.c:1037-1041): its frame is mapped at         *)
(* PGROUNDUP(p->sz) and recorded, and the entry counts one more user.      *)
ShmOpenShared(p, id) ==
    LET i == PageIndex(id) IN
    /\ i # 0 /\ shaddr[p][i] = NoAddr
    /\ IF Remap(p, sz[p]) THEN Panic("remap")
       ELSE /\ pt' = [pt EXCEPT ![p][sz[p]] = pool[i].frame]
            /\ shaddr' = [shaddr EXCEPT ![p][i] = sz[p]]
            /\ pool' = [pool EXCEPT ![i].ref = @ + 1]
            /\ UNCHANGED <<pstate, sz, freelist, panicked>>

(* shm_close(id) by p (proc.c:1046-1092), under shm.slk. *)

(* -1 (proc.c:1060-1064): no entry has the id, or p has not mapped it. *)
ShmCloseFail(p, id) ==
    LET i == PageIndex(id) IN
    /\ i = 0 \/ (i # 0 /\ shaddr[p][i] = NoAddr)
    /\ UNCHANGED vars

(* Fault seeds for ShmCloseUnmap: the frame is not freed when the last    *)
(* user leaves; the frame is freed whoever leaves; the entry is cleared    *)
(* before its frame is passed to kfree.                                    *)
ShmCloseUnmapFaultClearFirst(p, id) ==
    LET i == PageIndex(id) IN
    /\ i # 0 /\ shaddr[p][i] # NoAddr
    /\ pt' = [pt EXCEPT ![p][shaddr[p][i]] = NoFrame]
    /\ shaddr' = [shaddr EXCEPT ![p][i] = NoAddr]
    /\ IF pool[i].ref - 1 = 0
       THEN /\ freelist' = <<NoFrame>> \o freelist
            /\ pool' = [pool EXCEPT ![i] = [id |-> FREE_ID, ref |-> 0, frame |-> NoFrame]]
       ELSE /\ pool' = [pool EXCEPT ![i].ref = @ - 1]
            /\ UNCHANGED freelist
    /\ UNCHANGED <<pstate, sz, panicked>>

ShmCloseUnmapFaultNoFree(p, id) ==
    LET i == PageIndex(id) IN
    /\ i # 0 /\ shaddr[p][i] # NoAddr
    /\ pt' = [pt EXCEPT ![p][shaddr[p][i]] = NoFrame]
    /\ shaddr' = [shaddr EXCEPT ![p][i] = NoAddr]
    /\ pool' = IF pool[i].ref - 1 = 0
               THEN [pool EXCEPT ![i] = [id |-> FREE_ID, ref |-> 0, frame |-> NoFrame]]
               ELSE [pool EXCEPT ![i].ref = @ - 1]
    /\ UNCHANGED <<pstate, sz, freelist, panicked>>

ShmCloseUnmapFaultFreeEarly(p, id) ==
    LET i == PageIndex(id) IN
    /\ i # 0 /\ shaddr[p][i] # NoAddr
    /\ pt' = [pt EXCEPT ![p][shaddr[p][i]] = NoFrame]
    /\ shaddr' = [shaddr EXCEPT ![p][i] = NoAddr]
    /\ freelist' = <<pool[i].frame>> \o freelist
    /\ pool' = IF pool[i].ref - 1 = 0
               THEN [pool EXCEPT ![i] = [id |-> FREE_ID, ref |-> 0, frame |-> NoFrame]]
               ELSE [pool EXCEPT ![i].ref = @ - 1]
    /\ UNCHANGED <<pstate, sz, panicked>>

(* The unmap (proc.c:1066-1089): clear the PTE at the recorded address,    *)
(* clear the record, drop the count, and at zero kfree the frame and free  *)
(* the entry.                                                              *)
ShmCloseUnmap(p, id) ==
    LET i == PageIndex(id) IN
    /\ i # 0 /\ shaddr[p][i] # NoAddr
    /\ pt' = [pt EXCEPT ![p][shaddr[p][i]] = NoFrame]
    /\ shaddr' = [shaddr EXCEPT ![p][i] = NoAddr]
    /\ IF pool[i].ref - 1 = 0
       THEN /\ freelist' = <<pool[i].frame>> \o freelist
            /\ pool' = [pool EXCEPT ![i] = [id |-> FREE_ID, ref |-> 0, frame |-> NoFrame]]
       ELSE /\ pool' = [pool EXCEPT ![i].ref = @ - 1]
            /\ UNCHANGED freelist
    /\ UNCHANGED <<pstate, sz, panicked>>

(* sys_open_sharedmem / sys_close_sharedmem (sysproc.c:180-209) pass the   *)
(* id through; the failure message is output only.                         *)
SysOpenSharedmem(p) ==
    \E id \in Ids : ShmOpenFail(p, id) \/ ShmOpenNew(p, id) \/ ShmOpenShared(p, id)

SysCloseSharedmem(p) ==
    \E id \in Ids : ShmCloseFail(p, id) \/ ShmCloseUnmap(p, id)
-----------------------------------------------------------------------------
(* fork() by p (proc.c:199-248 with allocproc): the first UNUSED slot gets *)
(* p's size and, through copyuvm, private copies of the pages below it;    *)
(* allocproc sets every shared_addresses entry to -1 (proc.c:128-131), so  *)
(* no shared page is inherited.                                            *)
Fork(p) ==
    /\ \E q \in Procs : pstate[q] = "UNUSED"
    /\ LET q == CHOOSE q \in Procs : pstate[q] = "UNUSED" /\ \A r \in 1..q-1 : pstate[r] # "UNUSED"
       IN  /\ pstate' = [pstate EXCEPT ![q] = "LIVE"]
           /\ sz' = [sz EXCEPT ![q] = sz[p]]
           /\ pt' = [pt EXCEPT ![q] = [pg \in Pages |-> IF pg < sz[p] THEN Priv ELSE NoFrame]]
           /\ shaddr' = [shaddr EXCEPT ![q] = [i \in PoolIdx |-> NoAddr]]
    /\ UNCHANGED <<pool, freelist, panicked>>

(* growproc(n) (proc.c:175-194) by one page.  Growing maps a private page  *)
(* at p->sz through allocuvm/mappages, a remap if a shared page is there.  *)
(* Shrinking frees the top page; deallocuvm returns the new size, and a    *)
(* new size of 0 is taken for failure: the page is gone, sz stays.         *)
Growproc(p) ==
    \/ /\ sz[p] < MaxSz
       /\ IF Remap(p, sz[p]) THEN Panic("remap")
          ELSE /\ pt' = [pt EXCEPT ![p][sz[p]] = Priv]
               /\ sz' = [sz EXCEPT ![p] = @ + 1]
               /\ UNCHANGED <<pstate, shaddr, pool, freelist, panicked>>
    \/ /\ sz[p] > 0
       /\ pt' = [pt EXCEPT ![p][sz[p] - 1] = NoFrame]
       /\ sz' = IF sz[p] - 1 = 0 THEN sz ELSE [sz EXCEPT ![p] = @ - 1]
       /\ UNCHANGED <<pstate, shaddr, pool, freelist, panicked>>

(* exit() by p (proc.c:254-298): ZOMBIE, nothing closed; initproc never   *)
(* exits.                                                                  *)
Exit(p) ==
    /\ p # 1
    /\ pstate' = [pstate EXCEPT ![p] = "ZOMBIE"]
    /\ UNCHANGED <<sz, pt, shaddr, pool, freelist, panicked>>

(* The parent's wait() reaps the ZOMBIE p (proc.c:320-333): freevm()       *)
(* kfree's every page of its page table, shared ones included.             *)
Reap(p) ==
    /\ pstate[p] = "ZOMBIE"
    /\ pstate' = [pstate EXCEPT ![p] = "UNUSED"]
    /\ freelist' = FreeVmFrames(p) \o freelist
    /\ pt' = [pt EXCEPT ![p] = [pg \in Pages |-> NoFrame]]
    /\ UNCHANGED <<sz, shaddr, pool, panicked>>

Next ==
    /\ panicked = NoPanic
    /\ \E p \in Procs :
         \/ pstate[p] = "LIVE" /\ (SysOpenSharedmem(p) \/ SysCloseSharedmem(p)
                                    \/ Fork(p) \/ Growproc(p) \/ Exit(p))
         \/ Reap(p)

Spec == Init /\ [][Next]_vars

(* How shm_test.c uses the calls: each process opens one id, closes it     *)
(* before it exits, and does not grow while it has it open.                *)
Unshared(p) == \A i \in PoolIdx : shaddr[p][i] = NoAddr

UsageNext ==
    /\ panicked = NoPanic
    /\ \E p \in Procs :
         \/ pstate[p] = "LIVE" /\ Unshared(p)
              /\ (SysOpenSharedmem(p) \/ Growproc(p) \/ Exit(p))
         \/ pstate[p] = "LIVE" /\ (SysCloseSharedmem(p) \/ Fork(p))
         \/ Reap(p)

UsageSpec == Init /\ [][UsageNext]_vars
-----------------------------------------------------------------------------
ShmTypeOK ==
    /\ pstate \in [Procs -> {"UNUSED", "LIVE", "ZOMBIE"}]
    /\ sz \in [Procs -> Pages]
    /\ pt \in [Procs -> [Pages -> Frames \cup {NoFrame, Priv}]]
    /\ shaddr \in [Procs -> [PoolIdx -> Pages \cup {NoAddr}]]
    /\ pool \in [PoolIdx -> [id : Ids \cup {FREE_ID}, ref : 0..NPROC,
                             frame : Frames \cup {NoFrame}]]
    /\ freelist \in Seq(Frames)
    /\ panicked \in {NoPanic, "remap", "kalloc"}

(* spec.md section 3: ref_count equals the number of processes that have  *)
(* the page mapped (a process with a page table and a record for it).      *)
(* shm_open, shm_close, fork's reset of the records and wait's freevm      *)
(* all have to keep the two in step.                                       *)
RefCountExact ==
    \A i \in PoolIdx :
        pool[i].ref = Cardinality({p \in Procs : Holds(p) /\ shaddr[p][i] # NoAddr})

(* Every frame is in exactly one place: once on the kalloc free list, or   *)
(* held by exactly one pool entry.  A frame freed twice (shm_close and     *)
(* freevm both), freed while held, or never freed breaks it.               *)
FrameOwnership ==
    \A f \in Frames :
        Cardinality({k \in DOMAIN freelist : freelist[k] = f})
          + Cardinality({i \in PoolIdx : pool[i].id # FREE_ID /\ pool[i].frame = f}) = 1

(* No process can reach a freed frame: every frame in a page table belongs *)
(* to a pool entry in use and is not on the free list.                     *)
NoUseAfterFree ==
    \A p \in Procs, pg \in Pages :
        pt[p][pg] \in Frames =>
            /\ \E i \in PoolIdx : pool[i].id # FREE_ID /\ pool[i].frame = pt[p][pg]
            /\ \A k \in DOMAIN freelist : freelist[k] # pt[p][pg]
====
