----------------------------- MODULE LifeCycle -----------------------------
(* The registry of utils/memorypool.c, through which pools of equal cells    *)
(* are shared, and its users: the node pool of all hash tables               *)
(* (utils/hashtable.c), the value pool of the machine (vm/vm.c), and pools   *)
(* and tables the program makes itself.  A pool is its number in the order   *)
(* of creation; what is allocated from it is MemoryPool's business.          *)
EXTENDS Integers, Sequences, FiniteSetsExt

CONSTANTS Linked,       \* ADRENOMP_USE_LINKED_LIST
          Word,         \* sizeof(size_t)
          ValueSize,    \* sizeof(AdrenoValue)
          NodeSize,     \* sizeof(AdrenoHashtableNode)
          HostSizes,    \* sizes the program asks pools for
          Hosts,        \* pools the program holds at once
          VM,           \* the table of a machine's functions
          Tables,       \* the tables of the program, VM among them
          MaxPools      \* bound: pools ever made

ASSUME LifeCycleAssumption ==
    /\ Linked \in BOOLEAN
    /\ Word \in Nat /\ Word % 2 = 0
    /\ HostSizes \cup {ValueSize, NodeSize} \subseteq Nat
    /\ \A s \in HostSizes \cup {ValueSize, NodeSize} : s > Word
    /\ VM \in Tables
    /\ IsFiniteSet(Tables) /\ IsFiniteSet(Hosts)
    /\ MaxPools \in Nat

VARIABLES registry,     \* the pools made, MPools and MPoolsCount
          nodePool,     \* AHT_NodePool
          useCount,     \* HT_UseCount
          valuePool,    \* AdrenoVM_ValuePool, never reset
          valueHeld,    \* StaticInit was called and StaticDestroy was not
          hosts,        \* the pools the program holds, with their sizes
          tables,       \* what each table is: none, empty or filled
          status,       \* RUN, or how the program went wrong
          orderly       \* history: the program kept the order Orderly names

vars == <<registry, nodePool, useCount, valuePool, valueHeld, hosts, tables,
          status, orderly>>

Null == 0       \* a NULL AdrenoMemoryPool pointer

NoHost == [pool |-> Null, size |-> 0]
-----------------------------------------------------------------------------
\* The registry: AdrenoMemoryPool_New and _Destroy.

Header == IF Linked THEN Word ELSE 0

Even(n) == n + (n % 2)

\* The size New looks for, and the ObjectSize Initialize gives the pool it
\* makes: New takes a word off whether or not it had put one on.
SoughtUnrounded(size) == size + Header  \* fault: the size asked is not rounded

Sought(size) == Even(size) + Header

ObjectSize(size) == Even(Sought(size) - Word) + Header

\* Only the first MPoolsCount entries are looked at.  Every caller passes 1
\* for the expansion factor.
Matches(r, size) ==
    {i \in 1..r.count : /\ r.entries[i] # Null
                        /\ r.pools[r.entries[i]].size = Sought(size)}

\* Fault: the pool is shared without a lock of its own.
SharedUnlocked(r, size) ==
    [registry |-> r, id |-> r.entries[Min(Matches(r, size))]]

\* New sharing a pool found.
Shared(r, size) ==
    LET id == r.entries[Min(Matches(r, size))]
    IN  [registry |-> [r EXCEPT !.pools[id].lock = @ + 1], id |-> id]

\* New making one: the entry is always the last of MPoolsCount.
Created(r, size) ==
    LET n  == r.count + 1
        id == Len(r.pools) + 1
        pool == [size |-> ObjectSize(size), index |-> n, lock |-> 1,
                 alive |-> TRUE]
    IN  [registry |->
            [pools   |-> Append(r.pools, pool),
             entries |-> [i \in 1..n |-> IF i = n THEN id ELSE r.entries[i]],
             count   |-> n],
         id |-> id]

New(r, size) == IF Matches(r, size) # {} THEN Shared(r, size)
                                         ELSE Created(r, size)

\* The last Destroy of a pool clears its entry, which another pool may have
\* taken, and makes MPoolsCount one less, though the entry need not be the
\* last; when the count is 0 MPools is freed.
Destroyed(r, id) ==
    LET pool  == r.pools[id]
        last  == pool.lock = 1
        count == IF last THEN r.count - 1 ELSE r.count
    IN  [pools   |-> [r.pools EXCEPT ![id].lock = @ - 1,
                                         ![id].alive = ~last],
         entries |-> IF ~last THEN r.entries
                     ELSE IF count = 0 THEN << >>
                     ELSE [i \in DOMAIN r.entries |->
                              IF i = pool.index THEN Null ELSE r.entries[i]],
         count   |-> count]

\* MPools[mp->Index] is written although MPools has been made shorter.
Outside(r, id) == /\ r.pools[id].lock = 1
                  /\ r.pools[id].index > Len(r.entries)

Live(r) == {id \in DOMAIN r.pools : r.pools[id].alive}

\* The pool is the youngest of those left, or others hold it too.
Youngest(r, id) ==
    \/ r.pools[id].lock > 1
    \/ \A other \in Live(r) : other <= id
-----------------------------------------------------------------------------
Pools == DOMAIN registry.pools

PoolRecord == [size : Nat, index : Nat, lock : Nat, alive : BOOLEAN]

Registries == [pools : Seq(PoolRecord), entries : Seq(Nat), count : Nat]

TypeOK ==
    /\ registry \in Registries
    /\ {nodePool, valuePool} \subseteq Pools \cup {Null}
    /\ useCount \in 0..Cardinality(Tables)
    /\ valueHeld \in BOOLEAN
    /\ hosts \in [Hosts -> [pool : Pools \cup {Null}, size : HostSizes \cup {0}]]
    /\ tables \in [Tables -> {"none", "empty", "filled"}]
    /\ status \in {"RUN", "CRASH", "WILD"}
    /\ orderly \in BOOLEAN

Init ==
    /\ registry = [pools |-> << >>, entries |-> << >>, count |-> 0]
    /\ nodePool = Null /\ useCount = 0
    /\ valuePool = Null /\ valueHeld = FALSE
    /\ hosts = [h \in Hosts |-> NoHost]
    /\ tables = [t \in Tables |-> "none"]
    /\ status = "RUN" /\ orderly = TRUE

Room == Len(registry.pools) < MaxPools

\* A pool is given back: the registry and status after it.
Release(id) ==
    /\ registry' = Destroyed(registry, id)
    /\ status' = IF Outside(registry, id) THEN "WILD" ELSE "RUN"

\* AdrenoHashtable_Initialize's use of the node pool.
NodePoolFor(r) == IF nodePool = Null THEN New(r, NodeSize)
                                     ELSE [registry |-> r, id |-> nodePool]
-----------------------------------------------------------------------------
HostNew(h, size) ==
    LET made == New(registry, size)
    IN  /\ status = "RUN" /\ Room
        /\ hosts[h].pool = Null
        /\ registry' = made.registry
        /\ hosts' = [hosts EXCEPT ![h] = [pool |-> made.id, size |-> size]]
        /\ UNCHANGED <<nodePool, useCount, valuePool, valueHeld, tables,
                       status, orderly>>

HostDestroy(h) ==
    /\ status = "RUN"
    /\ hosts[h].pool # Null
    /\ Release(hosts[h].pool)
    /\ orderly' = (orderly /\ Youngest(registry, hosts[h].pool))
    /\ hosts' = [hosts EXCEPT ![h] = NoHost]
    /\ UNCHANGED <<nodePool, useCount, valuePool, valueHeld, tables>>

\* AdrenoVM_StaticInit; the program calls it once before StaticDestroy.
StaticInit ==
    LET made == New(registry, ValueSize)
    IN  /\ status = "RUN" /\ Room
        /\ ~valueHeld
        /\ registry' = made.registry
        /\ valuePool' = made.id
        /\ valueHeld' = TRUE
        /\ UNCHANGED <<nodePool, useCount, hosts, tables, status, orderly>>

\* The pointer is not reset.
StaticDestroy ==
    /\ status = "RUN"
    /\ valueHeld
    /\ Release(valuePool)
    /\ orderly' = (orderly /\ tables[VM] = "none"
                           /\ Youngest(registry, valuePool))
    /\ valueHeld' = FALSE
    /\ UNCHANGED <<nodePool, useCount, valuePool, hosts, tables>>

\* AdrenoHashtable_Initialize of a table that is not a machine's.
TableInitialize(t) ==
    LET made == NodePoolFor(registry)
    IN  /\ status = "RUN" /\ Room
        /\ t # VM
        /\ tables[t] = "none"
        /\ useCount' = useCount + 1
        /\ registry' = made.registry
        /\ nodePool' = made.id
        /\ tables' = [tables EXCEPT ![t] = "empty"]
        /\ UNCHANGED <<valuePool, valueHeld, hosts, status, orderly>>

\* AdrenoVM_Initialize: the value pool is made only where the pointer is NULL,
\* so after a StaticDestroy the machine goes on with a pool that is gone.
VMInitialize ==
    LET nodes  == NodePoolFor(registry)
        values == New(nodes.registry, ValueSize)
    IN  /\ status = "RUN" /\ Len(registry.pools) + 1 < MaxPools
        /\ tables[VM] = "none"
        /\ useCount' = useCount + 1
        /\ nodePool' = nodes.id
        /\ tables' = [tables EXCEPT ![VM] = "empty"]
        /\ IF valuePool = Null
           THEN /\ registry' = values.registry
                /\ valuePool' = values.id
                /\ valueHeld' = TRUE
           ELSE /\ registry' = nodes.registry
                /\ UNCHANGED <<valuePool, valueHeld>>
        /\ orderly' = (orderly /\ (valuePool = Null \/ valueHeld))
        /\ UNCHANGED <<hosts, status>>

\* AdrenoHashtable_Set of a first entry, AdrenoVM_LoadStdlib's included; the
\* node is taken from the pool AHT_NodePool names.
Fill(t) ==
    /\ status = "RUN"
    /\ tables[t] = "empty"
    /\ tables' = [tables EXCEPT ![t] = "filled"]
    /\ status' = IF registry.pools[nodePool].alive THEN "RUN" ELSE "WILD"
    /\ UNCHANGED <<registry, nodePool, useCount, valuePool, valueHeld, hosts,
                   orderly>>

\* A machine takes a value from the pool, which may be gone.
TakeValue ==
    /\ status = "RUN"
    /\ tables[VM] # "none"
    /\ ~registry.pools[valuePool].alive
    /\ status' = "WILD"
    /\ UNCHANGED <<registry, nodePool, useCount, valuePool, valueHeld, hosts,
                   tables, orderly>>

\* AdrenoHashtable_Destroy: the last one in use gives the node pool back.
TableDestroyed(t) ==
    /\ tables' = [tables EXCEPT ![t] = "none"]
    /\ useCount' = useCount - 1
    /\ IF useCount = 1
       THEN /\ Release(nodePool)
            /\ nodePool' = Null
            /\ orderly' = (orderly /\ Youngest(registry, nodePool))
       ELSE UNCHANGED <<registry, status, orderly, nodePool>>

TableDestroy(t) ==
    /\ status = "RUN"
    /\ t # VM
    /\ tables[t] # "none"
    /\ TableDestroyed(t)
    /\ UNCHANGED <<valuePool, valueHeld, hosts>>

\* AdrenoVM_Free walks the table first.
VMFree ==
    /\ status = "RUN"
    /\ tables[VM] = "filled"
    /\ TableDestroyed(VM)
    /\ UNCHANGED <<valuePool, valueHeld, hosts>>

\* The walk of an empty table starts at the left of a NULL root.
VMFreeEmpty ==
    /\ status = "RUN"
    /\ tables[VM] = "empty"
    /\ status' = "CRASH"
    /\ UNCHANGED <<registry, nodePool, useCount, valuePool, valueHeld, hosts,
                   tables, orderly>>

Next ==
    \/ \E h \in Hosts, size \in HostSizes : HostNew(h, size)
    \/ \E h \in Hosts : HostDestroy(h)
    \/ StaticInit \/ StaticDestroy
    \/ \E t \in Tables : TableInitialize(t) \/ Fill(t) \/ TableDestroy(t)
    \/ VMInitialize \/ TakeValue \/ VMFree \/ VMFreeEmpty

Spec == Init /\ [][Next]_vars
-----------------------------------------------------------------------------
Users(id) == {h \in Hosts : hosts[h].pool = id}

Holders(id) ==
    Cardinality(Users(id)) + (IF valueHeld /\ valuePool = id THEN 1 ELSE 0)
                           + (IF nodePool = id THEN 1 ELSE 0)

\* The cells of the pool have room for objects of the size.
Fits(id, size) == registry.pools[id].size >= size + Header

\* Whatever order pools are made, shared and given back in, and although
\* entries of the registry are overwritten and lost: a pool is alive as long
\* as someone holds it and no longer, its lock counts the holders, its cells
\* fit what each of them asked for, and the hash tables hold one exactly as
\* long as there is a table (memorypool.c 92-124, 238-270, hashtable.c 53-84).
HoldersServed ==
    /\ \A id \in Pools : /\ registry.pools[id].alive <=> Holders(id) > 0
                         /\ registry.pools[id].lock = Holders(id)
    /\ \A h \in Hosts : hosts[h].pool # Null
                           => Fits(hosts[h].pool, hosts[h].size)
    /\ nodePool # Null => Fits(nodePool, NodeSize)
    /\ valueHeld => Fits(valuePool, ValueSize)
    /\ nodePool # Null <=> \E t \in Tables : tables[t] # "none"

\* The registry holds exactly the pools alive, each at its own index, no two
\* of a size.
Exact(r) ==
    /\ \A i \in DOMAIN r.entries : r.entries[i] = Null <=> i > r.count
    /\ \A id \in Live(r) : /\ r.pools[id].index \in 1..r.count
                           /\ r.entries[r.pools[id].index] = id
    /\ \A i, j \in 1..r.count :
           r.pools[r.entries[i]].size = r.pools[r.entries[j]].size => i = j

\* A program that gives pools back in the reverse order of making them, calls
\* StaticDestroy when no machine is left and StaticInit again before it makes
\* the next keeps the registry exact, so that pools of a size are shared, and
\* no write lands outside (memorypool.c:259, vm.c:30).
OrderlyProgramsShare == orderly => status # "WILD" /\ Exact(registry)
-----------------------------------------------------------------------------
\* What makes the two inductive.  Whatever the order: an entry that is not
\* NULL is a pool alive, at its own index, so that what New shares is there;
\* MPoolsCount is the number of pools alive, so that it never passes zero.
EntriesLive(r) ==
    /\ \A i \in DOMAIN r.entries :
           r.entries[i] # Null => /\ r.entries[i] \in Live(r)
                                  /\ r.pools[r.entries[i]].index = i
    /\ r.count = Cardinality(Live(r))
    /\ r.count <= Len(r.entries)
    /\ \A id \in DOMAIN r.pools : r.pools[id].alive <=> r.pools[id].lock > 0

HoldersInv ==
    /\ TypeOK
    /\ EntriesLive(registry)
    /\ HoldersServed
    /\ useCount = Cardinality({t \in Tables : tables[t] # "none"})
    /\ valueHeld => valuePool # Null
    /\ tables[VM] # "none" => valuePool # Null

\* Pools alive have their indices in the order they were made.
InOrder(r) ==
    \A id, other \in Live(r) :
        id < other => r.pools[id].index < r.pools[other].index

OrderInv ==
    /\ HoldersInv
    /\ OrderlyProgramsShare
    /\ orderly => InOrder(registry) /\ (tables[VM] # "none" => valueHeld)
=============================================================================
