---------------------------- MODULE Manager_proofs ----------------------------
(***************************************************************************)
(* Theorems about Manager, for every set of client identifiers and         *)
(* objects, every range of user IDs and every width of a user ID.          *)
(***************************************************************************)
EXTENDS Manager, TLAPS

\* Every value the scan of Allocate visits is a user ID (uint16 arithmetic).
LEMMA ScanType ==
  ASSUME NEW k \in Nat
  PROVE  (Start + k) % Width \in UserIDs
BY RangeAssumption DEF UserIDs

\* A range that ends below the largest user ID is scanned without a wrap.
LEMMA ScanInRange ==
  ASSUME NEW u, ScanFinds(u), End < Width - 1
  PROVE  u \in Start .. End
<1>1. PICK k \in 0 .. ScanLength - 1 : u = (Start + k) % Width
  BY DEF ScanFinds
<1>2. ScanLength = End + 1 - Start /\ Start \in Nat /\ End \in Nat
  BY RangeAssumption DEF ScanLength
<1>3. k \in Nat /\ Start + k \in Start .. End  BY <1>1, <1>2
<1>4. Start + k \in Nat /\ Start + k < Width /\ Width \in Nat
  BY <1>2, <1>3, RangeAssumption
<1>5. (Start + k) % Width = Start + k  BY <1>4
<1>. QED  BY <1>1, <1>3, <1>5

-----------------------------------------------------------------------------
(***************************************************************************)
(* Type correctness.                                                       *)
(***************************************************************************)

LEMMA InitType == Init => TypeOK
BY RangeAssumption DEF Init, TypeOK, UserIDs, RmLabels, OwnLabels, Links

LEMMA NextType ==
  ASSUME TypeOK, [Next]_vars
  PROVE  TypeOK'
<1>. USE DEF TypeOK, RmLabels, OwnLabels, Links
<1>1. ASSUME NEW id \in Ids, NEW u \in UserIDs, AddClient(id, u)  PROVE TypeOK'
  BY <1>1 DEF AddClient
<1>2. ASSUME NEW id \in Ids, CreateClient(id)  PROVE TypeOK'
  BY <1>1, <1>2 DEF CreateClient
<1>3. ASSUME NEW id \in Ids, NEW u \in UserIDs, CreateClientWithUserID(id, u)
      PROVE  TypeOK'
  BY <1>1, <1>3 DEF CreateClientWithUserID
<1>4. ASSUME NEW id \in Ids, RemoveClient(id)  PROVE TypeOK'
  BY <1>4 DEF RemoveClient
<1>5. CASE RemoveAll  BY <1>5 DEF RemoveAll
<1>6. ASSUME NEW o \in Objs, RemovalStep(o)  PROVE TypeOK'
  BY <1>6 DEF RemovalStep, RemoveClose, RemoveDisconnect, Disconnect,
              ReleaseUserID
<1>7. ASSUME NEW o \in Objs, Connect(o) \/ ConnectLock(o) \/ ConnectDial(o)
      PROVE  TypeOK'
  BY <1>7 DEF Connect, ConnectLock, ConnectDial
<1>8. ASSUME NEW o \in Objs, Close(o) \/ CloseDisconnect(o) \/ ServerForgets(o)
      PROVE  TypeOK'
  BY <1>8 DEF Close, CloseDisconnect, Disconnect, ServerForgets
<1>9. CASE UNCHANGED vars  BY <1>9 DEF vars
<1>. QED  BY <1>2, <1>3, <1>4, <1>5, <1>6, <1>7, <1>8, <1>9 DEF Next

-----------------------------------------------------------------------------
(***************************************************************************)
(* The map, the removals and the pool.  Each of the three properties is    *)
(* needed for another: a removal takes a client out of the set of live     *)
(* ones and its ID out of the pool, which is exact only because no other   *)
(* live client has that ID, and IDs are unique only because the pool has   *)
(* every one of them; the map names no client whose removal has begun.     *)
(***************************************************************************)
PoolInv == TypeOK /\ ManagedOnce /\ PoolIsExact /\ UniqueUserIDs

\* Steps that leave the map, the pool and the set of live clients alone.
Aside ==
  /\ UNCHANGED <<clients, allocated, user>>
  /\ \A o \in Objs : /\ Live(o)' <=> Live(o)
                     /\ rm'[o] = "managed" <=> rm[o] = "managed"

LEMMA AsideKeeps ==
  ASSUME PoolInv, Aside
  PROVE  ManagedOnce' /\ PoolIsExact' /\ UniqueUserIDs'
<1>1. ManagedOnce'  BY DEF PoolInv, ManagedOnce, Aside
<1>2. {p \in Objs : Live(p)}' = {p \in Objs : Live(p)}  BY DEF Aside
<1>3. PoolIsExact'  BY <1>2 DEF PoolInv, PoolIsExact, Aside
<1>4. UniqueUserIDs'  BY DEF PoolInv, UniqueUserIDs, Aside
<1>. QED  BY <1>1, <1>3, <1>4

\* Both ways of creating a client: the ID was not in the pool, so no live
\* client has it.
LEMMA AddKeeps ==
  ASSUME PoolInv, NEW id \in Ids, NEW u \in UserIDs \ allocated,
         AddClient(id, u)
  PROVE  ManagedOnce' /\ PoolIsExact' /\ UniqueUserIDs'
<1>1. PICK o \in Objs :
        /\ rm[o] = "fresh"
        /\ rm' = [rm EXCEPT ![o] = "managed"]
        /\ user' = [user EXCEPT ![o] = u]
        /\ clients' = [clients EXCEPT ![id] = o]
  BY DEF AddClient
<1>2. clients[id] = Nil /\ allocated' = allocated \cup {u}  BY DEF AddClient
<1>3. \A p \in Objs : /\ p # o => rm'[p] = rm[p] /\ user'[p] = user[p]
                      /\ p = o => rm'[p] = "managed" /\ user'[p] = u
  BY <1>1 DEF PoolInv, TypeOK
<1>4. \A i \in Ids : /\ i # id => clients'[i] = clients[i]
                     /\ i = id => clients'[i] = o
  BY <1>1 DEF PoolInv, TypeOK
<1>5. \A i \in Ids : clients[i] # o
  BY <1>1 DEF PoolInv, ManagedOnce
<1>6. ManagedOnce'
  <2>1. \A p \in Objs : rm'[p] = "managed" <=> \E i \in Ids : clients'[i] = p
    BY <1>2, <1>3, <1>4, <1>5, RangeAssumption DEF PoolInv, ManagedOnce
  <2>2. \A i, j \in Ids : clients'[i] # Nil /\ clients'[i] = clients'[j] => i = j
    BY <1>4, <1>5 DEF PoolInv, ManagedOnce
  <2>. QED  BY <2>1, <2>2 DEF ManagedOnce
<1>7. \A p \in Objs : Live(p)' <=> Live(p) \/ p = o
  BY <1>1, <1>3 DEF Live
<1>8. ~Live(o)  BY <1>1 DEF Live
<1>9. \A p \in Objs : Live(p) => user[p] \in allocated
  BY DEF PoolInv, PoolIsExact
<1>10. PoolIsExact'
  <2>1. {user'[p] : p \in {q \in Objs : Live(q)'}}
          = {user[p] : p \in {q \in Objs : Live(q)}} \cup {u}
    BY <1>3, <1>7, <1>8
  <2>. QED  BY <1>2, <2>1 DEF PoolInv, PoolIsExact
<1>11. UniqueUserIDs'
  BY <1>3, <1>7, <1>9 DEF PoolInv, UniqueUserIDs
<1>. QED  BY <1>6, <1>10, <1>11

\* RemoveClient and RemoveAll: the removed clients stay live until their user
\* ID is back.
LEMMA RemoveKeeps ==
  ASSUME PoolInv, UNCHANGED <<allocated, user>>,
         NEW R \in SUBSET Ids,
         clients' = [i \in Ids |-> IF i \in R THEN Nil ELSE clients[i]],
         rm' = [o \in Objs |-> IF \E i \in R : clients[i] = o THEN "close"
                               ELSE rm[o]]
  PROVE  ManagedOnce' /\ PoolIsExact' /\ UniqueUserIDs'
<1>0. \A o \in Objs : (\E i \in R : clients[i] = o) => rm[o] = "managed"
  BY DEF PoolInv, ManagedOnce
<1>1. \A o \in Objs : Live(o)' <=> Live(o)  BY <1>0 DEF Live
<1>2. ManagedOnce'
  <2>1. \A o \in Objs : rm'[o] = "managed" <=>
          rm[o] = "managed" /\ ~\E i \in R : clients[i] = o
    OBVIOUS
  <2>2. \A o \in Objs : (\E i \in Ids : clients'[i] = o) <=>
          \E i \in Ids \ R : clients[i] = o
    BY RangeAssumption
  <2>3. \A o \in Objs, i, j \in Ids : clients[i] = o /\ clients[j] = o => i = j
    BY RangeAssumption DEF PoolInv, ManagedOnce
  <2>4. \A o \in Objs : rm[o] = "managed" <=> \E i \in Ids : clients[i] = o
    BY DEF PoolInv, ManagedOnce
  <2>5. \A o \in Objs : rm'[o] = "managed" <=> \E i \in Ids : clients'[i] = o
    BY <2>1, <2>2, <2>3, <2>4
  <2>6. \A i, j \in Ids : clients'[i] # Nil /\ clients'[i] = clients'[j] => i = j
    BY DEF PoolInv, ManagedOnce
  <2>. QED  BY <2>5, <2>6 DEF ManagedOnce
<1>3. {p \in Objs : Live(p)}' = {p \in Objs : Live(p)}  BY <1>1
<1>4. PoolIsExact'  BY <1>3 DEF PoolInv, PoolIsExact
<1>5. UniqueUserIDs'  BY <1>1 DEF PoolInv, UniqueUserIDs
<1>. QED  BY <1>2, <1>4, <1>5

\* userIDPool.Release: the client leaves the live ones with its ID, which is
\* nobody else's.
LEMMA ReleaseKeeps ==
  ASSUME PoolInv, NEW o \in Objs, ReleaseUserID(o)
  PROVE  ManagedOnce' /\ PoolIsExact' /\ UniqueUserIDs'
<1>1. /\ rm[o] = "release" /\ rm' = [rm EXCEPT ![o] = "done"]
      /\ allocated' = allocated \ {user[o]}
      /\ UNCHANGED <<clients, user>>
  BY DEF ReleaseUserID
<1>2. \A p \in Objs : /\ p # o => rm'[p] = rm[p]
                      /\ p = o => rm'[p] = "done"
  BY <1>1 DEF PoolInv, TypeOK
<1>3. ManagedOnce'  BY <1>1, <1>2 DEF PoolInv, ManagedOnce
<1>4. Live(o) /\ \A p \in Objs : Live(p)' <=> Live(p) /\ p # o
  BY <1>1, <1>2 DEF Live
<1>5. PoolIsExact'
  <2>1. {user[p] : p \in {q \in Objs : Live(q)'}}
          = {user[p] : p \in {q \in Objs : Live(q)}} \ {user[o]}
    BY <1>4 DEF PoolInv, UniqueUserIDs
  <2>. QED  BY <1>1, <2>1 DEF PoolInv, PoolIsExact
<1>6. UniqueUserIDs'  BY <1>1, <1>4 DEF PoolInv, UniqueUserIDs
<1>. QED  BY <1>3, <1>5, <1>6

LEMMA PoolStep ==
  ASSUME PoolInv, [Next]_vars
  PROVE  ManagedOnce' /\ PoolIsExact' /\ UniqueUserIDs'
<1>. DEFINE G == ManagedOnce' /\ PoolIsExact' /\ UniqueUserIDs'
<1>0. TypeOK  BY DEF PoolInv
<1>1. ASSUME NEW id \in Ids, CreateClient(id)  PROVE G
  BY <1>1, AddKeeps DEF CreateClient, ScanFinds
<1>2. ASSUME NEW id \in Ids, NEW u \in UserIDs, CreateClientWithUserID(id, u)
      PROVE  G
  BY <1>2, AddKeeps DEF CreateClientWithUserID
<1>3. ASSUME NEW id \in Ids, RemoveClient(id)  PROVE G
  <2>1. clients' = [i \in Ids |-> IF i \in {id} THEN Nil ELSE clients[i]]
    BY <1>0, <1>3 DEF RemoveClient, TypeOK
  <2>2. rm' = [o \in Objs |-> IF \E i \in {id} : clients[i] = o THEN "close"
                              ELSE rm[o]]
    BY <1>0, <1>3 DEF RemoveClient, TypeOK
  <2>3. UNCHANGED <<allocated, user>>  BY <1>3 DEF RemoveClient
  <2>4. {id} \in SUBSET Ids  OBVIOUS
  <2>5. \A R \in SUBSET Ids :
          /\ clients' = [i \in Ids |-> IF i \in R THEN Nil ELSE clients[i]]
          /\ rm' = [o \in Objs |-> IF \E i \in R : clients[i] = o THEN "close"
                                   ELSE rm[o]]
          => G
    BY <2>3, RemoveKeeps
  <2>. QED  BY ONLY <2>1, <2>2, <2>4, <2>5
<1>4. CASE RemoveAll
  <2>1. clients' = [i \in Ids |-> IF i \in Ids THEN Nil ELSE clients[i]]
    BY <1>4 DEF RemoveAll
  <2>2. rm' = [o \in Objs |-> IF \E i \in Ids : clients[i] = o THEN "close"
                              ELSE rm[o]]
    BY <1>4 DEF RemoveAll, PoolInv, ManagedOnce
  <2>3. UNCHANGED <<allocated, user>>  BY <1>4 DEF RemoveAll
  <2>. QED  BY <2>1, <2>2, <2>3, RemoveKeeps
<1>5. ASSUME NEW o \in Objs, RemovalStep(o)  PROVE G
  <2>1. CASE RemoveClose(o) \/ RemoveDisconnect(o)
    <3>1. Aside
      BY <1>0, <2>1 DEF RemoveClose, RemoveDisconnect, TypeOK, Aside, Live
    <3>. QED  BY <3>1, AsideKeeps
  <2>. QED  BY <1>5, <2>1, ReleaseKeeps DEF RemovalStep
<1>6. ASSUME NEW o \in Objs,
             \/ Connect(o) \/ ConnectLock(o) \/ ConnectDial(o)
             \/ Close(o) \/ CloseDisconnect(o) \/ ServerForgets(o)
      PROVE  G
  <2>1. Aside
    BY <1>6 DEF Connect, ConnectLock, ConnectDial, Close, CloseDisconnect,
                ServerForgets, Aside, Live
  <2>. QED  BY <2>1, AsideKeeps
<1>7. CASE UNCHANGED vars
  <2>1. Aside  BY <1>7 DEF vars, Aside, Live
  <2>. QED  BY <2>1, AsideKeeps
<1>. QED  BY <1>1, <1>2, <1>3, <1>4, <1>5, <1>6, <1>7 DEF Next

LEMMA PoolInvInductive == Spec => []PoolInv
<1>1. Init => PoolInv
  <2>. SUFFICES ASSUME Init  PROVE PoolInv
    OBVIOUS
  <2>1. \A o \in Objs : ~Live(o)  BY DEF Init, Live
  <2>2. UniqueUserIDs  BY <2>1 DEF UniqueUserIDs
  <2>3. PoolIsExact  BY <2>1 DEF Init, PoolIsExact
  <2>4. ManagedOnce  BY RangeAssumption DEF Init, ManagedOnce
  <2>. QED  BY <2>2, <2>3, <2>4, InitType DEF PoolInv
<1>2. PoolInv /\ [Next]_vars => PoolInv'
  BY NextType, PoolStep DEF PoolInv
<1>. QED  BY <1>1, <1>2, PTL DEF Spec

-----------------------------------------------------------------------------
\* No user ID is in use twice, from CreateClient until the ID is back in the
\* pool, however removals, Close and Connect interleave (manager.go:105-213).
THEOREM UserIDsAreUnique == Spec => []UniqueUserIDs
<1>1. PoolInv => UniqueUserIDs  BY DEF PoolInv
<1>. QED  BY <1>1, PoolInvInductive, PTL

\* No user ID leaks and none is free while in use (manager.go:333-337).
THEOREM PoolExact == Spec => []PoolIsExact
<1>1. PoolInv => PoolIsExact  BY DEF PoolInv
<1>. QED  BY <1>1, PoolInvInductive, PTL

\* RemoveClient and RemoveAll never both remove one client
\* (manager.go:193-240).
THEOREM RemovalsDisjoint == Spec => []ManagedOnce
<1>1. PoolInv => ManagedOnce  BY DEF PoolInv
<1>. QED  BY <1>1, PoolInvInductive, PTL

\* Both ways of allocating stay within the configured range, unless it ends at
\* the largest uint16 (manager.go:278-331).
THEOREM RangeRespected == Spec => []AllocatesInRange
<1>1. Init => AllocatesInRange  BY DEF Init, AllocatesInRange
<1>2. AllocatesInRange /\ [Next]_vars => AllocatesInRange'
  <2>. SUFFICES ASSUME End < Width - 1, allocated \subseteq Start .. End,
                       [Next]_vars
                PROVE  allocated' \subseteq Start .. End
    BY DEF AllocatesInRange
  <2>1. ASSUME NEW id \in Ids, CreateClient(id)
        PROVE  allocated' \subseteq Start .. End
    BY <2>1, ScanInRange DEF CreateClient, AddClient
  <2>2. ASSUME NEW id \in Ids, NEW u \in UserIDs, CreateClientWithUserID(id, u)
        PROVE  allocated' \subseteq Start .. End
    BY <2>2 DEF CreateClientWithUserID, AddClient
  <2>3. ASSUME NEW o \in Objs, ReleaseUserID(o)
        PROVE  allocated' \subseteq Start .. End
    BY <2>3 DEF ReleaseUserID
  <2>4. CASE UNCHANGED allocated  BY <2>4
  <2>5. CASE RemoveAll \/ UNCHANGED vars  BY <2>4, <2>5 DEF RemoveAll, vars
  <2>6. ASSUME NEW id \in Ids, RemoveClient(id)  PROVE UNCHANGED allocated
    BY <2>6 DEF RemoveClient
  <2>7. ASSUME NEW o \in Objs,
               \/ RemoveClose(o) \/ RemoveDisconnect(o)
               \/ Connect(o) \/ ConnectLock(o) \/ ConnectDial(o)
               \/ Close(o) \/ CloseDisconnect(o) \/ ServerForgets(o)
        PROVE  UNCHANGED allocated
    BY <2>7 DEF RemoveClose, RemoveDisconnect, Connect, ConnectLock,
                ConnectDial, Close, CloseDisconnect, ServerForgets
  <2>. QED  BY <2>1, <2>2, <2>3, <2>4, <2>5, <2>6, <2>7 DEF Next, RemovalStep
<1>. QED  BY <1>1, <1>2, PTL DEF Spec

===============================================================================
