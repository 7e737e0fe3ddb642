------------------------- MODULE AuthorizationProofs -------------------------
(***************************************************************************)
(* A client of the site-authorization example ends with the answer to its  *)
(* own request, and no request that the servers' group has left behind is  *)
(* forgotten: for any number of clients, servers, partitions and faults.   *)
(***************************************************************************)
EXTENDS Authorization, SequenceTheorems, TLAPS

-----------------------------------------------------------------------------
(* The inductive invariant *)

Topics == {AuthChannelAddress(e) : e \in Envs}

(* What anybody publishes: a request names the client that made it, and an *)
(* answer the client whose request it was made of, unless it is a glitch.  *)
IsSound(r) ==
  /\ r.type = "AuthRequest" => r.of \in Clients /\ r.id = world.id[r.of]
  /\ r.type = "AuthResponse" =>
       (r.of = Nil /\ world.glitch) \/ (r.of \in Clients /\ r.id = world.id[r.of])

SoundRecords ==
  {r \in [type : {"AuthRequest", "AuthResponse", "foo", "garbage"},
          id : Ids \cup {Nil}, of : Clients \cup {Nil}] : IsSound(r)}

MemberStates ==
  [in : BOOLEAN, pos : [Partitions -> Nat], head : [Partitions -> Nat],
   batch : Seq(SoundRecords), cancelled : BOOLEAN]

LogInv     == log \in [Topics -> [Partitions -> Seq(SoundRecords)]]
GroupsInv  == /\ committed \in [Groups -> [Partitions -> Nat]]
              /\ owner \in [Groups -> [Partitions -> Members \cup {Nil}]]
MembersInv == member \in [Members -> MemberStates]
ClientPcs ==
  {"idle", "publishing", "published", "awaiting", "answered", "unsealed", "done", "failed"}
ClientsInv == client \in [Clients -> [pc : ClientPcs, got : SoundRecords \cup {Nil}]]
ServersInv ==
  server \in [Servers -> [pc : {"idle", "serving", "dead", "gone"}, todo : Seq(SoundRecords)]]

TypeInv == /\ world \in Worlds /\ faults \in Seq(world.faults)
           /\ LogInv /\ GroupsInv /\ MembersInv /\ ClientsInv /\ ServersInv

(* Who runs was given an environment. *)
ClientEnvInv == \A c \in Clients : client[c].pc # "idle" => world.env[c] \in Envs
ServerEnvInv == \A s \in Servers : server[s].pc # "idle" => world.serverEnv[s] \in Envs
EnvInv == ClientEnvInv /\ ServerEnvInv

AnswerInv ==
  \A c \in Clients : client[c].pc \in {"answered", "done"} =>
    /\ client[c].got \in SoundRecords
    /\ client[c].got.type = "AuthResponse" /\ client[c].got.id = world.id[c]

(* Partitions belong to members of their group, who are running. *)
OwnerInv ==
  /\ \A g \in Groups, p \in Partitions :
       owner[g][p] # Nil => member[owner[g][p]].in /\ GroupOf(owner[g][p]) = g
  /\ \A s \in Servers : member[Serving(s)].in => server[s].pc # "idle"

Read(e, p)  == log[AuthChannelAddress(e)][p]
Settled(r)  == r.type = "AuthRequest" => Answered(r.of) \/ "publish" \in ToSet(faults)
SettledTo(e, p, n) == n <= Len(Read(e, p)) /\ \A i \in 1 .. n : Settled(Read(e, p)[i])

CommittedInv ==
  \A e \in Envs, p \in Partitions : SettledTo(e, p, committed[<<"server", e>>][p])

Owns(s, p) == server[s].pc # "idle" /\ owner[GroupOf(Serving(s))][p] = Serving(s)

(* What a server may commit is settled ... *)
HeadInv ==
  \A s \in Servers, p \in Partitions :
    Owns(s, p) => SettledTo(world.serverEnv[s], p, member[Serving(s)].head[p])

(* ... and of what it has read, whatever is not is still in its hands.     *)
InHand(s, r) ==
  \/ r \in ToSet(member[Serving(s)].batch)
  \/ AuthResponseMsg(r.id, r.of) \in ToSet(server[s].todo)

ReadAt(s, p, n) ==
  LET e == world.serverEnv[s]
  IN /\ n <= Len(Read(e, p))
     /\ server[s].pc = "serving" =>
          \A i \in 1 .. n : Settled(Read(e, p)[i]) \/ InHand(s, Read(e, p)[i])

ReadInv ==
  \A s \in Servers, p \in Partitions : Owns(s, p) => ReadAt(s, p, member[Serving(s)].pos[p])

ServingInv == CommittedInv /\ HeadInv /\ ReadInv

Inv == TypeInv /\ EnvInv /\ AnswerInv /\ OwnerInv /\ ServingInv

-----------------------------------------------------------------------------
(* Sequences *)

LEMMA TailSet ==
  ASSUME NEW S, NEW s \in Seq(S), s # <<>>
  PROVE  /\ Head(s) \in S /\ Tail(s) \in Seq(S)
         /\ Head(s) \in ToSet(s) /\ ToSet(Tail(s)) \subseteq ToSet(s)
         /\ ToSet(s) = {Head(s)} \cup ToSet(Tail(s))
<1>1. /\ Len(s) \in Nat /\ Len(s) > 0 /\ DOMAIN s = 1 .. Len(s)
      /\ Head(s) = s[1] /\ Head(s) \in S /\ Tail(s) \in Seq(S)
      /\ Len(Tail(s)) = Len(s) - 1 /\ DOMAIN Tail(s) = 1 .. Len(s) - 1
      /\ \A k \in 1 .. Len(s) - 1 : Tail(s)[k] = s[k + 1]
  OBVIOUS
<1>2. PICK t : t = Tail(s)
  OBVIOUS
<1>3. ToSet(t) = {t[k] : k \in 1 .. Len(s) - 1} /\ ToSet(s) = {s[k] : k \in 1 .. Len(s)}
  BY <1>1, <1>2 DEF ToSet
<1>4. ASSUME NEW k \in 1 .. Len(s), k # 1
      PROVE  s[k] \in ToSet(t)
  <2>1. k - 1 \in 1 .. Len(s) - 1 /\ t[k - 1] = s[k]
    BY <1>1, <1>2, <1>4
  <2> QED BY <1>3, <2>1
<1>5. \A k \in 1 .. Len(s) - 1 : t[k] \in ToSet(s)
  BY <1>1, <1>2, <1>3
<1>6. s[1] \in ToSet(s) /\ ToSet(t) \subseteq ToSet(s)
  BY <1>1, <1>3, <1>5
<1>7. ToSet(s) \subseteq {s[1]} \cup ToSet(t)
  BY <1>3, <1>4
<1> QED
  BY <1>1, <1>2, <1>6, <1>7

LEMMA AppendSet ==
  ASSUME NEW S, NEW s \in Seq(S), NEW x \in S
  PROVE  ToSet(Append(s, x)) = ToSet(s) \cup {x}
<1>1. PICK t : t = Append(s, x)
  OBVIOUS
<1>2. /\ Len(s) \in Nat /\ DOMAIN s = 1 .. Len(s) /\ DOMAIN t = 1 .. Len(s) + 1
      /\ \A k \in 1 .. Len(s) : t[k] = s[k]
      /\ t[Len(s) + 1] = x
  BY <1>1
<1>3. ToSet(t) = {t[k] : k \in 1 .. Len(s) + 1} /\ ToSet(s) = {s[k] : k \in 1 .. Len(s)}
  BY <1>2 DEF ToSet
<1>4. \A k \in 1 .. Len(s) + 1 : t[k] \in ToSet(s) \cup {x}
  BY <1>2, <1>3
<1>5. \A k \in 1 .. Len(s) : s[k] \in ToSet(t)
  BY <1>2, <1>3
<1>6. x \in ToSet(t)
  BY <1>2, <1>3
<1> QED
  BY <1>1, <1>3, <1>4, <1>5, <1>6

LEMMA EmptySet == ToSet(<<>>) = {}
BY DEF ToSet

-----------------------------------------------------------------------------
(* Members and groups *)

LEMMA ClientMembers ==
  ASSUME TypeInv, NEW c \in Clients, world.env[c] \in Envs, NEW m \in {Publishing(c), Awaiting(c)}
  PROVE  m \in Members /\ m[2] # "serving" /\ GroupOf(m) = <<"client", world.env[c]>>
         /\ GroupOf(m) \in Groups
BY DEF Members, Publishing, Awaiting, GroupOf, Groups

LEMMA ServerMembers ==
  ASSUME TypeInv, NEW s \in Servers
  PROVE  /\ Serving(s) \in Members /\ Serving(s)[2] = "serving" /\ Serving(s)[1] = s
         /\ GroupOf(Serving(s)) = <<"server", world.serverEnv[s]>>
         /\ world.serverEnv[s] \in Envs => GroupOf(Serving(s)) \in Groups
BY DEF Members, Serving, GroupOf, Groups

(* Members of the servers' groups are servers. *)
LEMMA OnlyServers ==
  ASSUME TypeInv, NEW m \in Members, NEW e, GroupOf(m) = <<"server", e>>
  PROVE  \E s \in Servers : m = Serving(s) /\ world.serverEnv[s] = e
<1>1. m[2] = "serving"
  BY DEF GroupOf
<1>2. PICK s \in Servers : m = Serving(s)
  BY <1>1 DEF Members, Publishing, Awaiting, Serving
<1> QED
  BY <1>2, ServerMembers

(* What a rebalance does. *)
HandedOver(g, ms, alive, as) ==
  /\ GroupsInv' /\ MembersInv'
  /\ \A h \in Groups \ {g} : owner'[h] = owner[h] /\ committed'[h] = committed[h]
  /\ \A p \in Partitions :
       /\ owner'[g][p] \in ms \cup {Nil}
       /\ \/ committed'[g][p] = committed[g][p]
          \/ owner[g][p] \in alive /\ committed'[g][p] = member[owner[g][p]].head[p]
  /\ \A m \in Members \ ms : member'[m] = as[m]
  /\ \A m \in ms :
       /\ member'[m].in = as[m].in /\ member'[m].batch = as[m].batch
       /\ \A p \in Partitions :
            \/ /\ owner'[g][p] = m
               /\ member'[m].pos[p] = committed'[g][p] /\ member'[m].head[p] = committed'[g][p]
            \/ /\ owner'[g][p] = m => owner[g][p] = m
               /\ member'[m].pos[p] = as[m].pos[p] /\ member'[m].head[p] = as[m].head[p]

LEMMA Assigned ==
  ASSUME NEW ms, NEW f \in Assignments(ms)
  PROVE  f \in [Partitions -> ms \cup {Nil}]
BY DEF Assignments

LEMMA Rebalances ==
  ASSUME TypeInv, UNCHANGED world, NEW g \in Groups, NEW ms \in SUBSET Members,
         NEW alive \in SUBSET Members, NEW as \in [Members -> MemberStates],
         Rebalance(g, ms, alive, as)
  PROVE  HandedOver(g, ms, alive, as)
<1> DEFINE Off(f) ==
             [p \in Partitions |->
                IF owner[g][p] # Nil /\ owner[g][p] # f[p] /\ owner[g][p] \in alive
                THEN member[owner[g][p]].head[p] ELSE committed[g][p]]
           Start(f, m, q) ==
             [p \in Partitions |-> IF f[p] = m /\ owner[g][p] # m THEN Off(f)[p] ELSE q[p]]
<1>1. PICK f \in Assignments(ms) :
        /\ owner' = [owner EXCEPT ![g] = f]
        /\ committed' = [committed EXCEPT ![g] = Off(f)]
        /\ member' = [m \in Members |->
             IF m \in ms
             THEN [as[m] EXCEPT !.pos = Start(f, m, as[m].pos), !.head = Start(f, m, as[m].head)]
             ELSE as[m]]
  BY Zenon DEF Rebalance
<1>0. PICK old, off : old = owner[g] /\ off = Off(f)
  OBVIOUS
<1>2. f \in [Partitions -> ms \cup {Nil}] /\ f \in [Partitions -> Members \cup {Nil}]
  BY Assigned
<1>3. old \in [Partitions -> Members \cup {Nil}]
  BY <1>0 DEF TypeInv, GroupsInv
<1>4. off \in [Partitions -> Nat]
  <2>1. ASSUME NEW p \in Partitions
        PROVE  off[p] \in Nat
    <3>1. off[p] = IF old[p] # Nil /\ old[p] # f[p] /\ old[p] \in alive
                   THEN member[old[p]].head[p] ELSE committed[g][p]
      BY <1>0
    <3>2. committed[g][p] \in Nat
      BY DEF TypeInv, GroupsInv
    <3>3. \A m \in Members : member[m].head[p] \in Nat
      BY DEF TypeInv, MembersInv, MemberStates
    <3> QED BY <3>1, <3>2, <3>3
  <2>2. off = [p \in Partitions |-> off[p]]
    BY <1>0
  <2> QED BY <2>1, <2>2
<1> HIDE DEF Off
<1>5. SoundRecords' = SoundRecords
  BY DEF SoundRecords, IsSound
<1>6. GroupsInv'
  BY <1>0, <1>1, <1>2, <1>4 DEF TypeInv, GroupsInv
<1>7. /\ owner'[g] = f /\ committed'[g] = off
      /\ \A h \in Groups \ {g} : owner'[h] = owner[h] /\ committed'[h] = committed[h]
  BY <1>0, <1>1 DEF TypeInv, GroupsInv
<1>8. ASSUME NEW m \in ms
      PROVE  /\ member'[m] \in MemberStates
             /\ member'[m].in = as[m].in /\ member'[m].batch = as[m].batch
             /\ \A p \in Partitions :
                  /\ member'[m].pos[p] = IF f[p] = m /\ old[p] # m THEN off[p] ELSE as[m].pos[p]
                  /\ member'[m].head[p] = IF f[p] = m /\ old[p] # m THEN off[p] ELSE as[m].head[p]
  <2>1. PICK P, H : P = Start(f, m, as[m].pos) /\ H = Start(f, m, as[m].head)
    OBVIOUS
  <2>6. /\ P = [p \in Partitions |-> IF f[p] = m /\ old[p] # m THEN off[p] ELSE as[m].pos[p]]
        /\ H = [p \in Partitions |-> IF f[p] = m /\ old[p] # m THEN off[p] ELSE as[m].head[p]]
    BY <1>0, <2>1
  <2> HIDE DEF Start
  <2>2. m \in Members /\ as[m] \in MemberStates
    OBVIOUS
  <2>3. member'[m] = [as[m] EXCEPT !.pos = P, !.head = H]
    BY <1>1, <2>1, <2>2
  <2>4. P \in [Partitions -> Nat] /\ H \in [Partitions -> Nat]
    BY <1>4, <2>2, <2>6 DEF MemberStates
  <2>5. /\ member'[m] \in MemberStates
        /\ member'[m].in = as[m].in /\ member'[m].batch = as[m].batch
        /\ member'[m].pos = P /\ member'[m].head = H
    BY <2>2, <2>3, <2>4 DEF MemberStates
  <2> QED BY <2>5, <2>6
<1>9. \A m \in Members \ ms : member'[m] = as[m]
  BY <1>1
<1>10. MembersInv'
  <2>1. \A m \in Members : member'[m] \in MemberStates
    BY <1>8, <1>9
  <2>2. member' = [m \in Members |-> member'[m]]
    BY <1>1
  <2>3. MemberStates' = MemberStates
    BY <1>5 DEF MemberStates
  <2> QED BY <2>1, <2>2, <2>3 DEF MembersInv
<1>11. ASSUME NEW p \in Partitions
       PROVE  /\ owner'[g][p] \in ms \cup {Nil}
              /\ \/ committed'[g][p] = committed[g][p]
                 \/ owner[g][p] \in alive /\ committed'[g][p] = member[owner[g][p]].head[p]
  <2>1. committed'[g][p] = IF old[p] # Nil /\ old[p] # f[p] /\ old[p] \in alive
                           THEN member[old[p]].head[p] ELSE committed[g][p]
    <3>1. off[p] = IF old[p] # Nil /\ old[p] # f[p] /\ old[p] \in alive
                   THEN member[old[p]].head[p] ELSE committed[g][p]
      BY <1>0 DEF Off
    <3> QED BY <1>7, <3>1
  <2> QED BY <1>0, <1>2, <1>7, <2>1
<1>12. ASSUME NEW m \in ms, NEW p \in Partitions
       PROVE  \/ /\ owner'[g][p] = m
                 /\ member'[m].pos[p] = committed'[g][p] /\ member'[m].head[p] = committed'[g][p]
              \/ /\ owner'[g][p] = m => owner[g][p] = m
                 /\ member'[m].pos[p] = as[m].pos[p] /\ member'[m].head[p] = as[m].head[p]
  <2>1. /\ member'[m].pos[p] = IF f[p] = m /\ old[p] # m THEN off[p] ELSE as[m].pos[p]
        /\ member'[m].head[p] = IF f[p] = m /\ old[p] # m THEN off[p] ELSE as[m].head[p]
    BY <1>8
  <2>2. owner'[g][p] = f[p] /\ committed'[g][p] = off[p] /\ owner[g][p] = old[p]
    BY <1>0, <1>7
  <2>3. CASE f[p] = m /\ old[p] # m
    BY <2>1, <2>2, <2>3
  <2>4. CASE ~(f[p] = m /\ old[p] # m)
    BY <2>1, <2>2, <2>4
  <2> QED BY <2>3, <2>4
<1> QED
  BY <1>6, <1>7, <1>8, <1>9, <1>10, <1>11, <1>12 DEF HandedOver

-----------------------------------------------------------------------------
(* Joining and leaving a group *)

(* Member m is in or out, with nothing read yet, and the others of its     *)
(* group share the partitions anew.                                        *)
Regrouped(m) ==
  \E ms \in SUBSET Members, alive \in SUBSET MembersOf(GroupOf(m)),
     as \in [Members -> MemberStates] :
    /\ HandedOver(GroupOf(m), ms, alive, as)
    /\ \A x \in ms : GroupOf(x) = GroupOf(m) /\ as[x].in
    /\ \A x \in Members \ {m} : as[x] = member[x]
    /\ as[m].batch = <<>>
    /\ \A p \in Partitions : as[m].pos[p] = 0 /\ as[m].head[p] = 0

LEMMA IdleMembers ==
  /\ Idle \in MemberStates /\ [Idle EXCEPT !.in = TRUE] \in MemberStates
  /\ \A st \in {Idle, [Idle EXCEPT !.in = TRUE]} :
       st.batch = <<>> /\ \A p \in Partitions : st.pos[p] = 0 /\ st.head[p] = 0
  /\ [Idle EXCEPT !.in = TRUE].in
<1>1. PICK none, zero : none = <<>> /\ zero = [p \in Partitions |-> 0]
  OBVIOUS
<1>2. /\ none \in Seq(SoundRecords) /\ zero \in [Partitions -> Nat]
      /\ \A p \in Partitions : zero[p] = 0
  BY <1>1
<1>3. PICK d : d = Idle
  OBVIOUS
<1>4. d = [in |-> FALSE, pos |-> zero, head |-> zero, batch |-> none, cancelled |-> FALSE]
  BY <1>1, <1>3 DEF Idle
<1>5. PICK j : j = [d EXCEPT !.in = TRUE]
  OBVIOUS
<1>6. j = [in |-> TRUE, pos |-> zero, head |-> zero, batch |-> none, cancelled |-> FALSE]
  BY <1>4, <1>5
<1>7. d \in MemberStates /\ j \in MemberStates /\ j.in
  BY <1>2, <1>4, <1>6 DEF MemberStates
<1>8. \A x \in {d, j} : x.batch = none /\ x.pos = zero /\ x.head = zero
  BY <1>4, <1>6
<1> QED
  BY <1>1, <1>2, <1>3, <1>5, <1>7, <1>8

LEMMA Regroup ==
  ASSUME TypeInv, UNCHANGED world, NEW m \in Members, GroupOf(m) \in Groups,
         NEW st \in {Idle, [Idle EXCEPT !.in = TRUE]},
         NEW ms \in SUBSET Members, NEW alive \in SUBSET MembersOf(GroupOf(m)),
         ms \ {m} \subseteq MembersOf(GroupOf(m)), m \in ms => st.in,
         Rebalance(GroupOf(m), ms, alive, [member EXCEPT ![m] = st])
  PROVE  Regrouped(m)
<1>1. PICK as : as = [member EXCEPT ![m] = st]
  OBVIOUS
<1>2. PICK g : g = GroupOf(m)
  OBVIOUS
<1>3. as \in [Members -> MemberStates] /\ as[m] = st /\ \A x \in Members \ {m} : as[x] = member[x]
  BY <1>1, IdleMembers DEF TypeInv, MembersInv
<1>4. MembersOf(g) \subseteq Members
  BY DEF MembersOf
<1>5. HandedOver(g, ms, alive, as)
  BY <1>1, <1>2, <1>3, <1>4, Rebalances
<1>6. \A x \in ms : GroupOf(x) = g /\ as[x].in
  BY <1>2, <1>3 DEF MembersOf
<1>7. as[m].batch = <<>> /\ \A p \in Partitions : as[m].pos[p] = 0 /\ as[m].head[p] = 0
  BY <1>3, IdleMembers
<1>8. HandedOver(GroupOf(m), ms, alive, as) /\ \A x \in ms : GroupOf(x) = GroupOf(m) /\ as[x].in
  BY <1>2, <1>5, <1>6
<1> QED
  BY <1>3, <1>7, <1>8, Zenon DEF Regrouped

LEMMA Joins ==
  ASSUME TypeInv, UNCHANGED world, NEW m \in Members, GroupOf(m) \in Groups, Subscriber(m)
  PROVE  Regrouped(m)
<1>1. PICK ms, st : ms = MembersOf(GroupOf(m)) \cup {m} /\ st = [Idle EXCEPT !.in = TRUE]
  OBVIOUS
<1>2. /\ ms \in SUBSET Members /\ ms \ {m} \subseteq MembersOf(GroupOf(m)) /\ st.in
      /\ st \in {Idle, [Idle EXCEPT !.in = TRUE]}
  BY <1>1, IdleMembers DEF MembersOf
<1>3. Rebalance(GroupOf(m), ms, MembersOf(GroupOf(m)), [member EXCEPT ![m] = st])
  BY <1>1 DEF Subscriber
<1> QED
  BY <1>2, <1>3, Regroup

LEMMA Leaves ==
  ASSUME TypeInv, UNCHANGED world, NEW m \in Members, GroupOf(m) \in Groups,
         NEW alive \in SUBSET MembersOf(GroupOf(m)),
         Rebalance(GroupOf(m), MembersOf(GroupOf(m)) \ {m}, alive, [member EXCEPT ![m] = Idle])
  PROVE  Regrouped(m)
<1>1. PICK ms : ms = MembersOf(GroupOf(m)) \ {m}
  OBVIOUS
<1>2. ms \in SUBSET Members /\ ms \ {m} \subseteq MembersOf(GroupOf(m)) /\ m \notin ms
  BY <1>1 DEF MembersOf
<1>3. Rebalance(GroupOf(m), ms, alive, [member EXCEPT ![m] = Idle])
  BY <1>1
<1> QED
  BY <1>2, <1>3, Regroup

LEMMA RegroupOwners ==
  ASSUME TypeInv, OwnerInv, UNCHANGED world, NEW m \in Members, GroupOf(m) \in Groups, Regrouped(m)
  PROVE  /\ GroupsInv' /\ MembersInv'
         /\ \A g \in Groups, p \in Partitions :
              owner'[g][p] # Nil => member'[owner'[g][p]].in /\ GroupOf(owner'[g][p]) = g
         /\ \A x \in Members \ {m} : member'[x].in = member[x].in /\ member'[x].batch = member[x].batch
<1>1. PICK g \in Groups : g = GroupOf(m)
  OBVIOUS
<1>6. PICK ms \in SUBSET Members, alive \in SUBSET MembersOf(GroupOf(m)), as \in [Members -> MemberStates] :
        /\ HandedOver(GroupOf(m), ms, alive, as)
        /\ \A x \in ms : GroupOf(x) = GroupOf(m) /\ as[x].in
        /\ \A x \in Members \ {m} : as[x] = member[x]
        /\ as[m].batch = <<>>
        /\ \A p \in Partitions : as[m].pos[p] = 0 /\ as[m].head[p] = 0
  BY Zenon DEF Regrouped
<1>2. /\ HandedOver(g, ms, alive, as)
      /\ \A x \in ms : GroupOf(x) = g /\ as[x].in
      /\ \A x \in Members \ {m} : as[x] = member[x]
  BY <1>1, <1>6
<1>3. /\ GroupsInv' /\ MembersInv'
      /\ \A h \in Groups \ {g} : owner'[h] = owner[h]
      /\ \A p \in Partitions : owner'[g][p] \in ms \cup {Nil}
      /\ \A x \in Members \ ms : member'[x] = as[x]
      /\ \A x \in ms : member'[x].in = as[x].in /\ member'[x].batch = as[x].batch
  BY <1>2 DEF HandedOver
<1>4. ASSUME NEW h \in Groups, NEW p \in Partitions, owner'[h][p] # Nil
      PROVE  member'[owner'[h][p]].in /\ GroupOf(owner'[h][p]) = h
  <2>1. CASE h = g
    BY <1>2, <1>3, <1>4, <2>1
  <2>2. CASE h # g
    <3>1. PICK x : x = owner[h][p] /\ x = owner'[h][p]
      BY <1>3, <2>2
    <3>5. x \in Members \cup {Nil} /\ x # Nil
      <4>1. x # Nil
        BY <1>4, <3>1
      <4>2. owner[h][p] \in Members \cup {Nil}
        BY DEF TypeInv, GroupsInv
      <4> QED BY <3>1, <4>1, <4>2
    <3>2. x \in Members /\ member[x].in /\ GroupOf(x) = h
      BY <3>1, <3>5 DEF OwnerInv
    <3>3. x \notin ms /\ x # m
      BY <1>1, <1>2, <2>2, <3>2
    <3>4. member'[x] = member[x]
      BY <1>2, <1>3, <3>2, <3>3
    <3> QED BY <3>1, <3>2, <3>4
  <2> QED BY <2>1, <2>2
<1>5. ASSUME NEW x \in Members \ {m}
      PROVE  member'[x].in = member[x].in /\ member'[x].batch = member[x].batch
  BY <1>2, <1>3
<1> QED
  BY <1>3, <1>4, <1>5

-----------------------------------------------------------------------------
(* Records are only added, and what is settled stays so *)

Grows ==
  /\ world' = world /\ ToSet(faults) \subseteq ToSet(faults')
  /\ LogInv'
  /\ \A e \in Envs, p \in Partitions :
       /\ Len(Read(e, p)) <= Len(Read(e, p)')
       /\ \A i \in 1 .. Len(Read(e, p)) : Read(e, p)'[i] = Read(e, p)[i]

LEMMA SameSound == ASSUME UNCHANGED world PROVE SoundRecords' = SoundRecords /\ MemberStates' = MemberStates
BY DEF SoundRecords, IsSound, MemberStates

LEMMA ReadType ==
  ASSUME LogInv, NEW e \in Envs, NEW p \in Partitions
  PROVE  /\ Read(e, p) \in Seq(SoundRecords) /\ Len(Read(e, p)) \in Nat
         /\ DOMAIN Read(e, p) = 1 .. Len(Read(e, p))
<1>1. AuthChannelAddress(e) \in Topics
  BY DEF Topics
<1>2. Read(e, p) \in Seq(SoundRecords)
  BY <1>1 DEF LogInv, Read
<1> QED
  BY <1>2

LEMMA SameLog ==
  ASSUME TypeInv, UNCHANGED <<world, log>>, ToSet(faults) \subseteq ToSet(faults')
  PROVE  Grows
<1>1. \A e, p : Read(e, p)' = Read(e, p)
  BY DEF Read
<1>2. LogInv'
  BY SameSound DEF TypeInv, LogInv
<1>3. \A e \in Envs, p \in Partitions : Len(Read(e, p)) \in Nat
  BY ReadType DEF TypeInv
<1> QED
  BY <1>1, <1>2, <1>3 DEF Grows

LEMMA Published ==
  ASSUME TypeInv, UNCHANGED world, ToSet(faults) \subseteq ToSet(faults'),
         NEW e \in Envs, NEW r \in SoundRecords, log' \in Publish(e, r)
  PROVE  Grows /\ \E p \in Partitions : r \in ToSet(Read(e, p)')
<1>1. PICK t : t = AuthChannelAddress(e)
  OBVIOUS
<1>2. PICK q \in Partitions : log' = [log EXCEPT ![t][q] = Append(log[t][q], r)]
  <2>1. InUse \subseteq Partitions
    BY WorldsAssumption DEF TypeInv, InUse
  <2>2. PICK q \in InUse : log' = [log EXCEPT ![t][q] = Append(log[t][q], r)]
    BY <1>1 DEF Publish, Send
  <2> QED BY <2>1, <2>2
<1>3. t \in Topics
  BY <1>1 DEF Topics
<1>4. PICK old : old = log[t][q]
  OBVIOUS
<1>5. old \in Seq(SoundRecords)
  BY <1>3, <1>4 DEF TypeInv, LogInv
<1>6. PICK new : new = Append(old, r)
  OBVIOUS
<1>7. /\ new \in Seq(SoundRecords) /\ Len(old) \in Nat /\ Len(new) = Len(old) + 1
      /\ \A i \in 1 .. Len(old) : new[i] = old[i]
      /\ ToSet(new) = ToSet(old) \cup {r}
  BY <1>5, <1>6, AppendSet
<1>8. log' = [log EXCEPT ![t][q] = new]
  BY <1>2, <1>4, <1>6
<1>9. /\ log' \in [Topics -> [Partitions -> Seq(SoundRecords)]] /\ log'[t][q] = new
      /\ \A u \in Topics, p \in Partitions : <<u, p>> # <<t, q>> => log'[u][p] = log[u][p]
  BY <1>3, <1>7, <1>8 DEF TypeInv, LogInv
<1>10. LogInv'
  BY <1>9, SameSound DEF LogInv, Topics
<1>11. ASSUME NEW d \in Envs, NEW p \in Partitions
       PROVE  /\ Len(Read(d, p)) <= Len(Read(d, p)')
              /\ \A i \in 1 .. Len(Read(d, p)) : Read(d, p)'[i] = Read(d, p)[i]
  <2>1. PICK u \in Topics : u = AuthChannelAddress(d)
    BY DEF Topics
  <2>2. Read(d, p) = log[u][p] /\ Read(d, p)' = log'[u][p]
    BY <2>1 DEF Read
  <2>3. CASE u = t /\ p = q
    BY <1>4, <1>7, <1>9, <2>2, <2>3
  <2>4. CASE ~(u = t /\ p = q)
    <3>1. log'[u][p] = log[u][p]
      BY <1>9, <2>4
    <3>2. Len(Read(d, p)) \in Nat
      BY ReadType DEF TypeInv
    <3> QED BY <2>2, <3>1, <3>2
  <2> QED BY <2>3, <2>4
<1>12. r \in ToSet(Read(e, q)')
  <2>1. Read(e, q)' = log'[t][q]
    BY <1>1 DEF Read
  <2> QED BY <1>7, <1>9, <2>1
<1> QED
  BY <1>10, <1>11, <1>12 DEF Grows

LEMMA StaysAnswered ==
  ASSUME TypeInv, Grows, NEW c, Answered(c)
  PROVE  Answered(c)'
<1>1. PICK r : r = AuthResponseMsg(world.id[c], c)
  OBVIOUS
<1>2. PICK e \in Envs, p \in Partitions : r \in ToSet(Read(e, p))
  <2>1. DOMAIN log = Topics
    BY DEF TypeInv, LogInv
  <2> QED BY <1>1, <2>1 DEF Answered, Topics, Read
<1>3. r \in ToSet(Read(e, p)')
  <2>1. PICK old, new : old = Read(e, p) /\ new = Read(e, p)'
    OBVIOUS
  <2>2. DOMAIN old = 1 .. Len(old) /\ Len(old) \in Nat
    BY <2>1, ReadType DEF TypeInv
  <2>3. new \in Seq(SoundRecords') /\ DOMAIN new = 1 .. Len(new) /\ Len(new) \in Nat
    <3>1. AuthChannelAddress(e) \in Topics
      BY DEF Topics
    <3>2. Read(e, p)' \in Seq(SoundRecords')
      BY <3>1 DEF Grows, LogInv, Read, Topics, AuthChannelAddress
    <3> QED BY <2>1, <3>2
  <2>4. PICK i \in 1 .. Len(old) : old[i] = r
    BY <1>2, <2>1, <2>2 DEF ToSet
  <2>5. Len(old) <= Len(new) /\ new[i] = r
    BY <2>1, <2>4 DEF Grows
  <2>6. i \in DOMAIN new
    BY <2>2, <2>3, <2>5
  <2> QED BY <2>1, <2>5, <2>6 DEF ToSet
<1>4. r = AuthResponseMsg(world.id[c], c)' /\ log'[AuthChannelAddress(e)][p] = Read(e, p)'
      /\ AuthChannelAddress(e) \in DOMAIN log'
  BY <1>1 DEF Grows, LogInv, Topics, AuthResponseMsg, Record, Read, AuthChannelAddress
<1> QED
  BY <1>3, <1>4 DEF Answered

LEMMA StaysSettled ==
  ASSUME TypeInv, Grows, NEW r, Settled(r)
  PROVE  Settled(r)'
BY StaysAnswered DEF Settled, Grows

LEMMA StaysSettledTo ==
  ASSUME TypeInv, Grows, NEW e \in Envs, NEW p \in Partitions, NEW n \in Nat, SettledTo(e, p, n)
  PROVE  SettledTo(e, p, n)'
<1>1. PICK old, new : old = Read(e, p) /\ new = Read(e, p)'
  OBVIOUS
<1>2. /\ n <= Len(old) /\ Len(old) \in Nat /\ Len(old) <= Len(new) /\ Len(new) \in Int
      /\ \A i \in 1 .. Len(old) : new[i] = old[i]
      /\ \A i \in 1 .. n : Settled(old[i])
  <2>1. Len(new) \in Int
    <3>1. Read(e, p)' \in Seq(SoundRecords')
      BY DEF Grows, LogInv, Read, Topics, AuthChannelAddress
    <3> QED BY <1>1, <3>1
  <2> QED BY <1>1, <2>1, ReadType DEF TypeInv, SettledTo, Grows
<1>3. \A i \in 1 .. n : Settled(new[i])'
  <2> SUFFICES ASSUME NEW i \in 1 .. n
               PROVE  Settled(new[i])'
    OBVIOUS
  <2>1. i \in 1 .. Len(old)
    BY <1>2
  <2>2. PICK r : r = new[i]
    OBVIOUS
  <2>3. Settled(r)
    BY <1>2, <2>1, <2>2
  <2> QED BY <2>2, <2>3, StaysSettled
<1> QED
  BY <1>1, <1>2, <1>3 DEF SettledTo

(* What a server has not settled it still has in its hands, or it has been *)
(* settled meanwhile.                                                      *)
LEMMA StaysRead ==
  ASSUME TypeInv, Grows, NEW s \in Servers, world.serverEnv[s] \in Envs, NEW p \in Partitions,
         NEW n \in Nat, ReadAt(s, p, n),
         server'[s].pc = "serving" =>
           /\ server[s].pc = "serving"
           /\ \A r \in SoundRecords : InHand(s, r) => InHand(s, r)' \/ Settled(r)'
  PROVE  ReadAt(s, p, n)'
<1>1. PICK e \in Envs : e = world.serverEnv[s]
  OBVIOUS
<1>2. PICK old, new : old = Read(e, p) /\ new = Read(e, p)'
  OBVIOUS
<1>3. /\ n <= Len(old) /\ Len(old) \in Nat /\ Len(old) <= Len(new) /\ Len(new) \in Int
      /\ old \in Seq(SoundRecords)
      /\ \A i \in 1 .. Len(old) : new[i] = old[i]
  <2>1. Len(new) \in Int
    <3>1. Read(e, p)' \in Seq(SoundRecords')
      BY DEF Grows, LogInv, Read, Topics, AuthChannelAddress
    <3> QED BY <1>2, <3>1
  <2> QED BY <1>1, <1>2, <2>1, ReadType DEF TypeInv, ReadAt, Grows
<1>4. ASSUME server'[s].pc = "serving", NEW i \in 1 .. n
      PROVE  Settled(new[i])' \/ InHand(s, new[i])'
  <2>1. PICK r : r = new[i]
    OBVIOUS
  <2>2. r = old[i] /\ r \in SoundRecords
    BY <1>3, <2>1
  <2>3. Settled(r) \/ InHand(s, r)
    BY <1>1, <1>2, <1>4, <2>2 DEF ReadAt
  <2>4. Settled(r)' \/ InHand(s, r)'
    BY <1>4, <2>2, <2>3, StaysSettled
  <2> QED BY <2>1, <2>4
<1>5. world'.serverEnv[s] = e
  BY <1>1 DEF Grows
<1>6. n <= Len(new)
  BY <1>3
<1> QED
  BY <1>2, <1>4, <1>5, <1>6 DEF ReadAt

(* Steps that leave the servers and their groups alone. *)
ServersStill ==
  /\ server' = server
  /\ \A e \in Envs : owner'[<<"server", e>>] = owner[<<"server", e>>]
                     /\ committed'[<<"server", e>>] = committed[<<"server", e>>]
  /\ \A s \in Servers : member'[Serving(s)] = member[Serving(s)]

LEMMA MemberTypes ==
  ASSUME TypeInv, NEW s \in Servers, NEW p \in Partitions
  PROVE  /\ member[Serving(s)].pos[p] \in Nat /\ member[Serving(s)].head[p] \in Nat
         /\ member[Serving(s)].batch \in Seq(SoundRecords)
         /\ server[s].todo \in Seq(SoundRecords)
<1>1. member[Serving(s)] \in MemberStates
  BY ServerMembers DEF TypeInv, MembersInv
<1>2. server[s].todo \in Seq(SoundRecords)
  BY DEF TypeInv, ServersInv
<1> QED
  BY <1>1, <1>2 DEF MemberStates

LEMMA CommittedType ==
  ASSUME TypeInv, NEW e \in Envs, NEW p \in Partitions
  PROVE  <<"server", e>> \in Groups /\ committed[<<"server", e>>][p] \in Nat
<1>1. <<"server", e>> \in Groups
  BY DEF Groups
<1> QED
  BY <1>1 DEF TypeInv, GroupsInv

LEMMA StillServing ==
  ASSUME TypeInv, EnvInv, ServingInv, Grows, ServersStill
  PROVE  ServingInv'
<1>1. CommittedInv'
  <2> SUFFICES ASSUME NEW e \in Envs, NEW p \in Partitions
               PROVE  SettledTo(e, p, committed[<<"server", e>>][p])'
    BY DEF CommittedInv
  <2>1. PICK n : n = committed[<<"server", e>>][p]
    OBVIOUS
  <2>2. n \in Nat /\ SettledTo(e, p, n) /\ committed'[<<"server", e>>][p] = n
    BY <2>1, CommittedType DEF ServingInv, CommittedInv, ServersStill
  <2> QED BY <2>2, StaysSettledTo
<1>2. ASSUME NEW s \in Servers, NEW p \in Partitions, Owns(s, p)'
      PROVE  Owns(s, p) /\ world.serverEnv[s] \in Envs /\ member'[Serving(s)] = member[Serving(s)]
             /\ world'.serverEnv[s] = world.serverEnv[s]
  <2>1. world'.serverEnv[s] = world.serverEnv[s] /\ server[s].pc # "idle"
    BY <1>2 DEF Owns, Grows, ServersStill
  <2>2. PICK e \in Envs : e = world.serverEnv[s]
    BY <2>1 DEF EnvInv, ServerEnvInv
  <2>3. owner'[<<"server", e>>][p] = Serving(s)
    BY <1>2, <2>1, <2>2 DEF Owns, GroupOf, Serving
  <2>4. Owns(s, p)
    BY <2>1, <2>2, <2>3, ServerMembers DEF Owns, ServersStill
  <2> QED BY <2>1, <2>2, <2>4 DEF ServersStill
<1>3. HeadInv'
  <2> SUFFICES ASSUME NEW s \in Servers, NEW p \in Partitions, Owns(s, p)'
               PROVE  SettledTo(world.serverEnv[s], p, member[Serving(s)].head[p])'
    BY DEF HeadInv
  <2>1. PICK n : n = member[Serving(s)].head[p]
    OBVIOUS
  <2>4. PICK e \in Envs : e = world.serverEnv[s]
    BY <1>2
  <2>2. n \in Nat /\ SettledTo(e, p, n) /\ member'[Serving(s)].head[p] = n /\ world'.serverEnv[s] = e
    BY <1>2, <2>1, <2>4, MemberTypes DEF ServingInv, HeadInv
  <2>3. SettledTo(e, p, n)'
    BY <2>2, StaysSettledTo
  <2> QED BY <2>2, <2>3
<1>4. ReadInv'
  <2> SUFFICES ASSUME NEW s \in Servers, NEW p \in Partitions, Owns(s, p)'
               PROVE  ReadAt(s, p, member[Serving(s)].pos[p])'
    BY DEF ReadInv
  <2>1. PICK n : n = member[Serving(s)].pos[p]
    OBVIOUS
  <2>2. n \in Nat /\ ReadAt(s, p, n) /\ member'[Serving(s)].pos[p] = n
    BY <1>2, <2>1, MemberTypes DEF ServingInv, ReadInv
  <2>3. server'[s] = server[s] /\ \A r : InHand(s, r)' = InHand(s, r)
    BY <1>2 DEF ServersStill, InHand, AuthResponseMsg, Record
  <2>4. ReadAt(s, p, n)'
    BY <1>2, <2>2, <2>3, StaysRead
  <2> QED BY <2>2, <2>4
<1> QED
  BY <1>1, <1>3, <1>4 DEF ServingInv

(* A client that joins or leaves does not touch the groups of the servers. *)
LEMMA ClientRegroups ==
  ASSUME TypeInv, UNCHANGED <<world, server>>, NEW m \in Members, m[2] # "serving",
         GroupOf(m) \in Groups, Regrouped(m)
  PROVE  ServersStill
<1>1. PICK ms \in SUBSET Members, alive \in SUBSET MembersOf(GroupOf(m)), as \in [Members -> MemberStates] :
        /\ HandedOver(GroupOf(m), ms, alive, as)
        /\ \A x \in ms : GroupOf(x) = GroupOf(m) /\ as[x].in
        /\ \A x \in Members \ {m} : as[x] = member[x]
        /\ as[m].batch = <<>>
        /\ \A p \in Partitions : as[m].pos[p] = 0 /\ as[m].head[p] = 0
  BY Zenon DEF Regrouped
<1>2. \A e : GroupOf(m) # <<"server", e>>
  BY DEF GroupOf
<1>3. \A e \in Envs : <<"server", e>> \in Groups \ {GroupOf(m)}
  BY <1>2 DEF Groups
<1>4. \A e \in Envs : owner'[<<"server", e>>] = owner[<<"server", e>>]
                      /\ committed'[<<"server", e>>] = committed[<<"server", e>>]
  BY <1>1, <1>3 DEF HandedOver
<1>5. ASSUME NEW s \in Servers
      PROVE  member'[Serving(s)] = member[Serving(s)]
  <2>1. PICK x \in Members : x = Serving(s)
    BY ServerMembers
  <2>2. x # m /\ GroupOf(x) # GroupOf(m)
    BY <1>2, <2>1, ServerMembers
  <2>3. x \in Members \ ms
    BY <1>1, <2>2
  <2>4. member'[x] = as[x] /\ as[x] = member[x]
    BY <1>1, <2>2, <2>3 DEF HandedOver
  <2> QED BY <2>1, <2>4
<1> QED
  BY <1>4, <1>5 DEF ServersStill

(* A server that joins or leaves: who loses a partition commits what is    *)
(* settled, and who gets it starts there.                                  *)
LEMMA SettledIsRead ==
  ASSUME NEW s, NEW p, NEW n, SettledTo(world.serverEnv[s], p, n)
  PROVE  ReadAt(s, p, n)
BY DEF SettledTo, ReadAt

LEMMA OwnedBefore ==
  ASSUME TypeInv, EnvInv, ServingInv, Grows, NEW s \in Servers, NEW p \in Partitions,
         server'[s] = server[s], Owns(s, p),
         member'[Serving(s)].batch = member[Serving(s)].batch,
         member'[Serving(s)].pos[p] = member[Serving(s)].pos[p],
         member'[Serving(s)].head[p] = member[Serving(s)].head[p]
  PROVE  /\ SettledTo(world.serverEnv[s], p, member[Serving(s)].head[p])'
         /\ ReadAt(s, p, member[Serving(s)].pos[p])'
<1>1. PICK e \in Envs : e = world.serverEnv[s]
  BY DEF Owns, EnvInv, ServerEnvInv
<1>2. PICK h \in Nat : h = member[Serving(s)].head[p]
  BY MemberTypes
<1>3. PICK n \in Nat : n = member[Serving(s)].pos[p]
  BY MemberTypes
<1>4. SettledTo(e, p, h) /\ ReadAt(s, p, n)
  BY <1>1, <1>2, <1>3 DEF ServingInv, HeadInv, ReadInv
<1>5. SettledTo(e, p, h)'
  BY <1>4, StaysSettledTo
<1>6. \A r : InHand(s, r)' = InHand(s, r)
  BY DEF InHand, AuthResponseMsg, Record
<1>7. ReadAt(s, p, n)'
  BY <1>1, <1>4, <1>6, StaysRead
<1>8. world'.serverEnv[s] = e
  BY <1>1 DEF Grows
<1> QED
  BY <1>2, <1>3, <1>5, <1>7, <1>8

LEMMA ServerRegroups ==
  ASSUME TypeInv, EnvInv, OwnerInv, ServingInv, Grows, NEW s \in Servers,
         world.serverEnv[s] \in Envs, Regrouped(Serving(s)),
         \A x \in Servers \ {s} : server'[x] = server[x]
  PROVE  ServingInv'
<1>1. PICK e \in Envs : e = world.serverEnv[s]
  OBVIOUS
<1>2. PICK m \in Members : m = Serving(s)
  BY ServerMembers
<1>3. PICK g \in Groups : g = <<"server", e>> /\ g = GroupOf(m)
  BY <1>1, <1>2, ServerMembers
<1>4. PICK ms \in SUBSET Members, alive \in SUBSET MembersOf(GroupOf(m)), as \in [Members -> MemberStates] :
        /\ HandedOver(GroupOf(m), ms, alive, as)
        /\ \A x \in ms : GroupOf(x) = GroupOf(m) /\ as[x].in
        /\ \A x \in Members \ {m} : as[x] = member[x]
        /\ as[m].batch = <<>>
        /\ \A p \in Partitions : as[m].pos[p] = 0 /\ as[m].head[p] = 0
  <2>1. Regrouped(m)
    BY <1>2
  <2> QED BY <2>1, Zenon DEF Regrouped
<1>5. /\ HandedOver(g, ms, alive, as) /\ alive \subseteq MembersOf(g)
      /\ \A x \in ms : GroupOf(x) = g
  BY <1>3, <1>4
<1>6. world' = world
  BY DEF Grows
<1>7. ASSUME NEW p \in Partitions
      PROVE  \E n \in Nat : n = committed'[g][p] /\ SettledTo(e, p, n)
  <2>1. CASE committed'[g][p] = committed[g][p]
    BY <1>3, <2>1, CommittedType DEF ServingInv, CommittedInv
  <2>2. CASE owner[g][p] \in alive /\ committed'[g][p] = member[owner[g][p]].head[p]
    <3>1. PICK x : x = owner[g][p]
      OBVIOUS
    <3>2. x \in Members /\ member[x].in /\ GroupOf(x) = g
      BY <1>5, <2>2, <3>1 DEF MembersOf
    <3>3. PICK y \in Servers : x = Serving(y) /\ world.serverEnv[y] = e
      BY <1>3, <3>2, OnlyServers
    <3>4. server[y].pc # "idle"
      BY <3>2, <3>3 DEF OwnerInv
    <3>5. Owns(y, p)
      BY <3>1, <3>2, <3>3, <3>4 DEF Owns
    <3> QED BY <2>2, <3>1, <3>3, <3>5, MemberTypes DEF ServingInv, HeadInv
  <2> QED BY <1>5, <2>1, <2>2 DEF HandedOver
<1>8. CommittedInv'
  <2> SUFFICES ASSUME NEW d \in Envs, NEW p \in Partitions
               PROVE  SettledTo(d, p, committed[<<"server", d>>][p])'
    BY DEF CommittedInv
  <2>1. PICK n \in Nat : n = committed'[<<"server", d>>][p] /\ SettledTo(d, p, n)
    <3>1. CASE d = e
      BY <1>3, <1>7, <3>1
    <3>2. CASE d # e
      <4>1. <<"server", d>> \in Groups \ {g}
        BY <1>3, <3>2, CommittedType
      <4>2. committed'[<<"server", d>>][p] = committed[<<"server", d>>][p]
        BY <1>5, <4>1 DEF HandedOver
      <4> QED BY <4>2, CommittedType DEF ServingInv, CommittedInv
    <3> QED BY <3>1, <3>2
  <2> QED BY <2>1, StaysSettledTo
<1>9. ASSUME NEW x \in Servers, NEW p \in Partitions, Owns(x, p)'
      PROVE  /\ SettledTo(world.serverEnv[x], p, member[Serving(x)].head[p])'
             /\ ReadAt(x, p, member[Serving(x)].pos[p])'
  <2>1. PICK w \in Members : w = Serving(x)
    BY ServerMembers
  <2>2. PICK d : d = world.serverEnv[x] /\ d = world'.serverEnv[x]
    BY <1>6
  <2>3. GroupOf(w) = <<"server", d>> /\ owner'[<<"server", d>>][p] = w /\ server'[x].pc # "idle"
    BY <1>9, <2>1, <2>2, ServerMembers DEF Owns, GroupOf, Serving
  <2>4. CASE x # s
    <3>5. server'[x] = server[x] /\ server[x].pc # "idle"
      BY <2>3, <2>4
    <3>6. d \in Envs
      BY <2>2, <3>5 DEF EnvInv, ServerEnvInv
    <3>7. w # m
      BY <1>2, <2>1, <2>4 DEF Serving
    <3>1. server'[x] = server[x] /\ server[x].pc # "idle" /\ d \in Envs /\ w # m
      BY <3>5, <3>6, <3>7
    <3>2. as[w] = member[w]
      BY <1>4, <3>1
    <3>3. CASE d # e
      <4>1. <<"server", d>> \in Groups \ {g} /\ w \in Members \ ms
        BY <1>3, <1>5, <2>3, <3>1, <3>3, CommittedType
      <4>2. owner[<<"server", d>>][p] = w /\ member'[w] = member[w]
        BY <1>5, <2>3, <3>2, <4>1 DEF HandedOver
      <4>3. Owns(x, p)
        BY <2>1, <2>3, <3>1, <4>2 DEF Owns
      <4> QED BY <2>1, <3>1, <4>2, <4>3, OwnedBefore
    <3>4. CASE d = e
      <4>1. w \in ms
        BY <1>3, <1>5, <2>3, <3>4, NilAssumption DEF HandedOver
      <4>2. CASE member'[w].pos[p] = committed'[g][p] /\ member'[w].head[p] = committed'[g][p]
        <5>1. PICK n \in Nat : n = committed'[g][p] /\ SettledTo(e, p, n)
          BY <1>7
        <5>2. SettledTo(e, p, n)'
          BY <5>1, StaysSettledTo
        <5>3. SettledTo(world.serverEnv[x], p, n)'
          BY <2>2, <3>4, <5>2
        <5> QED BY <2>1, <4>2, <5>1, <5>3 DEF SettledTo, ReadAt
      <4>3. CASE /\ owner[g][p] = w /\ member'[w].batch = as[w].batch
                 /\ member'[w].pos[p] = as[w].pos[p] /\ member'[w].head[p] = as[w].head[p]
        <5>1. Owns(x, p)
          BY <1>3, <2>1, <2>3, <3>1, <3>4, <4>3 DEF Owns
        <5> QED BY <2>1, <3>1, <3>2, <4>3, <5>1, OwnedBefore
      <4>4. /\ member'[w].in = as[w].in /\ member'[w].batch = as[w].batch
             /\ \/ /\ owner'[g][p] = w
                   /\ member'[w].pos[p] = committed'[g][p] /\ member'[w].head[p] = committed'[g][p]
                \/ /\ owner'[g][p] = w => owner[g][p] = w
                   /\ member'[w].pos[p] = as[w].pos[p] /\ member'[w].head[p] = as[w].head[p]
        BY <1>5, <4>1 DEF HandedOver
      <4>5. owner'[g][p] = w
        BY <1>3, <2>3, <3>4
      <4> QED BY <4>2, <4>3, <4>4, <4>5
    <3> QED BY <3>3, <3>4
  <2>5. CASE x = s
    <3>1. w = m /\ d = e /\ owner'[g][p] = m
      BY <1>1, <1>2, <1>3, <2>1, <2>2, <2>3, <2>5
    <3>2. w \in ms
      BY <1>5, <3>1, NilAssumption DEF HandedOver
    <3>3. \E n \in Nat : /\ n = member'[w].pos[p] /\ n = member'[w].head[p] /\ SettledTo(e, p, n)
      <4>1. CASE member'[w].pos[p] = committed'[g][p] /\ member'[w].head[p] = committed'[g][p]
        BY <1>7, <4>1
      <4>2. CASE member'[w].pos[p] = as[w].pos[p] /\ member'[w].head[p] = as[w].head[p]
        <5>1. member'[w].pos[p] = 0 /\ member'[w].head[p] = 0
          BY <1>4, <3>1, <4>2
        <5>2. Len(Read(e, p)) \in Nat
          BY ReadType DEF TypeInv
        <5> QED BY <5>1, <5>2 DEF SettledTo
      <4>3. /\ member'[w].in = as[w].in /\ member'[w].batch = as[w].batch
             /\ \/ /\ owner'[g][p] = w
                   /\ member'[w].pos[p] = committed'[g][p] /\ member'[w].head[p] = committed'[g][p]
                \/ /\ owner'[g][p] = w => owner[g][p] = w
                   /\ member'[w].pos[p] = as[w].pos[p] /\ member'[w].head[p] = as[w].head[p]
        BY <1>5, <3>2 DEF HandedOver
      <4> QED BY <4>1, <4>2, <4>3
    <3>4. PICK n \in Nat : n = member'[w].pos[p] /\ n = member'[w].head[p] /\ SettledTo(e, p, n)
      BY <3>3
    <3>5. SettledTo(e, p, n)'
      BY <3>4, StaysSettledTo
    <3>6. SettledTo(world.serverEnv[x], p, n)'
      BY <2>2, <3>1, <3>5
    <3> QED BY <2>1, <3>4, <3>6 DEF SettledTo, ReadAt
  <2> QED BY <2>4, <2>5
<1> QED
  BY <1>8, <1>9 DEF ServingInv, HeadInv, ReadInv

-----------------------------------------------------------------------------
(* Steps of the clients *)

LEMMA Faulty ==
  ASSUME TypeInv, UNCHANGED world, NEW kind, Fault(kind)
  PROVE  /\ faults' \in Seq(world'.faults) /\ ToSet(faults) \subseteq ToSet(faults')
         /\ kind \in ToSet(faults')
<1>1. kind \in world.faults /\ faults' = Append(faults, kind) /\ faults \in Seq(world.faults)
  BY DEF Fault, TypeInv
<1>2. ToSet(faults') = ToSet(faults) \cup {kind}
  BY <1>1, AppendSet
<1>3. faults' \in Seq(world.faults)
  BY <1>1
<1> QED
  BY <1>2, <1>3

ClientsOK == ClientsInv /\ ClientEnvInv /\ AnswerInv
ServersOK == ServersInv /\ ServerEnvInv

LEMMA ClientMoves ==
  ASSUME Inv, UNCHANGED world, NEW c \in Clients, world.env[c] \in Envs, NEW q \in ClientPcs,
         q \in {"answered", "done"} => client[c].pc \in {"answered", "done"},
         client' = [client EXCEPT ![c].pc = q]
  PROVE  ClientsOK'
<1>1. client \in [Clients -> [pc : ClientPcs, got : SoundRecords \cup {Nil}]]
  BY DEF Inv, TypeInv, ClientsInv
<1>2. /\ client' \in [Clients -> [pc : ClientPcs, got : SoundRecords \cup {Nil}]]
      /\ client'[c].pc = q /\ client'[c].got = client[c].got
      /\ \A x \in Clients \ {c} : client'[x] = client[x]
  BY <1>1
<1>3. ClientsInv'
  BY <1>2, SameSound DEF ClientsInv
<1>4. ClientEnvInv'
  BY <1>2 DEF Inv, EnvInv, ClientEnvInv
<1>5. AnswerInv'
  BY <1>2, SameSound DEF Inv, AnswerInv
<1> QED
  BY <1>3, <1>4, <1>5 DEF ClientsOK

LEMMA ClientsStay == ASSUME Inv, UNCHANGED <<world, client>> PROVE ClientsOK'
BY SameSound DEF Inv, TypeInv, EnvInv, ClientsOK, ClientsInv, ClientEnvInv, AnswerInv

LEMMA ServersStay == ASSUME Inv, UNCHANGED <<world, server>> PROVE ServersOK'
BY SameSound DEF Inv, TypeInv, EnvInv, ServersOK, ServersInv, ServerEnvInv

(* A client joins or leaves a group. *)
LEMMA ClientGroups ==
  ASSUME Inv, Grows, UNCHANGED server, NEW c \in Clients, world.env[c] \in Envs,
         NEW m \in {Publishing(c), Awaiting(c)}, Regrouped(m)
  PROVE  GroupsInv' /\ MembersInv' /\ OwnerInv' /\ ServingInv' /\ ServersOK'
<1>1. TypeInv /\ EnvInv /\ OwnerInv /\ ServingInv /\ world' = world
  BY DEF Inv, Grows
<1>2. m \in Members /\ m[2] # "serving" /\ GroupOf(m) \in Groups
  BY <1>1, ClientMembers
<1>3. ServersStill
  BY <1>1, <1>2, ClientRegroups
<1>4. ServingInv'
  BY <1>1, <1>3, StillServing
<1>5. /\ GroupsInv' /\ MembersInv'
      /\ \A g \in Groups, p \in Partitions :
           owner'[g][p] # Nil => member'[owner'[g][p]].in /\ GroupOf(owner'[g][p]) = g
  BY <1>1, <1>2, RegroupOwners
<1>6. \A x : GroupOf(x)' = GroupOf(x)
  BY <1>1 DEF GroupOf
<1>7. OwnerInv'
  BY <1>1, <1>3, <1>5, <1>6 DEF OwnerInv, ServersStill
<1> QED
  BY <1>1, <1>4, <1>5, <1>7, ServersStay

(* Publishing needs an environment. *)
LEMMA Environment ==
  ASSUME Inv, NEW c \in Clients, client[c].pc # "idle" \/ world.env[c] # Nil
  PROVE  world.env[c] \in Envs
BY WorldsAssumption DEF Inv, TypeInv, EnvInv, ClientEnvInv

LEMMA OpenRequestInv == ASSUME Inv, NEW c \in Clients, OpenRequest(c) PROVE Inv'
<1>1. /\ world.env[c] # Nil /\ client' = [client EXCEPT ![c].pc = "publishing"]
      /\ Subscriber(Publishing(c)) /\ UNCHANGED <<world, log, server, faults>>
  BY DEF OpenRequest, OpenAuthChannel
<1>2. world.env[c] \in Envs /\ TypeInv
  BY <1>1, Environment DEF Inv
<1>3. Grows
  BY <1>1, <1>2, SameLog
<1>4. Regrouped(Publishing(c))
  BY <1>1, <1>2, ClientMembers, Joins
<1>5. GroupsInv' /\ MembersInv' /\ OwnerInv' /\ ServingInv' /\ ServersOK'
  BY <1>1, <1>2, <1>3, <1>4, ClientGroups
<1>6. ClientsOK'
  BY <1>1, <1>2, ClientMoves DEF ClientPcs
<1>7. world' \in Worlds /\ faults' \in Seq(world'.faults) /\ LogInv'
  BY <1>1, <1>2, <1>3 DEF TypeInv, Grows
<1> QED
  BY <1>5, <1>6, <1>7 DEF Inv, TypeInv, EnvInv, ClientsOK, ServersOK

LEMMA ClosesInv ==
  ASSUME Inv, Grows, UNCHANGED server, NEW c \in Clients, client[c].pc # "idle",
         NEW m \in {Publishing(c), Awaiting(c)}, Close(m)
  PROVE  GroupsInv' /\ MembersInv' /\ OwnerInv' /\ ServingInv' /\ ServersOK'
<1>1. world.env[c] \in Envs /\ TypeInv /\ world' = world
  BY Environment DEF Inv, Grows
<1>2. Rebalance(GroupOf(m), MembersOf(GroupOf(m)) \ {m}, MembersOf(GroupOf(m)), [member EXCEPT ![m] = Idle])
  BY DEF Close
<1>3. Regrouped(m)
  BY <1>1, <1>2, ClientMembers, Leaves
<1> QED
  BY <1>1, <1>3, ClientGroups

LEMMA MakeAuthRequestInv == ASSUME Inv, NEW c \in Clients, MakeAuthRequest(c) PROVE Inv'
<1>1. /\ client[c].pc = "publishing" /\ client' = [client EXCEPT ![c].pc = "published"]
      /\ log' \in Publish(world.env[c], AuthRequestMsg(c))
      /\ Close(Publishing(c)) /\ UNCHANGED <<world, server, faults>>
  BY DEF MakeAuthRequest, CloseAuthChannel
<1>2. world.env[c] \in Envs /\ TypeInv
  BY <1>1, Environment DEF Inv
<1>3. AuthRequestMsg(c) \in SoundRecords
  <2>1. world.id[c] \in Ids
    BY <1>2, WorldsAssumption DEF TypeInv
  <2>2. PICK r : r = AuthRequestMsg(c)
    OBVIOUS
  <2>3. r = [type |-> "AuthRequest", id |-> world.id[c], of |-> c]
    BY <2>2 DEF AuthRequestMsg, Record
  <2>4. IsSound(r)
    BY <2>3 DEF IsSound
  <2>5. r \in [type : {"AuthRequest", "AuthResponse", "foo", "garbage"},
               id : Ids \cup {Nil}, of : Clients \cup {Nil}]
    BY <2>1, <2>3
  <2> QED BY <2>2, <2>4, <2>5 DEF SoundRecords
<1>4. Grows
  BY <1>1, <1>2, <1>3, Published
<1>5. GroupsInv' /\ MembersInv' /\ OwnerInv' /\ ServingInv' /\ ServersOK'
  BY <1>1, <1>4, ClosesInv
<1>6. ClientsOK'
  BY <1>1, <1>2, ClientMoves DEF ClientPcs
<1>7. world' \in Worlds /\ faults' \in Seq(world'.faults) /\ LogInv'
  BY <1>1, <1>2, <1>4 DEF TypeInv, Grows
<1> QED
  BY <1>5, <1>6, <1>7 DEF Inv, TypeInv, EnvInv, ClientsOK, ServersOK

LEMMA RequestFailsInv == ASSUME Inv, NEW c \in Clients, RequestFails(c) PROVE Inv'
<1>1. /\ client[c].pc = "publishing" /\ client' = [client EXCEPT ![c].pc = "failed"]
      /\ Fault("publish") /\ Close(Publishing(c)) /\ UNCHANGED <<world, log, server>>
  BY DEF RequestFails, CloseAuthChannel
<1>2. world.env[c] \in Envs /\ TypeInv
  BY <1>1, Environment DEF Inv
<1>3. faults' \in Seq(world'.faults) /\ ToSet(faults) \subseteq ToSet(faults')
  BY <1>1, <1>2, Faulty
<1>4. Grows
  BY <1>1, <1>2, <1>3, SameLog
<1>5. GroupsInv' /\ MembersInv' /\ OwnerInv' /\ ServingInv' /\ ServersOK'
  BY <1>1, <1>4, ClosesInv
<1>6. ClientsOK'
  BY <1>1, <1>2, ClientMoves DEF ClientPcs
<1>7. world' \in Worlds /\ LogInv'
  BY <1>1, <1>2, <1>4 DEF TypeInv, Grows
<1> QED
  BY <1>3, <1>5, <1>6, <1>7 DEF Inv, TypeInv, EnvInv, ClientsOK, ServersOK

LEMMA AwaitAuthResponseInv == ASSUME Inv, NEW c \in Clients, AwaitAuthResponse(c) PROVE Inv'
<1>1. /\ client[c].pc = "published" /\ client' = [client EXCEPT ![c].pc = "awaiting"]
      /\ Subscriber(Awaiting(c)) /\ UNCHANGED <<world, log, server, faults>>
  BY DEF AwaitAuthResponse, OpenAuthChannel
<1>2. world.env[c] \in Envs /\ TypeInv
  BY <1>1, Environment DEF Inv
<1>3. Grows
  BY <1>1, <1>2, SameLog
<1>4. Regrouped(Awaiting(c))
  BY <1>1, <1>2, ClientMembers, Joins
<1>5. GroupsInv' /\ MembersInv' /\ OwnerInv' /\ ServingInv' /\ ServersOK'
  BY <1>1, <1>2, <1>3, <1>4, ClientGroups
<1>6. ClientsOK'
  BY <1>1, <1>2, ClientMoves DEF ClientPcs
<1>7. world' \in Worlds /\ faults' \in Seq(world'.faults) /\ LogInv'
  BY <1>1, <1>2, <1>3 DEF TypeInv, Grows
<1> QED
  BY <1>5, <1>6, <1>7 DEF Inv, TypeInv, EnvInv, ClientsOK, ServersOK

LEMMA CloseSubscriberInv == ASSUME Inv, NEW c \in Clients, CloseSubscriber(c) PROVE Inv'
<1>1. PICK q \in {"done", "failed"} :
        /\ client[c].pc \in {"answered", "unsealed"}
        /\ q = "done" => client[c].pc = "answered"
        /\ client' = [client EXCEPT ![c].pc = q]
  BY DEF CloseSubscriber
<1>2. Close(Awaiting(c)) /\ UNCHANGED <<world, log, server, faults>>
  BY DEF CloseSubscriber, CloseAuthChannel
<1>3. world.env[c] \in Envs /\ TypeInv
  BY <1>1, Environment DEF Inv
<1>4. Grows
  BY <1>2, <1>3, SameLog
<1>5. GroupsInv' /\ MembersInv' /\ OwnerInv' /\ ServingInv' /\ ServersOK'
  BY <1>1, <1>2, <1>4, ClosesInv
<1>6. ClientsOK'
  BY <1>1, <1>2, <1>3, ClientMoves DEF ClientPcs
<1>7. world' \in Worlds /\ faults' \in Seq(world'.faults) /\ LogInv'
  BY <1>2, <1>3, <1>4 DEF TypeInv, Grows
<1> QED
  BY <1>5, <1>6, <1>7 DEF Inv, TypeInv, EnvInv, ClientsOK, ServersOK

LEMMA FetchFailsInv == ASSUME Inv, NEW c \in Clients, FetchFails(c) PROVE Inv'
<1>1. /\ client[c].pc = "awaiting" /\ client' = [client EXCEPT ![c].pc = "failed"]
      /\ Fault("fetch") /\ Close(Awaiting(c)) /\ UNCHANGED <<world, log, server>>
  BY DEF FetchFails, CloseAuthChannel
<1>2. world.env[c] \in Envs /\ TypeInv
  BY <1>1, Environment DEF Inv
<1>3. faults' \in Seq(world'.faults) /\ ToSet(faults) \subseteq ToSet(faults')
  BY <1>1, <1>2, Faulty
<1>4. Grows
  BY <1>1, <1>2, <1>3, SameLog
<1>5. GroupsInv' /\ MembersInv' /\ OwnerInv' /\ ServingInv' /\ ServersOK'
  BY <1>1, <1>4, ClosesInv
<1>6. ClientsOK'
  BY <1>1, <1>2, ClientMoves DEF ClientPcs
<1>7. world' \in Worlds /\ LogInv'
  BY <1>1, <1>2, <1>4 DEF TypeInv, Grows
<1> QED
  BY <1>3, <1>5, <1>6, <1>7 DEF Inv, TypeInv, EnvInv, ClientsOK, ServersOK

(* A member polls or consumes. *)
LEMMA MemberMoves ==
  ASSUME Inv, UNCHANGED <<world, owner>>, NEW m \in Members, NEW st \in MemberStates,
         st.in = member[m].in, member' = [member EXCEPT ![m] = st]
  PROVE  /\ MembersInv' /\ member'[m] = st
         /\ \A x \in Members \ {m} : member'[x] = member[x]
         /\ \A x \in Members : member'[x].in = member[x].in
         /\ \A g \in Groups, p \in Partitions :
              owner'[g][p] # Nil => member'[owner'[g][p]].in /\ GroupOf(owner'[g][p]) = g
<1>1. /\ member' \in [Members -> MemberStates] /\ member'[m] = st
      /\ \A x \in Members \ {m} : member'[x] = member[x]
  BY DEF Inv, TypeInv, MembersInv
<1>2. MembersInv'
  BY <1>1, SameSound DEF MembersInv
<1>3. \A x \in Members : member'[x].in = member[x].in
  BY <1>1
<1>4. ASSUME NEW g \in Groups, NEW p \in Partitions, owner'[g][p] # Nil
      PROVE  member'[owner'[g][p]].in /\ GroupOf(owner'[g][p]) = g
  <2>1. PICK x : x = owner[g][p] /\ x = owner'[g][p]
    OBVIOUS
  <2>2. x # Nil
    BY <1>4, <2>1
  <2>3. x \in Members
    <3>1. owner[g][p] \in Members \cup {Nil}
      BY DEF Inv, TypeInv, GroupsInv
    <3> QED BY <2>1, <2>2, <3>1
  <2>4. member[x].in /\ GroupOf(x) = g
    BY <2>1, <2>2 DEF Inv, OwnerInv
  <2> QED BY <1>3, <2>1, <2>3, <2>4
<1> QED
  BY <1>1, <1>2, <1>3, <1>4

LEMMA ClientReads ==
  ASSUME Inv, UNCHANGED <<world, log, committed, owner, server, faults>>, NEW c \in Clients,
         NEW st \in MemberStates, st.in = member[Awaiting(c)].in,
         member' = [member EXCEPT ![Awaiting(c)] = st], ClientsOK'
  PROVE  Inv'
<1>1. TypeInv /\ EnvInv /\ ServingInv
  BY DEF Inv
<1>2. PICK m \in Members : m = Awaiting(c) /\ \A s \in Servers : Serving(s) # m
  BY DEF Members, Awaiting, Serving
<1>3. /\ MembersInv'
      /\ \A x \in Members \ {m} : member'[x] = member[x]
      /\ \A x \in Members : member'[x].in = member[x].in
      /\ \A g \in Groups, p \in Partitions :
           owner'[g][p] # Nil => member'[owner'[g][p]].in /\ GroupOf(owner'[g][p]) = g
  <2>1. st.in = member[m].in /\ member' = [member EXCEPT ![m] = st]
    BY <1>2
  <2> QED BY <2>1, MemberMoves
<1>4. Grows
  BY <1>1, SameLog
<1>5. ServersStill
  BY <1>1, <1>2, <1>3, ServerMembers DEF ServersStill
<1>6. ServingInv'
  BY <1>1, <1>4, <1>5, StillServing
<1>7. \A x : GroupOf(x)' = GroupOf(x)
  BY DEF GroupOf
<1>8. OwnerInv'
  BY <1>1, <1>3, <1>7, ServerMembers DEF Inv, OwnerInv
<1>9. ServersOK'
  BY ServersStay
<1>10. GroupsInv' /\ LogInv' /\ world' \in Worlds /\ faults' \in Seq(world'.faults)
  BY <1>1, <1>4 DEF TypeInv, GroupsInv, Grows
<1> QED
  BY <1>3, <1>6, <1>8, <1>9, <1>10 DEF Inv, TypeInv, EnvInv, ClientsOK, ServersOK

(* What is in a batch, and what is left of it. *)
LEMMA Batches ==
  ASSUME TypeInv, NEW m \in Members
  PROVE  /\ member[m] \in MemberStates
         /\ Cancelled(m)[m] \in MemberStates /\ Cancelled(m)[m].in = member[m].in
         /\ Cancelled(m)[m].head = member[m].pos /\ Cancelled(m)[m].pos = member[m].pos
         /\ Cancelled(m) = [member EXCEPT ![m] = Cancelled(m)[m]]
         /\ member[m].batch # <<>> =>
              /\ NextRecord(m) \in SoundRecords /\ NextRecord(m) \in ToSet(member[m].batch)
              /\ ToSet(member[m].batch) = {NextRecord(m)} \cup ToSet(Consumed(m)[m].batch)
              /\ Consumed(m)[m] \in MemberStates /\ Consumed(m)[m].in = member[m].in
              /\ Consumed(m)[m].head = member[m].head /\ Consumed(m)[m].pos = member[m].pos
              /\ Consumed(m) = [member EXCEPT ![m] = Consumed(m)[m]]
<1>1. PICK st \in MemberStates : st = member[m]
  BY DEF TypeInv, MembersInv
<1>2. member \in [Members -> MemberStates]
  BY DEF TypeInv, MembersInv
<1>3. PICK x : x = [[[st EXCEPT !.batch = <<>>] EXCEPT !.cancelled = TRUE] EXCEPT !.head = st.pos]
  OBVIOUS
<1>4. x \in MemberStates /\ x.in = st.in /\ x.head = st.pos /\ x.pos = st.pos
  <2>0. PICK none : none = <<>>
    OBVIOUS
  <2>6. none \in Seq(SoundRecords)
    BY <2>0
  <2>1. PICK a : a = [st EXCEPT !.batch = none]
    OBVIOUS
  <2>2. a \in MemberStates /\ a.in = st.in /\ a.pos = st.pos
    BY <1>1, <2>1, <2>6 DEF MemberStates
  <2>3. PICK b : b = [a EXCEPT !.cancelled = TRUE]
    OBVIOUS
  <2>4. b \in MemberStates /\ b.in = st.in /\ b.pos = st.pos
    BY <2>2, <2>3 DEF MemberStates
  <2>5. x = [b EXCEPT !.head = st.pos] /\ st.pos \in [Partitions -> Nat]
    BY <1>1, <1>3, <2>0, <2>1, <2>3 DEF MemberStates
  <2> QED BY <2>4, <2>5 DEF MemberStates
<1>5. Cancelled(m) = [member EXCEPT ![m] = x] /\ Cancelled(m)[m] = x
  BY <1>1, <1>2, <1>3 DEF Cancelled
<1>6. ASSUME member[m].batch # <<>>
      PROVE  /\ NextRecord(m) \in SoundRecords /\ NextRecord(m) \in ToSet(member[m].batch)
             /\ ToSet(member[m].batch) = {NextRecord(m)} \cup ToSet(Consumed(m)[m].batch)
             /\ Consumed(m)[m] \in MemberStates /\ Consumed(m)[m].in = member[m].in
             /\ Consumed(m)[m].head = member[m].head /\ Consumed(m)[m].pos = member[m].pos
             /\ Consumed(m) = [member EXCEPT ![m] = Consumed(m)[m]]
  <2>1. PICK b \in Seq(SoundRecords) : b = st.batch
    BY <1>1 DEF MemberStates
  <2>2. b # <<>>
    BY <1>1, <1>6, <2>1
  <2>3. PICK t : t = Tail(b)
    OBVIOUS
  <2>4. /\ Head(b) \in SoundRecords /\ t \in Seq(SoundRecords) /\ Head(b) \in ToSet(b)
        /\ ToSet(b) = {Head(b)} \cup ToSet(t)
    BY <2>2, <2>3, TailSet
  <2>5. PICK y : y = [st EXCEPT !.batch = t]
    OBVIOUS
  <2>6. /\ y \in MemberStates /\ y.in = st.in /\ y.head = st.head /\ y.pos = st.pos /\ y.batch = t
    BY <1>1, <2>4, <2>5 DEF MemberStates
  <2>7. Consumed(m) = [member EXCEPT ![m] = y] /\ Consumed(m)[m] = y
    BY <1>1, <1>2, <2>1, <2>3, <2>5 DEF Consumed
  <2>8. NextRecord(m) = Head(b)
    BY <1>1, <2>1 DEF NextRecord
  <2> QED BY <1>1, <2>1, <2>4, <2>6, <2>7, <2>8
<1> QED
  BY <1>1, <1>4, <1>5, <1>6

LEMMA IgnoreInv == ASSUME Inv, NEW c \in Clients, Ignore(c) PROVE Inv'
<1>1. /\ member[Awaiting(c)].batch # <<>> /\ member' = Consumed(Awaiting(c))
      /\ UNCHANGED <<world, log, committed, owner, client, server, faults>>
  BY DEF Ignore, Waiting
<1>2. PICK m \in Members : m = Awaiting(c)
  BY DEF Members
<1>3. PICK st : st = Consumed(m)[m]
  OBVIOUS
<1>4. st \in MemberStates /\ st.in = member[m].in /\ member' = [member EXCEPT ![m] = st]
  BY <1>1, <1>2, <1>3, Batches DEF Inv
<1>5. ClientsOK'
  BY <1>1, ClientsStay
<1> QED
  BY <1>1, <1>2, <1>4, <1>5, ClientReads

LEMMA CancelledInv ==
  ASSUME Inv, NEW c \in Clients, member' = Cancelled(Awaiting(c)),
         UNCHANGED <<world, log, committed, owner, server, faults>>, ClientsOK'
  PROVE  Inv'
<1>2. PICK m \in Members : m = Awaiting(c)
  BY DEF Members
<1>3. PICK st : st = Cancelled(m)[m]
  OBVIOUS
<1>4. st \in MemberStates /\ st.in = member[m].in /\ member' = [member EXCEPT ![m] = st]
  BY <1>2, <1>3, Batches DEF Inv
<1> QED
  BY <1>2, <1>4, ClientReads

LEMMA GetAnswerInv == ASSUME Inv, NEW c \in Clients, GetAnswer(c) PROVE Inv'
<1>1. PICK r : /\ r = NextRecord(Awaiting(c)) /\ IsAnswer(c, r)
               /\ client' = [client EXCEPT ![c] = [pc |-> "answered", got |-> r]]
  BY DEF GetAnswer
<1>2. /\ client[c].pc = "awaiting" /\ member[Awaiting(c)].batch # <<>>
      /\ member' = Cancelled(Awaiting(c))
      /\ UNCHANGED <<world, log, committed, owner, server, faults>>
  BY DEF GetAnswer, Waiting
<1>3. r \in SoundRecords
  <2>1. Awaiting(c) \in Members
    BY DEF Members
  <2> QED BY <1>1, <1>2, <2>1, Batches DEF Inv
<1>4. r.type = "AuthResponse" /\ r.id = world.id[c]
  BY <1>1 DEF IsAnswer, CorrelationID
<1>5. PICK x : x = [pc |-> "answered", got |-> r]
  OBVIOUS
<1>6. x \in [pc : ClientPcs, got : SoundRecords \cup {Nil}] /\ x.pc = "answered" /\ x.got = r
  BY <1>3, <1>5 DEF ClientPcs
<1>7. /\ client' \in [Clients -> [pc : ClientPcs, got : SoundRecords \cup {Nil}]]
      /\ client'[c] = x /\ \A d \in Clients \ {c} : client'[d] = client[d]
  BY <1>1, <1>5, <1>6 DEF Inv, TypeInv, ClientsInv
<1>8. ClientsInv'
  BY <1>2, <1>7, SameSound DEF ClientsInv
<1>9. ClientEnvInv'
  BY <1>2, <1>7 DEF Inv, EnvInv, ClientEnvInv
<1>10. AnswerInv'
  BY <1>2, <1>3, <1>4, <1>6, <1>7, SameSound DEF Inv, AnswerInv
<1> QED
  BY <1>2, <1>8, <1>9, <1>10, CancelledInv DEF ClientsOK

LEMMA UnsealFailsInv == ASSUME Inv, NEW c \in Clients, UnsealFails(c) PROVE Inv'
<1>1. /\ client[c].pc = "awaiting" /\ client' = [client EXCEPT ![c].pc = "unsealed"]
      /\ member' = Cancelled(Awaiting(c))
      /\ UNCHANGED <<world, log, committed, owner, server, faults>>
  BY DEF UnsealFails, Waiting
<1>2. world.env[c] \in Envs
  BY <1>1, Environment
<1>3. ClientsOK'
  BY <1>1, <1>2, ClientMoves DEF ClientPcs
<1> QED
  BY <1>1, <1>3, CancelledInv

-----------------------------------------------------------------------------
(* Steps of the servers *)

LEMMA CommittedStays == ASSUME Inv, Grows, UNCHANGED committed PROVE CommittedInv' /\ committed' \in [Groups -> [Partitions -> Nat]]
<1>1. TypeInv /\ ServingInv
  BY DEF Inv
<1>2. ASSUME NEW e \in Envs, NEW p \in Partitions
      PROVE  SettledTo(e, p, committed[<<"server", e>>][p])'
  <2>1. PICK n \in Nat : n = committed[<<"server", e>>][p]
    BY <1>1, CommittedType
  <2>2. SettledTo(e, p, n)
    BY <1>1, <2>1 DEF ServingInv, CommittedInv
  <2>3. SettledTo(e, p, n)'
    BY <1>1, <2>2, StaysSettledTo
  <2> QED BY <2>1, <2>3
<1> QED
  BY <1>1, <1>2 DEF CommittedInv, TypeInv, GroupsInv

(* A member commits where everything before is settled. *)
LEMMA CommitsSettled ==
  ASSUME Inv, Grows, NEW s \in Servers, server[s].pc # "idle", NEW head \in [Partitions -> Nat],
         Commits(Serving(s), head),
         \A p \in Partitions : Owns(s, p) => SettledTo(world.serverEnv[s], p, head[p])'
  PROVE  CommittedInv' /\ committed' \in [Groups -> [Partitions -> Nat]]
<1>1. TypeInv /\ ServingInv /\ world.serverEnv[s] \in Envs
  BY DEF Inv, EnvInv, ServerEnvInv
<1>2. PICK m \in Members : m = Serving(s)
  BY <1>1, ServerMembers
<1>3. PICK g \in Groups : g = GroupOf(m) /\ g = <<"server", world.serverEnv[s]>>
  BY <1>1, <1>2, ServerMembers
<1>4. CASE committed' = committed
  BY <1>4, CommittedStays
<1>5. CASE committed' = [committed EXCEPT ![g] = [p \in Partitions |-> IF owner[g][p] = m THEN head[p] ELSE @[p]]]
  <2>1. committed \in [Groups -> [Partitions -> Nat]]
    BY <1>1 DEF TypeInv, GroupsInv
  <2>2. /\ \A p \in Partitions : committed'[g][p] = IF owner[g][p] = m THEN head[p] ELSE committed[g][p]
        /\ committed' \in [Groups -> [Partitions -> Nat]]
        /\ \A h \in Groups \ {g} : committed'[h] = committed[h]
    BY <1>5, <2>1
  <2>3. ASSUME NEW e \in Envs, NEW p \in Partitions
        PROVE  SettledTo(e, p, committed[<<"server", e>>][p])'
    <3>1. CASE <<"server", e>> = g /\ owner[g][p] = m
      <4>1. e = world.serverEnv[s] /\ Owns(s, p)
        BY <1>2, <1>3, <3>1 DEF Owns
      <4>2. PICK n : n = head[p] /\ n = committed'[<<"server", e>>][p]
        BY <2>2, <3>1
      <4>3. SettledTo(world.serverEnv[s], p, n)'
        BY <4>1, <4>2
      <4>4. SettledTo(e, p, n)'
        BY <4>1, <4>3 DEF Grows
      <4> QED BY <4>2, <4>4
    <3>2. CASE ~(<<"server", e>> = g /\ owner[g][p] = m)
      <4>1. PICK n \in Nat : n = committed[<<"server", e>>][p]
        BY <1>1, CommittedType
      <4>2. committed'[<<"server", e>>][p] = n
        BY <1>1, <2>2, <3>2, <4>1, CommittedType
      <4>3. SettledTo(e, p, n)
        BY <1>1, <4>1 DEF ServingInv, CommittedInv
      <4>4. SettledTo(e, p, n)'
        BY <1>1, <4>3, StaysSettledTo
      <4> QED BY <4>2, <4>4
    <3> QED BY <3>1, <3>2
  <2> QED BY <2>2, <2>3 DEF CommittedInv
<1>6. committed' = committed \/ committed' = [committed EXCEPT ![g] = [p \in Partitions |-> IF owner[g][p] = m THEN head[p] ELSE @[p]]]
  BY <1>1, <1>2, <1>3, ServerMembers DEF Commits
<1> QED
  BY <1>4, <1>5, <1>6

(* A server that keeps its partitions polls, takes a record or answers. *)
LEMMA ServerMoves ==
  ASSUME Inv, Grows, UNCHANGED <<owner, client>>, NEW s \in Servers, server[s].pc # "idle",
         NEW st \in MemberStates, st.in = member[Serving(s)].in,
         member' = [member EXCEPT ![Serving(s)] = st],
         NEW v \in [pc : {"serving", "dead", "gone"}, todo : Seq(SoundRecords)],
         server' = [server EXCEPT ![s] = v],
         CommittedInv', committed' \in [Groups -> [Partitions -> Nat]],
         faults' \in Seq(world'.faults),
         \A p \in Partitions : Owns(s, p) =>
           SettledTo(world.serverEnv[s], p, st.head[p])' /\ ReadAt(s, p, st.pos[p])'
  PROVE  Inv'
<1>1. TypeInv /\ EnvInv /\ ServingInv /\ world' = world
  BY DEF Inv, Grows
<1>2. PICK m \in Members : m = Serving(s)
  BY <1>1, ServerMembers
<1>3. /\ MembersInv' /\ member'[m] = st
      /\ \A x \in Members \ {m} : member'[x] = member[x]
      /\ \A x \in Members : member'[x].in = member[x].in
      /\ \A g \in Groups, p \in Partitions :
           owner'[g][p] # Nil => member'[owner'[g][p]].in /\ GroupOf(owner'[g][p]) = g
  <2>1. st.in = member[m].in /\ member' = [member EXCEPT ![m] = st]
    BY <1>2
  <2> QED BY <1>1, <2>1, MemberMoves
<1>4. /\ server' \in [Servers -> [pc : {"idle", "serving", "dead", "gone"}, todo : Seq(SoundRecords)]]
      /\ server'[s] = v /\ v.pc # "idle"
      /\ \A x \in Servers \ {s} : server'[x] = server[x]
  BY <1>1 DEF TypeInv, ServersInv
<1>5. ServersOK'
  <2>1. ServersInv'
    BY <1>1, <1>4, SameSound DEF ServersInv
  <2>2. ServerEnvInv'
    BY <1>1, <1>4 DEF EnvInv, ServerEnvInv
  <2> QED BY <2>1, <2>2 DEF ServersOK
<1>6. \A x : GroupOf(x)' = GroupOf(x)
  BY <1>1 DEF GroupOf
<1>7. OwnerInv'
  <2>1. \A x \in Servers : member'[Serving(x)].in => server'[x].pc # "idle"
    BY <1>1, <1>3, <1>4, ServerMembers DEF Inv, OwnerInv
  <2> QED BY <1>3, <1>6, <2>1 DEF OwnerInv
<1>8. ASSUME NEW x \in Servers, NEW p \in Partitions, Owns(x, p)'
      PROVE  /\ SettledTo(world.serverEnv[x], p, member[Serving(x)].head[p])'
             /\ ReadAt(x, p, member[Serving(x)].pos[p])'
  <2>1. GroupOf(Serving(x))' = GroupOf(Serving(x))
    BY <1>1 DEF GroupOf, Serving
  <2>2. Owns(x, p)
    BY <1>4, <1>8, <2>1 DEF Owns, Serving
  <2>3. CASE x = s
    <3>1. PICK h, n : h = st.head[p] /\ n = st.pos[p]
      OBVIOUS
    <3>2. SettledTo(world.serverEnv[s], p, h)' /\ ReadAt(s, p, n)'
      BY <2>2, <2>3, <3>1
    <3>3. member'[Serving(s)].head[p] = h /\ member'[Serving(s)].pos[p] = n
      BY <1>2, <1>3, <3>1
    <3> QED BY <2>3, <3>2, <3>3
  <2>4. CASE x # s
    <3>1. Serving(x) \in Members \ {m}
      BY <1>1, <1>2, <2>4, ServerMembers
    <3>2. member'[Serving(x)] = member[Serving(x)] /\ server'[x] = server[x]
      BY <1>3, <1>4, <2>4, <3>1
    <3> QED BY <1>1, <2>2, <3>2, OwnedBefore
  <2> QED BY <2>3, <2>4
<1>9. ServingInv'
  BY <1>8 DEF ServingInv, HeadInv, ReadInv
<1>10. ClientsOK'
  BY <1>1, ClientsStay
<1>11. GroupsInv' /\ LogInv' /\ world' \in Worlds
  BY <1>1 DEF TypeInv, GroupsInv, Grows
<1> QED
  BY <1>3, <1>5, <1>7, <1>9, <1>10, <1>11 DEF Inv, TypeInv, EnvInv, ClientsOK, ServersOK

(* It goes on from where it was: what it had in its hands is still there,  *)
(* or it is settled.                                                       *)
LEMMA GoesOn ==
  ASSUME Inv, Grows, UNCHANGED <<committed, owner, client>>, NEW s \in Servers, server[s].pc # "idle",
         NEW st \in MemberStates, st.in = member[Serving(s)].in,
         st.pos = member[Serving(s)].pos, st.head = member[Serving(s)].head,
         member' = [member EXCEPT ![Serving(s)] = st],
         NEW v \in [pc : {"serving", "dead", "gone"}, todo : Seq(SoundRecords)],
         server' = [server EXCEPT ![s] = v], faults' \in Seq(world'.faults),
         v.pc = "serving" =>
           /\ server[s].pc = "serving"
           /\ \A r \in SoundRecords : InHand(s, r) => InHand(s, r)' \/ Settled(r)'
  PROVE  Inv'
<1>1. TypeInv /\ EnvInv /\ ServingInv
  BY DEF Inv
<1>2. CommittedInv' /\ committed' \in [Groups -> [Partitions -> Nat]]
  BY CommittedStays
<1>3. PICK e \in Envs : e = world.serverEnv[s]
  BY <1>1 DEF EnvInv, ServerEnvInv
<1>4. server'[s] = v
  BY <1>1 DEF TypeInv, ServersInv
<1>5. ASSUME NEW p \in Partitions, Owns(s, p)
      PROVE  SettledTo(world.serverEnv[s], p, st.head[p])' /\ ReadAt(s, p, st.pos[p])'
  <2>1. PICK h \in Nat, n \in Nat : h = member[Serving(s)].head[p] /\ n = member[Serving(s)].pos[p]
    BY <1>1, MemberTypes
  <2>2. SettledTo(e, p, h) /\ ReadAt(s, p, n)
    BY <1>1, <1>3, <1>5, <2>1 DEF ServingInv, HeadInv, ReadInv
  <2>3. SettledTo(e, p, h)'
    BY <1>1, <2>2, StaysSettledTo
  <2>4. ReadAt(s, p, n)'
    BY <1>1, <1>3, <1>4, <2>2, StaysRead
  <2>5. st.head[p] = h /\ st.pos[p] = n /\ world'.serverEnv[s] = e
    BY <1>3, <2>1 DEF Grows
  <2> QED BY <2>3, <2>4, <2>5
<1> QED
  BY <1>2, <1>5, ServerMoves

LEMMA ServerSteps ==
  ASSUME Inv, NEW s \in Servers
  PROVE  /\ Serving(s) \in Members /\ TypeInv /\ member[Serving(s)] \in MemberStates
         /\ server[s].todo \in Seq(SoundRecords)
         /\ server[s].pc # "idle" => world.serverEnv[s] \in Envs
<1>1. TypeInv /\ EnvInv
  BY DEF Inv
<1>2. Serving(s) \in Members
  BY <1>1, ServerMembers
<1>3. member[Serving(s)] \in MemberStates /\ server[s].todo \in Seq(SoundRecords)
  BY <1>1, <1>2 DEF TypeInv, MembersInv, ServersInv
<1> QED
  BY <1>1, <1>2, <1>3 DEF EnvInv, ServerEnvInv

(* A server comes or goes. *)
LEMMA ServerGroups ==
  ASSUME Inv, Grows, UNCHANGED client, NEW s \in Servers, world.serverEnv[s] \in Envs,
         NEW v \in [pc : {"serving", "dead", "gone"}, todo : Seq(SoundRecords)],
         server' = [server EXCEPT ![s] = v], Regrouped(Serving(s)), faults' \in Seq(world'.faults)
  PROVE  Inv'
<1>1. TypeInv /\ EnvInv /\ OwnerInv /\ ServingInv /\ world' = world
  BY DEF Inv, Grows
<1>2. PICK m \in Members : m = Serving(s) /\ GroupOf(m) \in Groups
  BY <1>1, ServerMembers
<1>3. /\ server' \in [Servers -> [pc : {"idle", "serving", "dead", "gone"}, todo : Seq(SoundRecords)]]
      /\ server'[s].pc # "idle" /\ \A x \in Servers \ {s} : server'[x] = server[x]
  BY <1>1 DEF TypeInv, ServersInv
<1>4. ServersOK'
  <2>1. ServersInv'
    BY <1>1, <1>3, SameSound DEF ServersInv
  <2>2. ServerEnvInv'
    BY <1>1, <1>3 DEF EnvInv, ServerEnvInv
  <2> QED BY <2>1, <2>2 DEF ServersOK
<1>5. ServingInv'
  BY <1>1, <1>3, ServerRegroups
<1>6. /\ GroupsInv' /\ MembersInv'
      /\ \A g \in Groups, p \in Partitions :
           owner'[g][p] # Nil => member'[owner'[g][p]].in /\ GroupOf(owner'[g][p]) = g
      /\ \A x \in Members \ {m} : member'[x].in = member[x].in
  <2>1. Regrouped(m)
    BY <1>2
  <2> QED BY <1>1, <1>2, <2>1, RegroupOwners
<1>7. OwnerInv'
  <2>1. \A x : GroupOf(x)' = GroupOf(x)
    BY <1>1 DEF GroupOf
  <2>2. ASSUME NEW x \in Servers, member'[Serving(x)].in
        PROVE  server'[x].pc # "idle"
    <3>1. CASE x = s
      BY <1>3, <3>1
    <3>2. CASE x # s
      <4>1. Serving(x) \in Members \ {m}
        BY <1>1, <1>2, <3>2, ServerMembers
      <4> QED BY <1>1, <1>3, <1>6, <2>2, <3>2, <4>1 DEF OwnerInv
    <3> QED BY <3>1, <3>2
  <2> QED BY <1>6, <2>1, <2>2 DEF OwnerInv
<1>8. ClientsOK'
  BY <1>1, ClientsStay
<1>9. LogInv' /\ world' \in Worlds
  BY <1>1 DEF TypeInv, Grows
<1> QED
  BY <1>4, <1>5, <1>6, <1>7, <1>8, <1>9 DEF Inv, TypeInv, EnvInv, ClientsOK, ServersOK

LEMMA ServerBecomes ==
  ASSUME Inv, NEW s \in Servers, NEW q \in {"serving", "dead", "gone"},
         server' = [server EXCEPT ![s].pc = q]
  PROVE  \E v \in [pc : {"serving", "dead", "gone"}, todo : Seq(SoundRecords)] :
           server' = [server EXCEPT ![s] = v]
<1>1. PICK w : w = server[s] /\ w \in [pc : {"idle", "serving", "dead", "gone"}, todo : Seq(SoundRecords)]
  BY DEF Inv, TypeInv, ServersInv
<1>2. PICK v : v = [w EXCEPT !.pc = q]
  OBVIOUS
<1>3. v \in [pc : {"serving", "dead", "gone"}, todo : Seq(SoundRecords)]
  BY <1>1, <1>2
<1>4. server' = [server EXCEPT ![s] = v]
  BY <1>1, <1>2
<1> QED
  BY <1>3, <1>4

LEMMA StartServerInv == ASSUME Inv, NEW s \in Servers, StartServer(s) PROVE Inv'
<1>1. /\ world.serverEnv[s] # Nil /\ server' = [server EXCEPT ![s].pc = "serving"]
      /\ Subscriber(Serving(s)) /\ UNCHANGED <<world, log, client, faults>>
  BY DEF StartServer, OpenAuthChannel
<1>2. TypeInv /\ world.serverEnv[s] \in Envs
  BY <1>1, WorldsAssumption DEF Inv, TypeInv
<1>3. Grows
  BY <1>1, <1>2, SameLog
<1>4. Regrouped(Serving(s))
  BY <1>1, <1>2, ServerMembers, Joins
<1>5. PICK v \in [pc : {"serving", "dead", "gone"}, todo : Seq(SoundRecords)] :
        server' = [server EXCEPT ![s] = v]
  BY <1>1, ServerBecomes
<1>6. faults' \in Seq(world'.faults)
  BY <1>1, <1>2 DEF TypeInv
<1> QED
  BY <1>1, <1>2, <1>3, <1>4, <1>5, <1>6, ServerGroups

LEMMA SessionExpiresInv == ASSUME Inv, NEW s \in Servers, SessionExpires(s) PROVE Inv'
<1>1. PICK m : m = Serving(s)
  OBVIOUS
<1>2. /\ server[s].pc = "dead" /\ server' = [server EXCEPT ![s].pc = "gone"]
      /\ Rebalance(GroupOf(m), MembersOf(GroupOf(m)) \ {m}, MembersOf(GroupOf(m)) \ {m}, [member EXCEPT ![m] = Idle])
      /\ UNCHANGED <<world, log, client, faults>>
  BY <1>1 DEF SessionExpires
<1>3. TypeInv /\ world.serverEnv[s] \in Envs
  BY <1>2, ServerSteps
<1>4. Grows
  BY <1>2, <1>3, SameLog
<1>5. Regrouped(Serving(s))
  <2>1. m \in Members /\ GroupOf(m) \in Groups
    BY <1>1, <1>3, ServerMembers
  <2>2. PICK alive \in SUBSET MembersOf(GroupOf(m)) : alive = MembersOf(GroupOf(m)) \ {m}
    OBVIOUS
  <2>3. Rebalance(GroupOf(m), MembersOf(GroupOf(m)) \ {m}, alive, [member EXCEPT ![m] = Idle])
    BY <1>2, <2>2
  <2>4. Regrouped(m)
    BY <1>2, <1>3, <2>1, <2>3, Leaves
  <2> QED BY <1>1, <2>4
<1>6. PICK v \in [pc : {"serving", "dead", "gone"}, todo : Seq(SoundRecords)] :
        server' = [server EXCEPT ![s] = v]
  BY <1>2, ServerBecomes
<1>7. faults' \in Seq(world'.faults)
  BY <1>2, <1>3 DEF TypeInv
<1> QED
  BY <1>2, <1>3, <1>4, <1>5, <1>6, <1>7, ServerGroups

(* A record that is not a request needs no answer. *)
LEMMA IgnoreOthersInv == ASSUME Inv, NEW s \in Servers, IgnoreOthers(s) PROVE Inv'
<1>1. PICK m : m = Serving(s)
  OBVIOUS
<1>2. /\ server[s].pc = "serving" /\ member[m].batch # <<>> /\ ~IsAuthRequest(NextRecord(m))
      /\ member' = Consumed(m)
      /\ UNCHANGED <<world, log, committed, owner, client, server, faults>>
  BY <1>1 DEF IgnoreOthers, Reading
<1>3. TypeInv /\ m \in Members /\ server[s].todo \in Seq(SoundRecords)
  BY <1>1, ServerSteps
<1>4. Grows
  BY <1>2, <1>3, SameLog
<1>5. PICK st : st = Consumed(m)[m]
  OBVIOUS
<1>6. /\ st \in MemberStates /\ st.in = member[m].in /\ st.pos = member[m].pos /\ st.head = member[m].head
      /\ member' = [member EXCEPT ![m] = st]
      /\ ToSet(member[m].batch) = {NextRecord(m)} \cup ToSet(st.batch)
  BY <1>2, <1>3, <1>5, Batches
<1>7. PICK v : v = server[s]
  OBVIOUS
<1>8. /\ v \in [pc : {"serving", "dead", "gone"}, todo : Seq(SoundRecords)]
      /\ server' = [server EXCEPT ![s] = v]
  BY <1>2, <1>3, <1>7 DEF TypeInv, ServersInv
<1>9. ASSUME NEW r \in SoundRecords, InHand(s, r)
      PROVE  InHand(s, r)' \/ Settled(r)'
  <2>1. member'[m] = st
    BY <1>3, <1>6 DEF TypeInv, MembersInv
  <2>2. CASE AuthResponseMsg(r.id, r.of) \in ToSet(server[s].todo)
    <3>1. AuthResponseMsg(r.id, r.of)' \in ToSet(server'[s].todo)
      BY <1>2, <2>2 DEF AuthResponseMsg, Record
    <3> QED BY <3>1 DEF InHand
  <2>3. CASE r \in ToSet(st.batch)
    <3>1. r \in ToSet(member'[Serving(s)].batch)
      BY <1>1, <2>1, <2>3
    <3> QED BY <3>1 DEF InHand
  <2>4. CASE r = NextRecord(m)
    <3>1. r.type # "AuthRequest"
      BY <1>2, <2>4 DEF IsAuthRequest, Unmarshals
    <3> QED BY <3>1 DEF Settled
  <2> QED BY <1>1, <1>6, <1>9, <2>2, <2>3, <2>4 DEF InHand
<1>10. faults' \in Seq(world'.faults)
  BY <1>2, <1>3 DEF TypeInv
<1>11. /\ st.in = member[Serving(s)].in /\ st.pos = member[Serving(s)].pos
       /\ st.head = member[Serving(s)].head /\ member' = [member EXCEPT ![Serving(s)] = st]
  BY <1>1, <1>6
<1> QED
  BY <1>2, <1>4, <1>6, <1>8, <1>9, <1>10, <1>11, GoesOn

(* An answer to a request is sound, and so is what a glitch adds. *)
LEMMA SoundResponses ==
  ASSUME TypeInv, NEW r \in SoundRecords, r.type = "AuthRequest", NEW rs \in Responses(r)
  PROVE  rs \in Seq(SoundRecords) /\ AuthResponseMsg(r.id, r.of) \in ToSet(rs)
<1>1. /\ r.of \in Clients /\ r.id = world.id[r.of] /\ r.id \in Ids \cup {Nil}
  BY DEF SoundRecords, IsSound
<1>2. PICK echo : echo = AuthResponseMsg(r.id, r.of)
  OBVIOUS
<1>3. echo \in SoundRecords
  <2>1. echo = [type |-> "AuthResponse", id |-> r.id, of |-> r.of]
    BY <1>2 DEF AuthResponseMsg, Record
  <2>2. IsSound(echo)
    BY <1>1, <2>1 DEF IsSound
  <2> QED BY <1>1, <2>1, <2>2 DEF SoundRecords
<1>4. CASE ~world.glitch
  <2>1. rs = <<echo>>
    BY <1>2, <1>4 DEF Responses, CorrelationID
  <2>2. rs \in Seq(SoundRecords) /\ 1 \in DOMAIN rs /\ rs[1] = echo
    BY <1>3, <2>1
  <2> QED BY <1>2, <2>2 DEF ToSet
<1>5. CASE world.glitch
  <2>1. PICK x : x \in SoundRecords /\ rs = <<x, echo>>
    <3>1. CASE rs = <<Record("foo", r.id, Nil), echo>>
      <4>1. PICK x : x = [type |-> "foo", id |-> r.id, of |-> Nil]
        OBVIOUS
      <4>2. IsSound(x)
        BY <4>1 DEF IsSound
      <4>3. x \in SoundRecords /\ x = Record("foo", r.id, Nil)
        BY <1>1, <4>1, <4>2 DEF SoundRecords, Record
      <4> QED BY <3>1, <4>3
    <3>2. CASE \E i \in Ids : rs = <<AuthResponseMsg(i, Nil), echo>>
      <4>1. PICK i \in Ids : rs = <<AuthResponseMsg(i, Nil), echo>>
        BY <3>2
      <4>2. PICK x : x = [type |-> "AuthResponse", id |-> i, of |-> Nil]
        OBVIOUS
      <4>3. IsSound(x)
        BY <1>5, <4>2 DEF IsSound
      <4>4. x \in SoundRecords /\ x = AuthResponseMsg(i, Nil)
        BY <4>2, <4>3 DEF SoundRecords, AuthResponseMsg, Record
      <4> QED BY <4>1, <4>4
    <3> QED BY <1>2, <1>5, <3>1, <3>2 DEF Responses, CorrelationID
  <2>2. rs \in Seq(SoundRecords) /\ 2 \in DOMAIN rs /\ rs[2] = echo
    BY <1>3, <2>1
  <2> QED BY <1>2, <2>2 DEF ToSet
<1> QED
  BY <1>4, <1>5

LEMMA HandleAuthRequestInv == ASSUME Inv, NEW s \in Servers, HandleAuthRequest(s) PROVE Inv'
<1>1. PICK m : m = Serving(s)
  OBVIOUS
<1>2. PICK rs \in Responses(NextRecord(m)) : server' = [server EXCEPT ![s].todo = rs]
  BY <1>1 DEF HandleAuthRequest
<1>3. /\ server[s].pc = "serving" /\ server[s].todo = <<>> /\ member[m].batch # <<>>
      /\ IsAuthRequest(NextRecord(m)) /\ member' = Consumed(m)
      /\ UNCHANGED <<world, log, committed, owner, client, faults>>
  BY <1>1 DEF HandleAuthRequest, Reading
<1>4. TypeInv /\ m \in Members
  BY <1>1, ServerSteps
<1>5. Grows
  BY <1>3, <1>4, SameLog
<1>6. PICK st : st = Consumed(m)[m]
  OBVIOUS
<1>7. /\ st \in MemberStates /\ st.in = member[m].in /\ st.pos = member[m].pos /\ st.head = member[m].head
      /\ member' = [member EXCEPT ![m] = st]
      /\ ToSet(member[m].batch) = {NextRecord(m)} \cup ToSet(st.batch)
      /\ NextRecord(m) \in SoundRecords
  BY <1>3, <1>4, <1>6, Batches
<1>8. PICK a : a = NextRecord(m)
  OBVIOUS
<1>9. rs \in Seq(SoundRecords) /\ AuthResponseMsg(a.id, a.of) \in ToSet(rs)
  <2>1. a.type = "AuthRequest"
    BY <1>3, <1>8 DEF IsAuthRequest
  <2> QED BY <1>2, <1>4, <1>7, <1>8, <2>1, SoundResponses
<1>10. PICK v : v = [server[s] EXCEPT !.todo = rs]
  OBVIOUS
<1>11. /\ v \in [pc : {"serving", "dead", "gone"}, todo : Seq(SoundRecords)] /\ v.todo = rs
       /\ server' = [server EXCEPT ![s] = v] /\ server'[s] = v
  <2>1. server \in [Servers -> [pc : {"idle", "serving", "dead", "gone"}, todo : Seq(SoundRecords)]]
    BY <1>4 DEF TypeInv, ServersInv
  <2> QED BY <1>2, <1>3, <1>9, <1>10, <2>1
<1>12. ASSUME NEW r \in SoundRecords, InHand(s, r)
       PROVE  InHand(s, r)' \/ Settled(r)'
  <2>1. member'[m] = st
    BY <1>4, <1>7 DEF TypeInv, MembersInv
  <2>2. r \in ToSet(member[m].batch)
    BY <1>1, <1>3, <1>12, EmptySet DEF InHand
  <2>3. CASE r \in ToSet(st.batch)
    <3>1. r \in ToSet(member'[Serving(s)].batch)
      BY <1>1, <2>1, <2>3
    <3> QED BY <3>1 DEF InHand
  <2>4. CASE r = a
    <3>1. AuthResponseMsg(r.id, r.of) \in ToSet(server'[s].todo)
      BY <1>9, <1>11, <2>4
    <3>2. AuthResponseMsg(r.id, r.of)' = AuthResponseMsg(r.id, r.of)
      BY DEF AuthResponseMsg, Record
    <3> QED BY <3>1, <3>2 DEF InHand
  <2> QED BY <1>7, <1>8, <2>2, <2>3, <2>4
<1>13. faults' \in Seq(world'.faults)
  BY <1>3, <1>4 DEF TypeInv
<1>14. /\ st.in = member[Serving(s)].in /\ st.pos = member[Serving(s)].pos
       /\ st.head = member[Serving(s)].head /\ member' = [member EXCEPT ![Serving(s)] = st]
  BY <1>1, <1>7
<1> QED
  BY <1>3, <1>5, <1>7, <1>11, <1>12, <1>13, <1>14, GoesOn

LEMMA SameMember ==
  ASSUME TypeInv, NEW m \in Members, UNCHANGED member
  PROVE  \E st \in MemberStates : st = member[m] /\ member' = [member EXCEPT ![m] = st]
BY DEF TypeInv, MembersInv

LEMMA PublishResponseInv == ASSUME Inv, NEW s \in Servers, PublishResponse(s) PROVE Inv'
<1>1. PICK b : b = server[s].todo
  OBVIOUS
<1>2. /\ server[s].pc = "serving" /\ b # <<>>
      /\ log' \in Publish(world.serverEnv[s], Head(b))
      /\ UNCHANGED <<world, committed, owner, member, client, faults>>
  BY <1>1 DEF PublishResponse
<1>3. /\ TypeInv /\ Serving(s) \in Members /\ b \in Seq(SoundRecords)
      /\ world.serverEnv[s] \in Envs
  BY <1>1, <1>2, ServerSteps
<1>4. PICK a, t : a = Head(b) /\ t = Tail(b)
  OBVIOUS
<1>5. a \in SoundRecords /\ t \in Seq(SoundRecords) /\ ToSet(b) = {a} \cup ToSet(t)
  BY <1>2, <1>3, <1>4, TailSet
<1>6. PICK e \in Envs : e = world.serverEnv[s]
  BY <1>3
<1>7. Grows /\ \E p \in Partitions : a \in ToSet(Read(e, p)')
  <2>1. log' \in Publish(e, a)
    BY <1>2, <1>4, <1>6
  <2> QED BY <1>2, <1>3, <1>5, <2>1, Published
<1>8. PICK st \in MemberStates :
        st = member[Serving(s)] /\ member' = [member EXCEPT ![Serving(s)] = st]
  BY <1>2, <1>3, SameMember
<1>9. PICK v : v = [server[s] EXCEPT !.todo = t]
  OBVIOUS
<1>10. /\ v \in [pc : {"serving", "dead", "gone"}, todo : Seq(SoundRecords)] /\ v.todo = t
       /\ server' = [server EXCEPT ![s] = v] /\ server'[s] = v
  <2>1. server \in [Servers -> [pc : {"idle", "serving", "dead", "gone"}, todo : Seq(SoundRecords)]]
    BY <1>3 DEF TypeInv, ServersInv
  <2>2. server' = [server EXCEPT ![s].todo = t]
    BY <1>1, <1>4 DEF PublishResponse
  <2> QED BY <1>2, <1>5, <1>9, <2>1, <2>2
<1>11. ASSUME NEW r \in SoundRecords, InHand(s, r)
       PROVE  InHand(s, r)' \/ Settled(r)'
  <2>1. PICK x : x = AuthResponseMsg(r.id, r.of) /\ x = AuthResponseMsg(r.id, r.of)'
    BY DEF AuthResponseMsg, Record
  <2>2. CASE r \in ToSet(member[Serving(s)].batch)
    BY <1>2, <2>2 DEF InHand, Serving
  <2>3. CASE x \in ToSet(t)
    <3>1. x \in ToSet(server'[s].todo)
      BY <1>10, <2>3
    <3> QED BY <2>1, <3>1 DEF InHand
  <2>4. CASE x = a
    <3>1. PICK p \in Partitions : x \in ToSet(Read(e, p)')
      BY <1>7, <2>4
    <3>2. AuthChannelAddress(e) \in DOMAIN log'
      BY <1>7 DEF Grows, LogInv, Topics
    <3>3. Read(e, p)' = log'[AuthChannelAddress(e)][p]
      BY DEF Read, AuthChannelAddress
    <3>4. r.type = "AuthRequest" => r.id = world'.id[r.of]
      BY <1>2 DEF SoundRecords, IsSound
    <3>5. ASSUME r.type = "AuthRequest"
          PROVE  Answered(r.of)'
      <4>1. x = AuthResponseMsg(world.id[r.of], r.of)'
        BY <2>1, <3>4, <3>5 DEF AuthResponseMsg, Record
      <4> QED BY <3>1, <3>2, <3>3, <4>1 DEF Answered
    <3> QED BY <3>5 DEF Settled
  <2> QED BY <1>1, <1>5, <1>11, <2>1, <2>2, <2>3, <2>4 DEF InHand
<1>12. faults' \in Seq(world'.faults)
  BY <1>2, <1>3 DEF TypeInv
<1> QED
  BY <1>2, <1>7, <1>8, <1>10, <1>11, <1>12, GoesOn

LEMMA ServerDies ==
  ASSUME Inv, NEW s \in Servers, server' = [server EXCEPT ![s] = [pc |-> "dead", todo |-> <<>>]]
  PROVE  \E v \in [pc : {"serving", "dead", "gone"}, todo : Seq(SoundRecords)] :
           /\ v.pc = "dead" /\ server' = [server EXCEPT ![s] = v] /\ server'[s] = v
<1>1. PICK none : none = <<>>
  OBVIOUS
<1>2. none \in Seq(SoundRecords)
  BY <1>1
<1>3. PICK v : v = [pc |-> "dead", todo |-> none]
  OBVIOUS
<1>4. v \in [pc : {"serving", "dead", "gone"}, todo : Seq(SoundRecords)] /\ v.pc = "dead"
  BY <1>2, <1>3
<1>5. server' = [server EXCEPT ![s] = v] /\ s \in DOMAIN server
  BY <1>1, <1>3 DEF Inv, TypeInv, ServersInv
<1> QED
  BY <1>4, <1>5

LEMMA ServerCrashesInv == ASSUME Inv, NEW s \in Servers, ServerCrashes(s) PROVE Inv'
<1>1. /\ server[s].pc = "serving" /\ Fault("crash")
      /\ server' = [server EXCEPT ![s] = [pc |-> "dead", todo |-> <<>>]]
      /\ UNCHANGED <<world, log, committed, owner, member, client>>
  BY DEF ServerCrashes
<1>2. TypeInv /\ Serving(s) \in Members
  BY ServerSteps
<1>3. faults' \in Seq(world'.faults) /\ ToSet(faults) \subseteq ToSet(faults')
  BY <1>1, <1>2, Faulty
<1>4. Grows
  BY <1>1, <1>2, <1>3, SameLog
<1>5. PICK st \in MemberStates :
        st = member[Serving(s)] /\ member' = [member EXCEPT ![Serving(s)] = st]
  BY <1>1, <1>2, SameMember
<1>6. PICK v \in [pc : {"serving", "dead", "gone"}, todo : Seq(SoundRecords)] :
        v.pc = "dead" /\ server' = [server EXCEPT ![s] = v] /\ server'[s] = v
  BY <1>1, ServerDies
<1> QED
  BY <1>1, <1>3, <1>4, <1>5, <1>6, GoesOn

(* Whoever cannot answer goes down, and the records of its last poll are   *)
(* settled by that.                                                        *)
LEMMA PublishFailsInv == ASSUME Inv, NEW s \in Servers, PublishFails(s) PROVE Inv'
<1>1. PICK m : m = Serving(s)
  OBVIOUS
<1>2. /\ server[s].pc = "serving" /\ Fault("publish")
      /\ server' = [server EXCEPT ![s] = [pc |-> "dead", todo |-> <<>>]]
      /\ member' = Cancelled(m) /\ Commits(Serving(s), member[m].pos)
      /\ UNCHANGED <<world, log, owner, client>>
  BY <1>1 DEF PublishFails
<1>3. TypeInv /\ m \in Members /\ member[m] \in MemberStates
  BY <1>1, ServerSteps
<1>4. faults' \in Seq(world'.faults) /\ ToSet(faults) \subseteq ToSet(faults')
      /\ "publish" \in ToSet(faults')
  BY <1>2, <1>3, Faulty
<1>5. Grows
  BY <1>2, <1>3, <1>4, SameLog
<1>6. PICK st : st = Cancelled(m)[m]
  OBVIOUS
<1>7. /\ st \in MemberStates /\ st.in = member[m].in
      /\ st.head = member[m].pos /\ st.pos = member[m].pos
      /\ member' = [member EXCEPT ![m] = st]
  BY <1>2, <1>3, <1>6, Batches
<1>8. PICK v \in [pc : {"serving", "dead", "gone"}, todo : Seq(SoundRecords)] :
        v.pc = "dead" /\ server' = [server EXCEPT ![s] = v] /\ server'[s] = v
  BY <1>2, ServerDies
<1>9. PICK pos \in [Partitions -> Nat] : pos = member[m].pos
  BY <1>3 DEF MemberStates
<1>10. ASSUME NEW p \in Partitions, Owns(s, p)
       PROVE  SettledTo(world.serverEnv[s], p, pos[p])' /\ ReadAt(s, p, pos[p])'
  <2>1. ReadAt(s, p, pos[p])
    BY <1>1, <1>9, <1>10 DEF Inv, ServingInv, ReadInv
  <2>2. PICK old : old = Read(world.serverEnv[s], p)
    OBVIOUS
  <2>3. pos[p] <= Len(old) /\ Read(world.serverEnv[s], p)' = old
    BY <1>2, <2>1, <2>2 DEF ReadAt, Read, AuthChannelAddress
  <2>4. \A r : Settled(r)'
    BY <1>4 DEF Settled
  <2>5. server'[s].pc # "serving"
    BY <1>8
  <2>6. SettledTo(world.serverEnv[s], p, pos[p])'
    BY <2>3, <2>4 DEF SettledTo
  <2>7. ReadAt(s, p, pos[p])'
    BY <2>3, <2>5 DEF ReadAt
  <2> QED BY <2>6, <2>7
<1>11. CommittedInv' /\ committed' \in [Groups -> [Partitions -> Nat]]
  <2>1. Commits(Serving(s), pos)
    BY <1>2, <1>9
  <2>2. server[s].pc # "idle"
    BY <1>2
  <2> QED BY <1>5, <1>10, <2>1, <2>2, CommitsSettled
<1>12. /\ \A p \in Partitions : st.head[p] = pos[p] /\ st.pos[p] = pos[p]
       /\ st.in = member[Serving(s)].in /\ member' = [member EXCEPT ![Serving(s)] = st]
  BY <1>1, <1>7, <1>9
<1>13. \A p \in Partitions : Owns(s, p) =>
         SettledTo(world.serverEnv[s], p, st.head[p])' /\ ReadAt(s, p, st.pos[p])'
  BY <1>10, <1>12
<1> QED
  BY <1>2, <1>4, <1>5, <1>7, <1>8, <1>11, <1>12, <1>13, ServerMoves

-----------------------------------------------------------------------------
(* Polls *)

LEMMA RestOf ==
  ASSUME NEW S, NEW all \in Seq(S), NEW n \in Nat, n <= Len(all)
  PROVE  /\ SubSeq(all, n + 1, Len(all)) \in Seq(S)
         /\ \A i \in 1 .. Len(all) : i <= n \/ all[i] \in ToSet(SubSeq(all, n + 1, Len(all)))
<1>1. PICK t : t = SubSeq(all, n + 1, Len(all))
  OBVIOUS
<1>2. /\ t \in Seq(S) /\ Len(t) = Len(all) - n /\ DOMAIN t = 1 .. Len(all) - n
      /\ \A k \in 1 .. Len(all) - n : t[k] = all[n + k]
  BY <1>1
<1>3. ASSUME NEW i \in 1 .. Len(all), ~(i <= n)
      PROVE  all[i] \in ToSet(t)
  <2>1. PICK k \in 1 .. Len(all) - n : k = i - n
    BY <1>3
  <2>2. t[k] = all[i] /\ k \in DOMAIN t
    BY <1>2, <2>1
  <2> QED BY <2>2 DEF ToSet
<1> QED
  BY <1>1, <1>2, <1>3

(* What a poll of partition p leaves its member with. *)
LEMMA PolledState ==
  ASSUME TypeInv, NEW m \in Members, NEW e \in Envs, TopicOf(GroupOf(m)) = AuthChannelAddress(e),
         NEW p \in Partitions, Unread(m, p)
  PROVE  \E st \in MemberStates :
           /\ st = Polled(m, p) /\ st.in = member[m].in /\ st.head = member[m].pos
           /\ st.pos[p] = Len(Read(e, p))
           /\ \A q \in Partitions \ {p} : st.pos[q] = member[m].pos[q]
           /\ \A i \in 1 .. Len(Read(e, p)) :
                i <= member[m].pos[p] \/ Read(e, p)[i] \in ToSet(st.batch)
<1>1. PICK all \in Seq(SoundRecords) : all = Read(e, p) /\ all = log[TopicOf(GroupOf(m))][p]
  BY ReadType DEF TypeInv, Read
<1>2. PICK w : w = member[m] /\ w \in MemberStates
  BY DEF TypeInv, MembersInv
<1>3. PICK pos \in [Partitions -> Nat] : pos = w.pos
  BY <1>2 DEF MemberStates
<1>4. pos[p] < Len(all) /\ Len(all) \in Nat /\ pos[p] \in Nat
  BY <1>1, <1>2, <1>3 DEF Unread
<1>5. PICK b : b = SubSeq(all, pos[p] + 1, Len(all))
  OBVIOUS
<1>6. b \in Seq(SoundRecords) /\ \A i \in 1 .. Len(all) : i <= pos[p] \/ all[i] \in ToSet(b)
  BY <1>4, <1>5, RestOf
<1>7. PICK new : new = [pos EXCEPT ![p] = Len(all)]
  OBVIOUS
<1>8. /\ new \in [Partitions -> Nat] /\ new[p] = Len(all)
      /\ \A q \in Partitions \ {p} : new[q] = pos[q]
  BY <1>4, <1>7
<1>9. PICK x : x = [w EXCEPT !.head = pos]
  OBVIOUS
<1>10. x \in MemberStates /\ x.in = w.in /\ x.head = pos /\ x.pos = pos
  BY <1>2, <1>3, <1>9 DEF MemberStates
<1>11. PICK y : y = [x EXCEPT !.pos = new]
  OBVIOUS
<1>12. y \in MemberStates /\ y.in = w.in /\ y.head = pos /\ y.pos = new
  BY <1>8, <1>10, <1>11 DEF MemberStates
<1>13. PICK st : st = [y EXCEPT !.batch = b]
  OBVIOUS
<1>14. st \in MemberStates /\ st.in = w.in /\ st.head = pos /\ st.pos = new /\ st.batch = b
  BY <1>6, <1>12, <1>13 DEF MemberStates
<1>15. st = Polled(m, p)
  <2>1. Polled(m, p) = [w EXCEPT !.head = pos, !.pos[p] = Len(all), !.batch = b]
    BY <1>1, <1>2, <1>3, <1>5 DEF Polled
  <2>2. [w EXCEPT !.head = pos, !.pos[p] = Len(all), !.batch = b]
          = [[[w EXCEPT !.head = pos] EXCEPT !.pos[p] = Len(all)] EXCEPT !.batch = b]
    OBVIOUS
  <2>3. [x EXCEPT !.pos[p] = Len(all)] = y
    BY <1>7, <1>10, <1>11
  <2> QED BY <1>9, <1>13, <2>1, <2>2, <2>3
<1> QED
  BY <1>1, <1>2, <1>3, <1>6, <1>8, <1>14, <1>15

LEMMA PollInv == ASSUME Inv, NEW m \in Members, Alive(m), Poll(m) PROVE Inv'
<1>1. PICK p \in Partitions : Unread(m, p) /\ member' = [member EXCEPT ![m] = Polled(m, p)]
  BY DEF Poll
<1>2. /\ member[m].in /\ member[m].batch = <<>> /\ Commits(m, member[m].pos)
      /\ UNCHANGED <<world, log, owner, client, server, faults>>
  BY DEF Poll
<1>3. TypeInv /\ EnvInv /\ OwnerInv /\ ServingInv
  BY DEF Inv
<1>4. Grows
  BY <1>2, <1>3, SameLog
<1>5. CASE m[2] = "awaiting"
  <2>1. PICK c \in Clients : m = Awaiting(c)
    BY <1>5 DEF Members, Publishing, Awaiting, Serving
  <2>2. TopicOf(GroupOf(m)) = AuthChannelAddress(Dev) /\ Dev \in Envs
    BY <1>5, WorldsAssumption DEF TopicOf, GroupOf
  <2>3. PICK st \in MemberStates : st = Polled(m, p) /\ st.in = member[m].in
    BY <1>1, <1>3, <2>2, PolledState
  <2>4. /\ committed' = committed /\ st.in = member[Awaiting(c)].in
        /\ member' = [member EXCEPT ![Awaiting(c)] = st]
    BY <1>1, <1>2, <1>5, <2>1, <2>3 DEF Commits
  <2>5. ClientsOK'
    BY <1>2, ClientsStay
  <2> QED BY <1>2, <2>4, <2>5, ClientReads
<1>6. CASE m[2] = "serving" /\ server[m[1]].pc = "serving" /\ server[m[1]].todo = <<>>
  <2>1. PICK s \in Servers : m = Serving(s) /\ server[s].pc = "serving" /\ server[s].todo = <<>>
    BY <1>6 DEF Members, Publishing, Awaiting, Serving
  <2>2. PICK e \in Envs : e = world.serverEnv[s]
    BY <2>1, ServerSteps
  <2>3. GroupOf(m) = <<"server", e>> /\ TopicOf(GroupOf(m)) = AuthChannelAddress(e)
    BY <1>3, <2>1, <2>2, ServerMembers DEF TopicOf
  <2>4. PICK st \in MemberStates :
          /\ st = Polled(m, p) /\ st.in = member[m].in /\ st.head = member[m].pos
          /\ st.pos[p] = Len(Read(e, p))
          /\ \A q \in Partitions \ {p} : st.pos[q] = member[m].pos[q]
          /\ \A i \in 1 .. Len(Read(e, p)) :
               i <= member[m].pos[p] \/ Read(e, p)[i] \in ToSet(st.batch)
    BY <1>1, <1>3, <2>3, PolledState
  <2>5. PICK pos \in [Partitions -> Nat] : pos = member[m].pos
    BY <1>3 DEF TypeInv, MembersInv, MemberStates
  <2>6. /\ member' = [member EXCEPT ![m] = st] /\ member'[m] = st
    BY <1>1, <1>3, <2>4 DEF TypeInv, MembersInv
  (* There is nothing in its hands when it polls. *)
  <2>7. ASSUME NEW q \in Partitions, Owns(s, q)
        PROVE  SettledTo(e, q, pos[q])
    <3>1. ReadAt(s, q, pos[q])
      BY <1>3, <2>1, <2>5, <2>7 DEF ServingInv, ReadInv
    <3>2. \A r : ~InHand(s, r)
      BY <1>2, <2>1, EmptySet DEF InHand
    <3> QED BY <2>1, <2>2, <3>1, <3>2 DEF ReadAt, SettledTo
  <2>8. ASSUME NEW q \in Partitions, Owns(s, q)
        PROVE  SettledTo(e, q, pos[q])'
    BY <1>3, <1>4, <2>7, <2>8, StaysSettledTo
  <2>9. CommittedInv' /\ committed' \in [Groups -> [Partitions -> Nat]]
    <3>1. Commits(Serving(s), pos) /\ server[s].pc # "idle"
      BY <1>2, <2>1, <2>5
    <3>2. \A q \in Partitions : Owns(s, q) => SettledTo(world.serverEnv[s], q, pos[q])'
      BY <1>2, <2>2, <2>8
    <3> QED BY <1>4, <3>1, <3>2, CommitsSettled
  <2>10. ASSUME NEW q \in Partitions, Owns(s, q)
         PROVE  ReadAt(s, q, st.pos[q])'
    <3>1. CASE q # p
      <4>1. st.pos[q] = pos[q]
        BY <2>4, <2>5, <3>1
      <4>2. SettledTo(world.serverEnv[s], q, pos[q])'
        BY <1>2, <2>2, <2>8, <2>10
      <4>3. ReadAt(s, q, pos[q])'
        BY <4>2 DEF SettledTo, ReadAt
      <4> QED BY <4>1, <4>3
    <3>2. CASE q = p
      <4>1. PICK all \in Seq(SoundRecords) : all = Read(e, p)
        BY <1>3, ReadType DEF TypeInv
      <4>2. /\ Read(world.serverEnv[s], p)' = all /\ Len(all) \in Nat
            /\ Len(all) <= Len(all) /\ st.pos[q] = Len(all)
        BY <1>2, <2>2, <2>4, <3>2, <4>1 DEF Read, AuthChannelAddress
      <4>3. ASSUME NEW i \in 1 .. Len(all)
            PROVE  Settled(all[i])' \/ InHand(s, all[i])'
        <5>1. PICK r : r = all[i]
          OBVIOUS
        <5>2. CASE i <= pos[p]
          <6>1. i \in 1 .. pos[p]
            BY <4>2, <5>2
          <6>2. Settled(r)
            BY <2>7, <2>10, <3>2, <4>1, <5>1, <6>1 DEF SettledTo
          <6> QED BY <1>3, <1>4, <5>1, <6>2, StaysSettled
        <5>3. CASE r \in ToSet(st.batch)
          <6>1. r \in ToSet(member'[Serving(s)].batch)
            BY <2>1, <2>6, <5>3
          <6> QED BY <5>1, <6>1 DEF InHand
        <5> QED BY <2>4, <2>5, <4>1, <5>1, <5>2, <5>3
      <4>4. PICK n : n = Len(all) /\ n = st.pos[q]
        BY <4>2
      <4>5. ReadAt(s, q, n)'
        BY <3>2, <4>2, <4>3, <4>4 DEF ReadAt
      <4> QED BY <4>4, <4>5
    <3> QED BY <3>1, <3>2
  <2>11. \A q \in Partitions : Owns(s, q) =>
           SettledTo(world.serverEnv[s], q, st.head[q])' /\ ReadAt(s, q, st.pos[q])'
    <3>1. ASSUME NEW q \in Partitions, Owns(s, q)
          PROVE  SettledTo(world.serverEnv[s], q, st.head[q])'
      <4>1. st.head[q] = pos[q]
        BY <2>4, <2>5
      <4>2. SettledTo(world.serverEnv[s], q, pos[q])'
        BY <1>2, <2>2, <2>8, <3>1
      <4> QED BY <4>1, <4>2
    <3> QED BY <2>10, <3>1
  <2>12. PICK v : v = server[s]
    OBVIOUS
  <2>13. /\ v \in [pc : {"serving", "dead", "gone"}, todo : Seq(SoundRecords)]
         /\ server' = [server EXCEPT ![s] = v]
    BY <1>2, <1>3, <2>1, <2>12 DEF TypeInv, ServersInv
  <2>14. /\ st.in = member[Serving(s)].in /\ member' = [member EXCEPT ![Serving(s)] = st]
         /\ server[s].pc # "idle" /\ faults' \in Seq(world'.faults)
    BY <1>2, <1>3, <2>1, <2>4, <2>6 DEF TypeInv
  <2> QED BY <1>2, <1>4, <2>9, <2>11, <2>13, <2>14, ServerMoves
<1> QED
  BY <1>5, <1>6 DEF Alive

LEMMA GarbageInv == ASSUME Inv, Garbage PROVE Inv'
<1>1. /\ Fault("garbage") /\ log' \in Publish(Dev, Record("garbage", Nil, Nil))
      /\ UNCHANGED <<world, committed, owner, member, client, server>>
  BY DEF Garbage
<1>2. TypeInv /\ EnvInv /\ OwnerInv /\ ServingInv
  BY DEF Inv
<1>3. faults' \in Seq(world'.faults) /\ ToSet(faults) \subseteq ToSet(faults')
  BY <1>1, <1>2, Faulty
<1>4. PICK r : r = Record("garbage", Nil, Nil)
  OBVIOUS
<1>5. r \in SoundRecords
  <2>1. r = [type |-> "garbage", id |-> Nil, of |-> Nil]
    BY <1>4 DEF Record
  <2>2. IsSound(r)
    BY <2>1 DEF IsSound
  <2> QED BY <2>1, <2>2 DEF SoundRecords
<1>6. Grows
  BY <1>1, <1>2, <1>3, <1>4, <1>5, Published, WorldsAssumption
<1>7. ServersStill
  BY <1>1 DEF ServersStill, Serving
<1>8. ServingInv'
  BY <1>2, <1>6, <1>7, StillServing
<1>9. GroupsInv' /\ MembersInv' /\ world' \in Worlds /\ LogInv'
  BY <1>1, <1>2, <1>6, SameSound DEF TypeInv, GroupsInv, MembersInv, Grows
<1>10. OwnerInv'
  BY <1>1, <1>2 DEF OwnerInv, GroupOf, Serving
<1> QED
  BY <1>1, <1>3, <1>8, <1>9, <1>10, ClientsStay, ServersStay
     DEF Inv, TypeInv, EnvInv, ClientsOK, ServersOK

LEMMA StutterInv == ASSUME Inv, UNCHANGED vars PROVE Inv'
<1>1. UNCHANGED <<world, log, committed, owner, member, client, server, faults>>
  BY DEF vars
<1>2. TypeInv /\ EnvInv /\ OwnerInv /\ ServingInv
  BY DEF Inv
<1>3. Grows
  BY <1>1, <1>2, SameLog
<1>4. ServersStill
  BY <1>1 DEF ServersStill, Serving
<1>5. ServingInv'
  BY <1>2, <1>3, <1>4, StillServing
<1>6. GroupsInv' /\ MembersInv' /\ world' \in Worlds /\ LogInv' /\ faults' \in Seq(world'.faults)
  BY <1>1, <1>2, <1>3, SameSound DEF TypeInv, GroupsInv, MembersInv, Grows
<1>7. OwnerInv'
  BY <1>1, <1>2 DEF OwnerInv, GroupOf, Serving
<1> QED
  BY <1>1, <1>5, <1>6, <1>7, ClientsStay, ServersStay
     DEF Inv, TypeInv, EnvInv, ClientsOK, ServersOK

-----------------------------------------------------------------------------
(* Theorems *)

LEMMA InitInv == Init => Inv
<1> SUFFICES ASSUME Init PROVE Inv
  OBVIOUS
<1>1. PICK none, zero : none = <<>> /\ zero = [p \in Partitions |-> 0]
  OBVIOUS
<1>2. /\ none \in Seq(SoundRecords) /\ zero \in [Partitions -> Nat] /\ none \in Seq(world.faults)
      /\ Len(none) = 0 /\ \A p \in Partitions : zero[p] = 0
  BY <1>1
<1>3. Idle \in MemberStates /\ ~Idle.in
  <2>1. Idle = [in |-> FALSE, pos |-> zero, head |-> zero, batch |-> none, cancelled |-> FALSE]
    BY <1>1 DEF Idle
  <2> QED BY <2>1, IdleMembers
<1>4. /\ world \in Worlds
      /\ log = [t \in Topics |-> [p \in Partitions |-> none]]
      /\ committed = [g \in Groups |-> zero]
      /\ owner = [g \in Groups |-> [p \in Partitions |-> Nil]]
      /\ member = [m \in Members |-> Idle]
      /\ client = [c \in Clients |-> [pc |-> "idle", got |-> Nil]]
      /\ server = [s \in Servers |-> [pc |-> "idle", todo |-> none]]
      /\ faults = none
  BY <1>1 DEF Init, Topics
<1>5. LogInv /\ GroupsInv
  BY <1>2, <1>4 DEF LogInv, GroupsInv
<1>6. MembersInv
  BY <1>3, <1>4 DEF MembersInv
<1>7. ClientsInv /\ ServersInv
  BY <1>2, <1>4 DEF ClientsInv, ServersInv, ClientPcs
<1>8. TypeInv
  BY <1>2, <1>4, <1>5, <1>6, <1>7 DEF TypeInv
<1>9. EnvInv /\ AnswerInv
  BY <1>4 DEF EnvInv, ClientEnvInv, ServerEnvInv, AnswerInv
<1>10. OwnerInv
  <2>1. \A s \in Servers : ~member[Serving(s)].in
    BY <1>3, <1>4, <1>8, ServerMembers
  <2> QED BY <1>4, <2>1 DEF OwnerInv
<1>11. ServingInv
  <2>1. \A s \in Servers, p \in Partitions : ~Owns(s, p)
    BY <1>4 DEF Owns
  <2>2. ASSUME NEW e \in Envs, NEW p \in Partitions
        PROVE  SettledTo(e, p, committed[<<"server", e>>][p])
    <3>1. committed[<<"server", e>>][p] = 0
      BY <1>2, <1>4, <1>8, CommittedType
    <3>2. Len(Read(e, p)) \in Nat
      BY <1>5, ReadType
    <3> QED BY <3>1, <3>2 DEF SettledTo
  <2> QED BY <2>1, <2>2 DEF ServingInv, CommittedInv, HeadInv, ReadInv
<1> QED
  BY <1>8, <1>9, <1>10, <1>11 DEF Inv

LEMMA NextInv == Inv /\ [Next]_vars => Inv'
<1> SUFFICES ASSUME Inv, [Next]_vars PROVE Inv'
  OBVIOUS
<1>1. ASSUME NEW c \in Clients, OpenRequest(c) \/ ClientStep(c) \/ RequestFails(c) \/ FetchFails(c)
      PROVE  Inv'
  BY <1>1, OpenRequestInv, MakeAuthRequestInv, AwaitAuthResponseInv, IgnoreInv, GetAnswerInv,
     UnsealFailsInv, CloseSubscriberInv, RequestFailsInv, FetchFailsInv DEF ClientStep
<1>2. ASSUME NEW s \in Servers, ServerStep(s) \/ PublishFails(s) \/ ServerCrashes(s)
      PROVE  Inv'
  BY <1>2, StartServerInv, IgnoreOthersInv, HandleAuthRequestInv, PublishResponseInv,
     SessionExpiresInv, PublishFailsInv, ServerCrashesInv DEF ServerStep
<1>3. ASSUME NEW m \in Members, Alive(m) /\ Poll(m)
      PROVE  Inv'
  BY <1>3, PollInv
<1>4. CASE Garbage
  BY <1>4, GarbageInv
<1>5. CASE UNCHANGED vars
  BY <1>5, StutterInv
<1> QED
  BY <1>1, <1>2, <1>3, <1>4, <1>5 DEF Next

THEOREM Invariance == Spec => []Inv
<1>1. Inv /\ [Next]_vars => Inv'
  BY NextInv
<1> QED
  BY InitInv, <1>1, PTL DEF Spec

(* What a client of the site-authorization example ends with was made of   *)
(* its own request, unless another client drew the same ID or the server   *)
(* is in glitch mode: for any number of clients, servers and partitions,   *)
(* in whatever order rebalances, crashes and failures happen.              *)
THEOREM OwnAnswers == Spec => []EndsWithOwnAnswer
<1>1. Inv => EndsWithOwnAnswer
  <2> SUFFICES ASSUME Inv, NEW c \in Clients,
                      client[c].pc \in {"answered", "done"} /\ client[c].got.of # c
               PROVE  world.glitch \/ \E x \in Clients \ {c} : world.id[x] = world.id[c]
    BY DEF EndsWithOwnAnswer
  <2>1. PICK r \in SoundRecords : r = client[c].got /\ r.type = "AuthResponse" /\ r.id = world.id[c]
    BY DEF Inv, AnswerInv
  <2>2. (r.of = Nil /\ world.glitch) \/ (r.of \in Clients /\ r.id = world.id[r.of])
    BY <2>1 DEF SoundRecords, IsSound
  <2> QED BY <2>1, <2>2
<1> QED
  BY Invariance, <1>1, PTL

(* A request that the offset committed for the servers' group has passed   *)
(* was answered, or a server could not publish an answer and ended: polls, *)
(* commits, rebalances and crashes may repeat answers, never lose one.     *)
THEOREM NothingForgotten == Spec => []NoRequestIsForgotten
<1>1. Inv => NoRequestIsForgotten
  BY DEF Inv, ServingInv, CommittedInv, SettledTo, Settled, Read, NoRequestIsForgotten
<1> QED
  BY Invariance, <1>1, PTL
=============================================================================
