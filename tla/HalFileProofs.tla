--------------------------- MODULE HalFileProofs ---------------------------
(***************************************************************************)
(* Proofs about file descriptors and devices, for every number of threads, *)
(* every size of the pool, every set of devices and file systems and       *)
(* whatever they provide, and every sequence of calls.                     *)
(***************************************************************************)
EXTENDS HalFile, WellFoundedInduction, TLAPS

\* Where a thread is: inside open() before and after it has a descriptor, in
\* alt_release_fd, in alt_fd_lock, in fcntl().
Searching == {"get_pend", "get", "take"}
Opened    == {"flags", "locked", "open_cb", "copy", "stat"}
Opening   == Searching \cup Opened
Releasing == {"rel_flags", "rel_dev"}
Locking   == {"lock_pend", "lock"}
Setting   == {"set_clear", "set_load", "set_store"}

Entries == [dev : Devs \cup {NoDev}, flags : SUBSET AllFlags]
Slots == Streams \cup {"client", "stat"}
Locals == [dev : Devs \cup {NoDev}, fd : Fds \cup {-1}, i : Nat,
           flags : SUBSET AllFlags, isafs : BOOLEAN, slot : Slots]
Todos == {<<"register">>, <<"stdout", "stdin", "stderr">>, <<"stdin", "stderr">>,
          <<"stderr">>, << >>}

Types ==
  /\ alt_dev_list \in Seq(Devices \cup {Null}) /\ alt_fs_list \in Seq(Filesystems)
  /\ alt_fd_list \in [Fds -> Entries]
  /\ alt_max_fd \in -1 .. ALT_MAX_FD - 1
  /\ alt_fd_list_lock \in Threads \cup {"free"}
  /\ todo \in Todos
  /\ pc \in [Threads -> Pcs] /\ loc \in [Threads -> Locals]
  /\ held \in [Threads -> SUBSET Fds] /\ granted \in SUBSET Fds

\* One thread at a time is between ALT_SEM_PEND and ALT_SEM_POST.
Semaphore == \A t \in Threads : pc[t] \in {"get", "take", "lock"} => alt_fd_list_lock = t

\* The standard streams are never free.
StreamsInUse == \A f \in 0 .. 2 : alt_fd_list[f].dev # NoDev

\* What the locals of thread t mean where it is.
Works(t) ==
  /\ pc[t] = "idle" => loc[t] = Idle
  /\ pc[t] \in Opening => /\ loc[t].dev # NoDev
                          /\ loc[t].isafs <=> loc[t].dev \in Filesystems
  /\ pc[t] = "get" => loc[t].i \in 0 .. ALT_MAX_FD
  /\ pc[t] = "take" => loc[t].i \in Fds /\ alt_fd_list[loc[t].i].dev = NoDev
  /\ pc[t] \in Opened => /\ loc[t].fd \in Fds /\ loc[t].fd > 2 /\ loc[t].fd <= alt_max_fd
                         /\ alt_fd_list[loc[t].fd].dev = loc[t].dev
  /\ pc[t] \in Releasing \cup Locking \cup Setting => loc[t].fd \in Fds
  /\ pc[t] = "copy" => loc[t].slot \in Streams

Working == \A t \in Threads : Works(t)

\* Until the redirection is over only Main runs, inside alt_open_fd, and no
\* client has a descriptor.
Boots(t) ==
  /\ loc[t].slot \in Streams => /\ t = Main /\ todo # << >> /\ loc[t].slot = Head(todo)
                                /\ pc[t] \in (Opening \cup Releasing) \ {"stat"}
  /\ todo # << >> => /\ held[t] = IF t = Main THEN 0 .. 2 ELSE {}
                     /\ pc[t] # "idle" => loc[t].slot \in Streams

Booting == (todo # << >> => granted = {}) /\ \A t \in Threads : Boots(t)

Base == Types /\ Semaphore /\ StreamsInUse /\ Working /\ Booting /\ PoolConserved

----------------------------------------------------------------------------
(* Locks, when threads use their own descriptors only.                     *)

\* Nobody but its thread changes the flags of a descriptor: what fcntl() has
\* loaded is up to date when it is stored.
Owns(t) ==
  /\ pc[t] \in Locking \cup Setting => loc[t].fd \in held[t]
  /\ pc[t] \in Locking => "DEV" \in alt_fd_list[loc[t].fd].flags
  /\ pc[t] \in {"set_clear", "set_store"} =>
       \A b \in FlagsMask : b \in loc[t].flags <=> b \in alt_fd_list[loc[t].fd].flags
  /\ pc[t] = "flags" => alt_fd_list[loc[t].fd].flags = {}
  /\ pc[t] = "rel_dev" /\ loc[t].fd > 2 => alt_fd_list[loc[t].fd].flags = {}

\* A free descriptor has no flags, and ALT_FD_DEV marks a device.
FlagsRight(f) ==
  /\ f > 2 /\ alt_fd_list[f].dev = NoDev => alt_fd_list[f].flags = {}
  /\ "DEV" \in alt_fd_list[f].flags => /\ alt_fd_list[f].dev \notin Filesystems \cup {NoDev}
                                       /\ f <= alt_max_fd
  /\ f \in granted => /\ {"EXCL", "DEV"} \subseteq alt_fd_list[f].flags
                      /\ \E t \in Threads : f \in held[t]

Exclusive == (\A t \in Threads : Owns(t)) /\ (\A f \in Fds : FlagsRight(f))

SameDevice(f, g) == alt_fd_list[f].dev = alt_fd_list[g].dev

\* Thread t has just taken g and will find the lock of f.
WillSee(t, g, f) ==
  /\ InCall(t) = {g} /\ g > 2
  /\ \/ pc[t] \in {"flags", "rel_flags", "rel_dev"}
     \/ pc[t] = "locked" /\ loc[t].i <= f

\* The scan of alt_fd_lock has found no other descriptor of the device up to
\* i; below a locked descriptor there are only new ones of its device, whose
\* open() will fail.
Scanned(t) ==
  pc[t] = "lock" =>
    \A k \in Fds : k < loc[t].i /\ k # loc[t].fd => ~SameDevice(k, loc[t].fd)
Chased(f) ==
  \A g \in Fds : g < f /\ SameDevice(g, f) => \E t \in Threads : WillSee(t, g, f)

LockOrder == (\A t \in Threads : Scanned(t)) /\ (\A f \in granted : Chased(f))

----------------------------------------------------------------------------
(* The redirection, when the pool has room for a fourth descriptor.        *)

Access == {"WRONLY", "RDWR"}
Direction(s) == IF s = "stdin" THEN {} ELSE {"WRONLY"}

\* Stream s is still to be redirected.
WaitingIn(q, s) == \E k \in 1 .. Len(q) : q[k] \in {s, "register"}

Connected(s, e) ==
  /\ e.dev \in {Requested(s), Null}
  /\ "open" \notin Provides[Requested(s)] => e.dev = Requested(s)
  /\ e.dev # Null => e.flags \cap Access = Direction(s)

\* The open() for stream s has ended, or is at its release.
Handled(s) == ~WaitingIn(todo, s) \/ (loc[Main].slot = s /\ pc[Main] \in Releasing)

\* Main opens the device of stream s, in its direction; the fourth descriptor
\* is free for it.
Redirects(s) ==
  loc[Main].slot = s =>
    /\ pc[Main] \in Opening => loc[Main].dev = Lookup(StdioName[s])
    /\ pc[Main] \in Searching \cup {"flags"} => loc[Main].flags = Direction(s)
    /\ pc[Main] \in {"locked", "open_cb", "copy"} =>
         alt_fd_list[loc[Main].fd].flags \cap Access = Direction(s)
    /\ pc[Main] = "get" => loc[Main].i <= 3

StreamOK(s) ==
  /\ Handled(s) => Connected(s, alt_fd_list[Filno[s]])
  /\ ~Handled(s) => alt_fd_list[Filno[s]].dev = Null
  /\ Redirects(s)

\* fcntl() does not change the direction of a stream.
Keeps(t) ==
  pc[t] \in {"set_clear", "set_store"} /\ loc[t].fd <= 2 =>
    loc[t].flags \cap Access = alt_fd_list[loc[t].fd].flags \cap Access

Redirection ==
  /\ \A s \in Streams : StreamOK(s)
  /\ \A t \in Threads : Keeps(t)
  /\ todo # << >> => \A f \in Fds : "EXCL" \notin alt_fd_list[f].flags

IInv ==
  /\ Base
  /\ ~Shared => Exclusive /\ LockOrder
  /\ ALT_MAX_FD > 3 => Redirection

----------------------------------------------------------------------------
(* Facts about the operators.                                              *)

\* The order of the naturals, as a relation.
NatLess == {p \in Nat \X Nat : p[1] < p[2]}

\* A set of positions that is not empty has a lowest one.
LEMMA MinExists ==
  ASSUME NEW T \in SUBSET Nat, T # {}
  PROVE  Min(T) \in T
<1>0. IsWellFoundedOn(NatLess, Nat)
  BY NatLessThanWellFounded DEF OpToRel, NatLess
<1>1. PICK x \in T : \A y \in T : ~(<<y, x>> \in NatLess)
  BY <1>0, WFMin
<1>2. ASSUME NEW y \in T PROVE x <= y
  <2>1. x \in Nat /\ y \in Nat /\ ~(<<y, x>> \in NatLess)
    BY <1>1
  <2>2. y < x => <<y, x>> \in NatLess
    BY <2>1 DEF NatLess
  <2> QED
    BY <2>1, <2>2
<1>3. \E z \in T : \A y \in T : z <= y
  BY <1>2
<1> QED
  BY <1>3 DEF Min

\* A search of a device list finds an entry of the list, or nothing.
LEMMA FirstMatchFound ==
  ASSUME NEW S, NEW list \in Seq(S), NEW matching
  PROVE  FirstMatch(list, matching) \in S \cup {NoDev}
<1> DEFINE hits == {k \in DOMAIN list : list[k] \in matching}
<1>1. CASE hits = {}
  BY <1>1 DEF FirstMatch
<1>2. CASE hits # {}
  <2>1. DOMAIN list = 1 .. Len(list) /\ Len(list) \in Nat /\ \A k \in 1 .. Len(list) : list[k] \in S
    OBVIOUS
  <2>2. hits \in SUBSET Nat
    BY <2>1
  <2>3. Min(hits) \in hits
    BY <1>2, <2>2, MinExists
  <2> QED
    BY <1>2, <2>1, <2>3 DEF FirstMatch
<1> QED
  BY <1>1, <1>2

\* The device that open() uses comes from the list that it was found in.
LEMMA LookupFound ==
  ASSUME Types, NEW name
  PROVE  /\ Lookup(name) \in Devs \cup {NoDev}
         /\ alt_find_dev(name) # NoDev => Lookup(name) \notin Filesystems
         /\ alt_find_dev(name) = NoDev /\ Lookup(name) # NoDev => Lookup(name) \in Filesystems
<1>1. alt_find_dev(name) \in Devices \cup {Null} \cup {NoDev}
  BY FirstMatchFound DEF Types, alt_find_dev
<1>2. alt_find_file(name) \in Filesystems \cup {NoDev}
  BY FirstMatchFound DEF Types, alt_find_file
<1> QED
  BY <1>1, <1>2, FileAssumption DEF Lookup, Devs

\* A new entry of a list comes before the others.
LEMMA Prepended ==
  ASSUME NEW S, NEW s \in Seq(S), NEW d \in S
  PROVE  <<d>> \o s \in Seq(S)
  OBVIOUS

\* The streams still to open, when the first of them has been.
LEMMA NextStream ==
  ASSUME NEW q \in Todos, NEW s \in Streams, q # << >>, Head(q) = s
  PROVE  /\ Tail(q) \in Todos
         /\ WaitingIn(q, s) /\ ~WaitingIn(Tail(q), s)
         /\ \A r \in Streams : r # s => (WaitingIn(Tail(q), r) <=> WaitingIn(q, r))
<1> USE DEF Todos, Streams
<1>1. CASE q = <<"stdout", "stdin", "stderr">>
  <2>1. s = "stdout" /\ Tail(q) = <<"stdin", "stderr">>
    BY <1>1
  <2> QED
    BY <1>1, <2>1 DEF WaitingIn
<1>2. CASE q = <<"stdin", "stderr">>
  <2>1. s = "stdin" /\ Tail(q) = <<"stderr">>
    BY <1>2
  <2> QED
    BY <1>2, <2>1 DEF WaitingIn
<1>3. CASE q = <<"stderr">>
  <2>1. s = "stderr" /\ Tail(q) = << >>
    BY <1>3
  <2> QED
    BY <1>3, <2>1 DEF WaitingIn
<1>4. q # <<"register">>
  OBVIOUS
<1> QED
  BY <1>1, <1>2, <1>3, <1>4

----------------------------------------------------------------------------
(* The steps.                                                              *)

Startup == alt_dev_reg \/ alt_fs_reg \/ alt_io_redirect

\* A step of thread t; alt_open_fd is one of Main.
Acts(t) ==
  \/ t = Main /\ alt_open_fd
  \/ ClientOpen(t) \/ ClientStat(t) \/ ALT_CLOSE(t)
  \/ IoctlLock(t) \/ alt_fd_unlock(t) \/ ALT_FCNTL(t)
  \/ Inside(t)

\* Every step is one of start up or of one thread.
LEMMA NextActs == Next => Startup \/ \E t \in Threads : Acts(t)
  BY FileAssumption DEF Next, Startup, Acts

\* open() starts with the device it has found, or does nothing.
LEMMA OpenStarts ==
  ASSUME Types, NEW t \in Threads, NEW name, NEW flags \in SUBSET AllFlags,
         NEW slot \in Slots, OpenStart(t, name, flags, slot)
  PROVE  /\ pc[t] = "idle"
         /\ \/ Lookup(name) = NoDev /\ UNCHANGED <<pc, loc>>
            \/ /\ Lookup(name) \in Devs
               /\ pc' = [pc EXCEPT ![t] = "get_pend"]
               /\ \E l \in Locals :
                    /\ loc' = [loc EXCEPT ![t] = l]
                    /\ l.dev = Lookup(name) /\ l.flags = flags /\ l.slot = slot
                    /\ l.isafs <=> l.dev \in Filesystems
                    /\ l.fd = loc[t].fd /\ l.i = loc[t].i
<1>1. Lookup(name) \in Devs \cup {NoDev}
  BY LookupFound
<1>2. CASE Lookup(name) = NoDev
  BY <1>2 DEF OpenStart
<1>3. CASE Lookup(name) # NoDev
  <2> DEFINE l == [loc[t] EXCEPT !.dev = Lookup(name), !.flags = flags, !.slot = slot,
                                 !.isafs = (alt_find_dev(name) = NoDev)]
  <2>1. loc' = [loc EXCEPT ![t] = l] /\ loc[t] \in Locals
    BY <1>3 DEF OpenStart, Types
  <2>2. l \in Locals /\ l.dev = Lookup(name) /\ l.flags = flags /\ l.slot = slot
        /\ l.fd = loc[t].fd /\ l.i = loc[t].i /\ l.isafs = (alt_find_dev(name) = NoDev)
    BY <1>1, <2>1 DEF Locals
  <2>3. l.isafs <=> l.dev \in Filesystems
    BY <1>3, <2>2, LookupFound
  <2> HIDE DEF l
  <2> QED
    BY <1>1, <1>3, <2>1, <2>2, <2>3 DEF OpenStart, Go
<1> QED
  BY <1>2, <1>3

\* Updates of the locals and of the pool keep to their types.
LEMMA LocalUpdates ==
  ASSUME Types, NEW t \in Threads
  PROVE  /\ \A k \in Nat : LookAt(t, k) => loc' \in [Threads -> Locals]
         /\ \A f \in Fds : WorkOn(t, f) => loc' \in [Threads -> Locals]
         /\ \A f \in Fds : \A fl \in SUBSET AllFlags :
              loc' = [loc EXCEPT ![t].fd = f, ![t].flags = fl] => loc' \in [Threads -> Locals]
         /\ \A fl \in SUBSET AllFlags :
              loc' = [loc EXCEPT ![t].flags = fl] => loc' \in [Threads -> Locals]
         /\ Finish(t) => loc' \in [Threads -> Locals] /\ pc' \in [Threads -> Pcs]
         /\ \A p \in Pcs : Go(t, p) => pc' \in [Threads -> Pcs]
         /\ \A f \in Fds : \A fl \in SUBSET AllFlags :
              SetFlags(f, fl) => alt_fd_list' \in [Fds -> Entries]
<1>1. Idle \in Locals
  BY DEF Idle, Locals, Slots
<1>2. loc \in [Threads -> Locals] /\ pc \in [Threads -> Pcs] /\ alt_fd_list \in [Fds -> Entries]
  BY DEF Types
<1>3. "idle" \in Pcs
  BY DEF Pcs
<1>4. \A k \in Nat : LookAt(t, k) => loc' \in [Threads -> Locals]
  BY <1>2 DEF LookAt, Locals
<1>5. \A f \in Fds : WorkOn(t, f) => loc' \in [Threads -> Locals]
  BY <1>2 DEF WorkOn, Locals
<1>6. \A f \in Fds : \A fl \in SUBSET AllFlags :
        loc' = [loc EXCEPT ![t].fd = f, ![t].flags = fl] => loc' \in [Threads -> Locals]
  <2> TAKE f \in Fds
  <2> TAKE fl \in SUBSET AllFlags
  <2>1. [loc[t] EXCEPT !.fd = f, !.flags = fl] \in Locals
    BY <1>2 DEF Locals
  <2>2. [loc EXCEPT ![t].fd = f, ![t].flags = fl] =
          [loc EXCEPT ![t] = [loc[t] EXCEPT !.fd = f, !.flags = fl]]
    BY <1>2
  <2> QED
    BY <1>2, <2>1, <2>2
<1>7. \A fl \in SUBSET AllFlags :
        loc' = [loc EXCEPT ![t].flags = fl] => loc' \in [Threads -> Locals]
  BY <1>2 DEF Locals
<1>8. Finish(t) => loc' \in [Threads -> Locals] /\ pc' \in [Threads -> Pcs]
  BY <1>1, <1>2, <1>3 DEF Finish
<1>9. \A p \in Pcs : Go(t, p) => pc' \in [Threads -> Pcs]
  BY <1>2 DEF Go
<1>10. \A f \in Fds : \A fl \in SUBSET AllFlags :
         SetFlags(f, fl) => alt_fd_list' \in [Fds -> Entries]
  BY <1>2 DEF SetFlags, Entries
<1> QED
  BY <1>4, <1>5, <1>6, <1>7, <1>8, <1>9, <1>10

\* So does a change of the device of a descriptor.
LEMMA DevUpdates ==
  ASSUME Types, NEW f \in Fds, NEW d \in Devs \cup {NoDev},
         alt_fd_list' = [alt_fd_list EXCEPT ![f].dev = d]
  PROVE  alt_fd_list' \in [Fds -> Entries]
<1>1. alt_fd_list \in [Fds -> Entries]
  BY DEF Types
<1>2. [alt_fd_list[f] EXCEPT !.dev = d] \in Entries
  BY <1>1 DEF Entries
<1> QED
  BY <1>1, <1>2

\* The end of an open() for a stream leaves the streams after it.
LEMMA TodoUpdates ==
  ASSUME Types, Booting, NEW t \in Threads, Redirected(t)
  PROVE  todo' \in Todos
  BY NextStream DEF Types, Booting, Boots, Redirected

----------------------------------------------------------------------------
(* Types.                                                                  *)

\* What start up does.
LEMMA TypesStartup ==
  ASSUME Types, Startup
  PROVE  Types'
<1>1. CASE alt_dev_reg
  <2>1. PICK d \in Devices : alt_dev_list' = <<d>> \o alt_dev_list
    BY <1>1 DEF alt_dev_reg
  <2>2. alt_dev_list' \in Seq(Devices \cup {Null})
    BY <2>1, Prepended DEF Types
  <2> QED
    BY <1>1, <2>2 DEF Types, alt_dev_reg, pool, sem
<1>2. CASE alt_fs_reg
  <2>1. PICK d \in Filesystems : alt_fs_list' = <<d>> \o alt_fs_list
    BY <1>2 DEF alt_fs_reg
  <2>2. alt_fs_list' \in Seq(Filesystems)
    BY <2>1, Prepended DEF Types
  <2> QED
    BY <1>2, <2>2 DEF Types, alt_fs_reg, pool, sem
<1>3. CASE alt_io_redirect
  BY <1>3 DEF Types, alt_io_redirect, pool, lists, Todos, sem
<1> QED
  BY <1>1, <1>2, <1>3 DEF Startup

\* What the calls of a client do.
LEMMA TypesCalls ==
  ASSUME Base, NEW t \in Threads,
         \/ t = Main /\ alt_open_fd
         \/ ClientOpen(t) \/ ClientStat(t) \/ ALT_CLOSE(t)
         \/ IoctlLock(t) \/ alt_fd_unlock(t) \/ ALT_FCNTL(t)
  PROVE  Types'
<1> USE FileAssumption
<1>0. Types /\ Booting
  BY DEF Base
<1>u. Usable(t) \subseteq Fds /\ held[t] \subseteq Fds
  BY <1>0 DEF Types, Usable
<1>f. \A f \in Fds : alt_fd_list[f].flags \in SUBSET AllFlags
  BY <1>0 DEF Types, Entries
<1>p. {"get_pend", "rel_flags", "lock_pend", "set_clear"} \subseteq Pcs
  BY DEF Pcs
<1>o. ASSUME NEW name, NEW flags \in SUBSET AllFlags, NEW slot \in Slots,
             OpenStart(t, name, flags, slot)
      PROVE  pc' \in [Threads -> Pcs] /\ loc' \in [Threads -> Locals]
  <2>1. \/ UNCHANGED <<pc, loc>>
        \/ /\ pc' = [pc EXCEPT ![t] = "get_pend"]
           /\ \E l \in Locals : loc' = [loc EXCEPT ![t] = l]
    BY <1>0, <1>o, OpenStarts
  <2>2. pc \in [Threads -> Pcs] /\ loc \in [Threads -> Locals] /\ "get_pend" \in Pcs
    BY <1>0, <1>p DEF Types
  <2> QED
    BY <2>1, <2>2
<1>1. CASE t = Main /\ alt_open_fd
  <2> DEFINE s == Head(todo)
  <2>1. s \in Streams /\ todo # << >>
        /\ OpenStart(t, StdioName[s], IF s = "stdin" THEN {} ELSE {"WRONLY"}, s)
        /\ (todo' = Tail(todo) \/ todo' = todo)
    BY <1>1 DEF alt_open_fd
  <2>2. s \in Slots /\ (IF s = "stdin" THEN {} ELSE {"WRONLY"}) \in SUBSET AllFlags
    BY <2>1 DEF Slots, AllFlags
  <2>3. pc' \in [Threads -> Pcs] /\ loc' \in [Threads -> Locals]
    BY <1>o, <2>1, <2>2
  <2>4. todo' \in Todos
    BY <1>0, <2>1, NextStream DEF Types
  <2> QED
    BY <1>0, <1>1, <2>3, <2>4 DEF Types, alt_open_fd, lists, pool, sem
<1>2. CASE ClientOpen(t)
  <2>1. PICK name \in Paths, flags \in OpenFlags : OpenStart(t, name, flags, "client")
    BY <1>2 DEF ClientOpen
  <2>2. pc' \in [Threads -> Pcs] /\ loc' \in [Threads -> Locals]
    BY <1>o, <2>1 DEF Slots
  <2> QED
    BY <1>0, <1>2, <2>2 DEF Types, ClientOpen, lists, pool, sem
<1>3. CASE ClientStat(t)
  <2>1. PICK name \in Paths : OpenStart(t, name, {}, "stat")
    BY <1>3 DEF ClientStat
  <2>2. pc' \in [Threads -> Pcs] /\ loc' \in [Threads -> Locals]
    BY <1>o, <2>1 DEF Slots
  <2> QED
    BY <1>0, <1>3, <2>2 DEF Types, ClientStat, lists, pool, sem
<1>4. CASE ALT_CLOSE(t)
  <2>1. PICK f \in held[t] :
          /\ held' = [held EXCEPT ![t] = @ \ {f}] /\ granted' = granted \ {f}
          /\ WorkOn(t, f) /\ Go(t, "rel_flags")
    BY <1>4 DEF ALT_CLOSE
  <2>2. loc' \in [Threads -> Locals] /\ pc' \in [Threads -> Pcs]
    BY <1>0, <1>p, <1>u, <2>1, LocalUpdates
  <2> QED
    BY <1>0, <1>4, <2>1, <2>2 DEF Types, ALT_CLOSE, lists, pool, sem
<1>5. CASE IoctlLock(t)
  <2>1. PICK f \in Usable(t) : WorkOn(t, f) /\ Go(t, "lock_pend")
    BY <1>5 DEF IoctlLock
  <2>2. loc' \in [Threads -> Locals] /\ pc' \in [Threads -> Pcs]
    BY <1>0, <1>p, <1>u, <2>1, LocalUpdates
  <2> QED
    BY <1>0, <1>5, <2>2 DEF Types, IoctlLock, lists, pool, sem
<1>6. CASE alt_fd_unlock(t)
  <2>1. PICK f \in Usable(t) : /\ SetFlags(f, alt_fd_list[f].flags \ {"EXCL"})
                               /\ granted' = granted \ {f}
    BY <1>6 DEF alt_fd_unlock
  <2>2. alt_fd_list' \in [Fds -> Entries]
    BY <1>0, <1>f, <1>u, <2>1, LocalUpdates
  <2> QED
    BY <1>0, <1>6, <2>1, <2>2 DEF Types, alt_fd_unlock, lists, sem
<1>7. CASE ALT_FCNTL(t)
  <2>1. PICK f \in Usable(t) :
          loc' = [loc EXCEPT ![t].fd = f, ![t].flags = alt_fd_list[f].flags]
    BY <1>7 DEF ALT_FCNTL
  <2>2. f \in Fds /\ alt_fd_list[f].flags \in SUBSET AllFlags
    BY <1>f, <1>u
  <2>3. loc' \in [Threads -> Locals]
    BY <1>0, <2>1, <2>2, LocalUpdates
  <2>4. pc' \in [Threads -> Pcs]
    BY <1>0, <1>7, <1>p, LocalUpdates DEF ALT_FCNTL
  <2> QED
    BY <1>0, <1>7, <2>3, <2>4 DEF Types, ALT_FCNTL, lists, pool, sem
<1> QED
  BY <1>1, <1>2, <1>3, <1>4, <1>5, <1>6, <1>7

\* What a thread does inside a call.
LEMMA TypesInside ==
  ASSUME Base, NEW t \in Threads, Inside(t)
  PROVE  Types'
<1> USE FileAssumption
<1>0. Types /\ Booting /\ Works(t)
  BY DEF Base, Working
<1>1. /\ pc[t] \in Pcs /\ loc[t] \in Locals
      /\ loc[t].i \in Nat /\ loc[t].flags \in SUBSET AllFlags /\ loc[t].dev \in Devs \cup {NoDev}
  BY <1>0 DEF Types, Locals
<1>p. {"get", "take", "flags", "locked", "open_cb", "rel_flags", "rel_dev", "copy", "stat",
       "lock", "set_load", "set_store"} \subseteq Pcs
  BY DEF Pcs
<1>f. \A f \in Fds : alt_fd_list[f].flags \in SUBSET AllFlags
  BY <1>0 DEF Types, Entries
<1>2. CASE GetPend(t)
  <2>1. pc' \in [Threads -> Pcs] /\ loc' \in [Threads -> Locals]
    BY <1>0, <1>2, <1>p, LocalUpdates DEF GetPend
  <2> QED
    BY <1>0, <1>2, <2>1 DEF Types, GetPend, Pend, lists, pool
<1>3. CASE alt_get_fd(t)
  <2> DEFINE i == loc[t].i
  <2>1. CASE i < ALT_MAX_FD /\ alt_fd_list[i].dev = NoDev
    <3>1. Go(t, "take") /\ UNCHANGED <<sem, todo, loc>>
      BY <1>3, <2>1 DEF alt_get_fd
    <3>2. pc' \in [Threads -> Pcs]
      BY <1>0, <1>p, <3>1, LocalUpdates
    <3> QED
      BY <1>0, <1>3, <3>1, <3>2 DEF Types, alt_get_fd, lists, pool, sem
  <2>2. CASE i < ALT_MAX_FD /\ alt_fd_list[i].dev # NoDev
    <3>1. LookAt(t, i + 1) /\ UNCHANGED <<sem, todo, pc>>
      BY <1>3, <2>2 DEF alt_get_fd
    <3>2. loc' \in [Threads -> Locals]
      BY <1>0, <1>1, <3>1, LocalUpdates
    <3> QED
      BY <1>0, <1>3, <3>1, <3>2 DEF Types, alt_get_fd, lists, pool, sem
  <2>3. CASE ~(i < ALT_MAX_FD)
    <3>1. alt_fd_list_lock' = "free" /\ Redirected(t) /\ Finish(t)
      BY <1>3, <2>3 DEF alt_get_fd, PoolFull
    <3>2. pc' \in [Threads -> Pcs] /\ loc' \in [Threads -> Locals] /\ todo' \in Todos
      BY <1>0, <3>1, LocalUpdates, TodoUpdates
    <3> QED
      BY <1>0, <1>3, <3>1, <3>2 DEF Types, alt_get_fd, lists, pool
  <2> QED
    BY <2>1, <2>2, <2>3
<1>4. CASE TakeFd(t)
  <2>1. loc[t].i \in Fds
    BY <1>0, <1>4 DEF Works, TakeFd
  <2>2. pc' \in [Threads -> Pcs] /\ loc' \in [Threads -> Locals]
    BY <1>0, <1>4, <1>p, <2>1, LocalUpdates DEF TakeFd
  <2>3. alt_fd_list' \in [Fds -> Entries]
    BY <1>0, <1>1, <1>4, <2>1, DevUpdates DEF TakeFd
  <2>4. alt_max_fd' \in -1 .. ALT_MAX_FD - 1
    BY <1>0, <1>4, <2>1 DEF Types, TakeFd, Mark, Fds
  <2> QED
    BY <1>0, <1>4, <2>2, <2>3, <2>4 DEF Types, TakeFd, lists
<1>5. CASE OpenSetFlags(t)
  <2>1. loc[t].fd \in Fds
    BY <1>0, <1>5 DEF Works, OpenSetFlags, Opened
  <2>2. (loc[t].flags \ FlagsMask) \cup (IF loc[t].isafs THEN {} ELSE {"DEV"}) \in SUBSET AllFlags
    BY <1>1 DEF AllFlags, FlagsMask
  <2>3. alt_fd_list' \in [Fds -> Entries]
    BY <1>0, <1>5, <2>1, <2>2, LocalUpdates DEF OpenSetFlags
  <2>4. (IF loc[t].isafs THEN "open_cb" ELSE "locked") \in Pcs
    BY <1>p
  <2>5. pc' \in [Threads -> Pcs] /\ loc' \in [Threads -> Locals]
    BY <1>0, <1>5, <2>4, LocalUpdates DEF OpenSetFlags
  <2> QED
    BY <1>0, <1>5, <2>3, <2>5 DEF Types, OpenSetFlags, lists, sem
<1>6. CASE alt_file_locked(t)
  <2>1. \/ Go(t, "open_cb") /\ UNCHANGED loc
        \/ Go(t, "rel_flags") /\ UNCHANGED loc
        \/ LookAt(t, loc[t].i + 1) /\ UNCHANGED pc
    BY <1>6 DEF alt_file_locked
  <2>2. loc[t].i + 1 \in Nat /\ "open_cb" \in Pcs /\ "rel_flags" \in Pcs
    BY <1>1, <1>p
  <2>3. pc' \in [Threads -> Pcs] /\ loc' \in [Threads -> Locals]
    <3>1. loc \in [Threads -> Locals] /\ pc \in [Threads -> Pcs]
      BY <1>0 DEF Types
    <3> QED
      BY <1>0, <2>1, <2>2, <3>1, LocalUpdates
  <2> QED
    BY <1>0, <1>6, <2>3 DEF Types, alt_file_locked, lists, pool, sem
<1>7. CASE OpenCallback(t)
  <2>1. \/ Go(t, "rel_flags") /\ UNCHANGED <<loc, held>>
        \/ held' = [held EXCEPT ![t] = @ \cup {loc[t].fd}] /\ Finish(t)
        \/ Go(t, IF loc[t].slot = "stat" THEN "stat" ELSE "copy") /\ UNCHANGED <<loc, held>>
    BY <1>7 DEF OpenCallback
  <2>2. "rel_flags" \in Pcs /\ (IF loc[t].slot = "stat" THEN "stat" ELSE "copy") \in Pcs
    BY <1>p
  <2>3. loc[t].fd \in Fds
    BY <1>0, <1>7 DEF Works, OpenCallback, Opened
  <2>4. loc \in [Threads -> Locals] /\ pc \in [Threads -> Pcs] /\ held \in [Threads -> SUBSET Fds]
    BY <1>0 DEF Types
  <2>5. pc' \in [Threads -> Pcs] /\ loc' \in [Threads -> Locals]
    BY <1>0, <2>1, <2>2, <2>4, LocalUpdates
  <2>6. held' \in [Threads -> SUBSET Fds]
    BY <2>1, <2>3, <2>4
  <2> QED
    BY <1>0, <1>7, <2>5, <2>6 DEF Types, OpenCallback, lists, pool, sem
<1>8. CASE RedirectCopy(t)
  <2>1. loc[t].fd \in Fds /\ loc[t].slot \in Streams
    BY <1>0, <1>8 DEF Works, RedirectCopy, Opened
  <2>2. alt_fd_list' \in [Fds -> Entries]
    BY <1>0, <1>8, <2>1 DEF Types, RedirectCopy
  <2>3. pc' \in [Threads -> Pcs]
    BY <1>0, <1>8, <1>p, LocalUpdates DEF RedirectCopy
  <2> QED
    BY <1>0, <1>8, <2>2, <2>3 DEF Types, RedirectCopy, lists, sem
<1>9. CASE StatClose(t)
  <2>1. pc' \in [Threads -> Pcs]
    BY <1>0, <1>9, <1>p, LocalUpdates DEF StatClose
  <2> QED
    BY <1>0, <1>9, <2>1 DEF Types, StatClose, lists, pool, sem
<1>10. CASE ReleaseFlags(t)
  <2>1. loc[t].fd \in Fds
    BY <1>0, <1>10 DEF Works, ReleaseFlags, Releasing
  <2>2. SetFlags(loc[t].fd, {}) \/ UNCHANGED alt_fd_list
    BY <1>10 DEF ReleaseFlags
  <2>3. alt_fd_list' \in [Fds -> Entries]
    <3>1. alt_fd_list \in [Fds -> Entries] /\ {} \in SUBSET AllFlags
      BY <1>0 DEF Types
    <3> QED
      BY <1>0, <2>1, <2>2, <3>1, LocalUpdates
  <2>4. pc' \in [Threads -> Pcs]
    BY <1>0, <1>10, <1>p, LocalUpdates DEF ReleaseFlags
  <2> QED
    BY <1>0, <1>10, <2>3, <2>4 DEF Types, ReleaseFlags, lists, sem
<1>11. CASE ReleaseDev(t)
  <2>1. alt_fd_list' \in [Fds -> Entries]
    <3>1. alt_fd_list \in [Fds -> Entries] /\ loc[t].fd \in Fds
      BY <1>0, <1>11 DEF Types, Works, ReleaseDev, Releasing
    <3> QED
      BY <1>0, <1>11, <3>1, DevUpdates DEF ReleaseDev
  <2>2. pc' \in [Threads -> Pcs] /\ loc' \in [Threads -> Locals] /\ todo' \in Todos
    BY <1>0, <1>11, LocalUpdates, TodoUpdates DEF ReleaseDev
  <2> QED
    BY <1>0, <1>11, <2>1, <2>2 DEF Types, ReleaseDev, lists, sem
<1>12. CASE LockPend(t)
  <2>1. pc' \in [Threads -> Pcs] /\ loc' \in [Threads -> Locals]
    BY <1>0, <1>12, <1>p, LocalUpdates DEF LockPend
  <2> QED
    BY <1>0, <1>12, <2>1 DEF Types, LockPend, Pend, lists, pool
<1>13. CASE alt_fd_lock(t)
  <2> DEFINE f == loc[t].fd
  <2>1. f \in Fds /\ alt_fd_list[f].flags \cup {"EXCL"} \in SUBSET AllFlags
    <3>1. f \in Fds
      BY <1>0, <1>13 DEF Works, alt_fd_lock, Locking
    <3> QED
      BY <1>f, <3>1 DEF AllFlags, FlagsMask
  <2>2. \/ /\ SetFlags(f, alt_fd_list[f].flags \cup {"EXCL"}) /\ granted' = granted \cup {f}
           /\ Post /\ Finish(t)
        \/ Post /\ Finish(t) /\ UNCHANGED <<alt_fd_list, granted>>
        \/ LookAt(t, loc[t].i + 1) /\ UNCHANGED <<alt_fd_list, granted, sem, pc>>
    BY <1>13 DEF alt_fd_lock
  <2>3. loc[t].i + 1 \in Nat
    BY <1>1
  <2>4. /\ alt_fd_list \in [Fds -> Entries] /\ granted \in SUBSET Fds
        /\ loc \in [Threads -> Locals] /\ pc \in [Threads -> Pcs]
        /\ alt_fd_list_lock \in Threads \cup {"free"}
    BY <1>0 DEF Types
  <2>5. /\ alt_fd_list' \in [Fds -> Entries] /\ granted' \in SUBSET Fds
        /\ loc' \in [Threads -> Locals] /\ pc' \in [Threads -> Pcs]
        /\ alt_fd_list_lock' \in Threads \cup {"free"}
    BY <1>0, <2>1, <2>2, <2>3, <2>4, LocalUpdates DEF Post, sem
  <2> QED
    BY <1>0, <1>13, <2>5 DEF Types, alt_fd_lock, lists
<1>14. CASE SetClear(t)
  <2>1. loc[t].fd \in Fds /\ loc[t].flags \ FcntlMask \in SUBSET AllFlags
    BY <1>0, <1>1, <1>14 DEF Works, SetClear, Setting
  <2>2. alt_fd_list' \in [Fds -> Entries] /\ pc' \in [Threads -> Pcs]
    BY <1>0, <1>14, <1>p, <2>1, LocalUpdates DEF SetClear
  <2> QED
    BY <1>0, <1>14, <2>2 DEF Types, SetClear, lists, sem
<1>15. CASE SetLoad(t)
  <2>1. loc[t].fd \in Fds /\ alt_fd_list[loc[t].fd].flags \in SUBSET AllFlags
    BY <1>0, <1>f, <1>15 DEF Works, SetLoad, Setting
  <2>2. loc' \in [Threads -> Locals] /\ pc' \in [Threads -> Pcs]
    BY <1>0, <1>15, <1>p, <2>1, LocalUpdates DEF SetLoad
  <2> QED
    BY <1>0, <1>15, <2>2 DEF Types, SetLoad, lists, pool, sem
<1>16. CASE SetStore(t)
  <2>1. PICK arg \in OpenFlags : SetFlags(loc[t].fd, loc[t].flags \cup (arg \cap FcntlMask))
    BY <1>16 DEF SetStore
  <2>2. loc[t].fd \in Fds
    BY <1>0, <1>16 DEF Works, SetStore, Setting
  <2>3. loc[t].flags \cup (arg \cap FcntlMask) \in SUBSET AllFlags
    BY <1>1, <2>1 DEF AllFlags
  <2>4. /\ alt_fd_list' \in [Fds -> Entries]
        /\ pc' \in [Threads -> Pcs] /\ loc' \in [Threads -> Locals]
    BY <1>0, <1>16, <2>1, <2>2, <2>3, LocalUpdates DEF SetStore
  <2> QED
    BY <1>0, <1>16, <2>4 DEF Types, SetStore, lists, sem
<1> QED
  BY <1>2, <1>3, <1>4, <1>5, <1>6, <1>7, <1>8, <1>9, <1>10, <1>11, <1>12, <1>13, <1>14,
     <1>15, <1>16 DEF Inside

\* Every step keeps the types.
LEMMA TypesStep ==
  ASSUME Base, Next
  PROVE  Types'
<1>1. CASE Startup
  BY <1>1, TypesStartup DEF Base
<1>2. ASSUME NEW t \in Threads, Acts(t) PROVE Types'
  BY <1>2, TypesCalls, TypesInside DEF Acts
<1> QED
  BY <1>1, <1>2, NextActs

----------------------------------------------------------------------------
(* A step of one thread leaves the others where they are.                  *)

Alone(t) ==
  \A u \in Threads \ {t} : pc'[u] = pc[u] /\ loc'[u] = loc[u] /\ held'[u] = held[u]

\* The locals, the place and the descriptors of the other threads.
LEMMA OthersStay ==
  ASSUME Types, NEW t \in Threads, Acts(t)
  PROVE  Alone(t)
<1>0. pc \in [Threads -> Pcs] /\ loc \in [Threads -> Locals] /\ held \in [Threads -> SUBSET Fds]
  BY DEF Types
<1>1. CASE t = Main /\ alt_open_fd
  BY <1>0, <1>1 DEF Alone, alt_open_fd, OpenStart, Go
<1>2. CASE ClientOpen(t)
  BY <1>0, <1>2 DEF Alone, ClientOpen, OpenStart, Go
<1>3. CASE ClientStat(t)
  BY <1>0, <1>3 DEF Alone, ClientStat, OpenStart, Go
<1>4. CASE ALT_CLOSE(t)
  BY <1>0, <1>4 DEF Alone, ALT_CLOSE, Go, WorkOn
<1>5. CASE IoctlLock(t)
  BY <1>0, <1>5 DEF Alone, IoctlLock, Go, WorkOn
<1>6. CASE alt_fd_unlock(t)
  BY <1>0, <1>6 DEF Alone, alt_fd_unlock, SetFlags
<1>7. CASE ALT_FCNTL(t)
  BY <1>0, <1>7 DEF Alone, ALT_FCNTL, Go
<1>8. CASE GetPend(t)
  BY <1>0, <1>8 DEF Alone, GetPend, Go, LookAt, Pend
<1>9. CASE alt_get_fd(t)
  BY <1>0, <1>9 DEF Alone, alt_get_fd, Go, LookAt, PoolFull, Finish
<1>10. CASE TakeFd(t)
  BY <1>0, <1>10 DEF Alone, TakeFd, Go, WorkOn
<1>11. CASE OpenSetFlags(t)
  BY <1>0, <1>11 DEF Alone, OpenSetFlags, Go, LookAt, SetFlags
<1>12. CASE alt_file_locked(t)
  BY <1>0, <1>12 DEF Alone, alt_file_locked, Go, LookAt
<1>13. CASE OpenCallback(t)
  BY <1>0, <1>13 DEF Alone, OpenCallback, Go, Finish
<1>14. CASE RedirectCopy(t)
  BY <1>0, <1>14 DEF Alone, RedirectCopy, Go
<1>15. CASE StatClose(t)
  BY <1>0, <1>15 DEF Alone, StatClose, Go
<1>16. CASE ReleaseFlags(t)
  BY <1>0, <1>16 DEF Alone, ReleaseFlags, Go, SetFlags
<1>17. CASE ReleaseDev(t)
  BY <1>0, <1>17 DEF Alone, ReleaseDev, Finish
<1>18. CASE LockPend(t)
  BY <1>0, <1>18 DEF Alone, LockPend, Go, LookAt, Pend
<1>19. CASE alt_fd_lock(t)
  BY <1>0, <1>19 DEF Alone, alt_fd_lock, SetFlags, Finish, LookAt
<1>20. CASE SetClear(t)
  BY <1>0, <1>20 DEF Alone, SetClear, Go, SetFlags
<1>21. CASE SetLoad(t)
  BY <1>0, <1>21 DEF Alone, SetLoad, Go
<1>22. CASE SetStore(t)
  BY <1>0, <1>22 DEF Alone, SetStore, SetFlags, Finish
<1> QED
  BY <1>1, <1>2, <1>3, <1>4, <1>5, <1>6, <1>7, <1>8, <1>9, <1>10, <1>11, <1>12, <1>13, <1>14, <1>15, <1>16, <1>17, <1>18, <1>19, <1>20, <1>21, <1>22 DEF Acts, Inside


\* Semaphore is kept.
LEMMA SemaphoreStep ==
  ASSUME Base, NEW t \in Threads, Acts(t)
  PROVE  Semaphore'
<1>0. /\ pc \in [Threads -> Pcs] /\ Alone(t) /\ "free" \notin Threads
      /\ \A u \in Threads : pc[u] \in {"get", "take", "lock"} => alt_fd_list_lock = u
  BY OthersStay, FileAssumption DEF Base, Types, Semaphore
<1>1. CASE t = Main /\ alt_open_fd
  BY <1>0, <1>1 DEF Alone, Semaphore, alt_open_fd, OpenStart, Go, sem
<1>2. CASE ClientOpen(t)
  BY <1>0, <1>2 DEF Alone, Semaphore, ClientOpen, OpenStart, Go, sem
<1>3. CASE ClientStat(t)
  BY <1>0, <1>3 DEF Alone, Semaphore, ClientStat, OpenStart, Go, sem
<1>4. CASE ALT_CLOSE(t)
  BY <1>0, <1>4 DEF Alone, Semaphore, ALT_CLOSE, Go, WorkOn, sem
<1>5. CASE IoctlLock(t)
  BY <1>0, <1>5 DEF Alone, Semaphore, IoctlLock, Go, WorkOn, sem
<1>6. CASE alt_fd_unlock(t)
  BY <1>0, <1>6 DEF Alone, Semaphore, alt_fd_unlock, SetFlags, sem
<1>7. CASE ALT_FCNTL(t)
  BY <1>0, <1>7 DEF Alone, Semaphore, ALT_FCNTL, Go, sem
<1>8. CASE GetPend(t)
  BY <1>0, <1>8 DEF Alone, Semaphore, GetPend, Go, LookAt, Pend, sem
<1>9. CASE alt_get_fd(t)
  BY <1>0, <1>9 DEF Alone, Semaphore, alt_get_fd, Go, LookAt, PoolFull, Finish, sem
<1>10. CASE TakeFd(t)
  BY <1>0, <1>10 DEF Alone, Semaphore, TakeFd, Go, WorkOn
<1>11. CASE OpenSetFlags(t)
  BY <1>0, <1>11 DEF Alone, Semaphore, OpenSetFlags, Go, LookAt, SetFlags, sem
<1>12. CASE alt_file_locked(t)
  BY <1>0, <1>12 DEF Alone, Semaphore, alt_file_locked, Go, LookAt, sem
<1>13. CASE OpenCallback(t)
  BY <1>0, <1>13 DEF Alone, Semaphore, OpenCallback, Go, Finish, sem
<1>14. CASE RedirectCopy(t)
  BY <1>0, <1>14 DEF Alone, Semaphore, RedirectCopy, Go, sem
<1>15. CASE StatClose(t)
  BY <1>0, <1>15 DEF Alone, Semaphore, StatClose, Go, sem
<1>16. CASE ReleaseFlags(t)
  BY <1>0, <1>16 DEF Alone, Semaphore, ReleaseFlags, Go, SetFlags, sem
<1>17. CASE ReleaseDev(t)
  BY <1>0, <1>17 DEF Alone, Semaphore, ReleaseDev, Finish, sem
<1>18. CASE LockPend(t)
  BY <1>0, <1>18 DEF Alone, Semaphore, LockPend, Go, LookAt, Pend, sem
<1>19. CASE alt_fd_lock(t)
  BY <1>0, <1>19 DEF Alone, Semaphore, alt_fd_lock, SetFlags, Finish, LookAt, sem
<1>20. CASE SetClear(t)
  BY <1>0, <1>20 DEF Alone, Semaphore, SetClear, Go, SetFlags, sem
<1>21. CASE SetLoad(t)
  BY <1>0, <1>21 DEF Alone, Semaphore, SetLoad, Go, sem
<1>22. CASE SetStore(t)
  BY <1>0, <1>22 DEF Alone, Semaphore, SetStore, SetFlags, Finish, sem
<1> QED
  BY <1>1, <1>2, <1>3, <1>4, <1>5, <1>6, <1>7, <1>8, <1>9, <1>10, <1>11, <1>12, <1>13, <1>14, <1>15, <1>16, <1>17, <1>18, <1>19, <1>20, <1>21, <1>22 DEF Acts, Inside

----------------------------------------------------------------------------
(* What a step of thread t does to the descriptors.                        *)

\* The device of descriptor f after it: alt_get_fd takes one, alt_open_fd
\* copies one, alt_release_fd gives one back.
NewDev(t, f) ==
  IF pc[t] = "take" /\ f = loc[t].i THEN loc[t].dev
  ELSE IF pc[t] = "copy" /\ f = Filno[loc[t].slot] THEN alt_fd_list[loc[t].fd].dev
  ELSE IF pc[t] = "rel_dev" /\ f = loc[t].fd /\ f > 2 THEN NoDev
  ELSE alt_fd_list[f].dev

\* Standard streams have the lowest descriptors.
LEMMA StreamsAreFirst ==
  /\ 0 .. 2 \subseteq Fds /\ \A f \in Fds : f \in Nat
  /\ \A s \in Streams : Filno[s] \in 0 .. 2 /\ Filno[s] \in Fds
  /\ \A f \in 0 .. 2 : \E s \in Streams : Filno[s] = f
  /\ \A r, s \in Streams : Filno[r] = Filno[s] => r = s
  BY FileAssumption DEF Fds, Filno, Streams

\* That is all that happens to the devices.
LEMMA DevStep ==
  ASSUME Base, NEW t \in Threads, Acts(t)
  PROVE  \A f \in Fds : alt_fd_list'[f].dev = NewDev(t, f)
<1>0. /\ alt_fd_list \in [Fds -> Entries] /\ Works(t) /\ pc \in [Threads -> Pcs]
      /\ \A s \in Streams : Filno[s] \in Fds
  BY StreamsAreFirst DEF Base, Types, Working
<1>1. CASE t = Main /\ alt_open_fd
  BY <1>0, <1>1 DEF NewDev, alt_open_fd, OpenStart, pool
<1>2. CASE ClientOpen(t)
  BY <1>0, <1>2 DEF NewDev, Works, Opened, Releases, Releasing, pool, ClientOpen, OpenStart, Go
<1>3. CASE ClientStat(t)
  BY <1>0, <1>3 DEF NewDev, Works, Opened, Releases, Releasing, pool, ClientStat, OpenStart, Go
<1>4. CASE ALT_CLOSE(t)
  BY <1>0, <1>4 DEF NewDev, Works, Opened, Releases, Releasing, pool, ALT_CLOSE, Go, WorkOn
<1>5. CASE IoctlLock(t)
  BY <1>0, <1>5 DEF NewDev, Works, Opened, Releases, Releasing, pool, IoctlLock, Go, WorkOn
<1>6. CASE alt_fd_unlock(t)
  BY <1>0, <1>6 DEF NewDev, Works, Opened, Releases, Releasing, alt_fd_unlock, SetFlags
<1>7. CASE ALT_FCNTL(t)
  BY <1>0, <1>7 DEF NewDev, Works, Opened, Releases, Releasing, pool, ALT_FCNTL, Go
<1>8. CASE GetPend(t)
  BY <1>0, <1>8 DEF NewDev, Works, Opened, Releases, Releasing, pool, GetPend, Go, LookAt, Pend
<1>9. CASE alt_get_fd(t)
  BY <1>0, <1>9 DEF NewDev, Works, Opened, Releases, Releasing, pool, alt_get_fd, Go, LookAt, PoolFull, Finish
<1>10. CASE TakeFd(t)
  BY <1>0, <1>10 DEF NewDev, Works, Opened, Releases, Releasing, TakeFd, Go, WorkOn
<1>11. CASE OpenSetFlags(t)
  BY <1>0, <1>11 DEF NewDev, Works, Opened, Releases, Releasing, OpenSetFlags, Go, LookAt, SetFlags
<1>12. CASE alt_file_locked(t)
  BY <1>0, <1>12 DEF NewDev, Works, Opened, Releases, Releasing, pool, alt_file_locked, Go, LookAt
<1>13. CASE OpenCallback(t)
  BY <1>0, <1>13 DEF NewDev, Works, Opened, Releases, Releasing, pool, OpenCallback, Go, Finish
<1>14. CASE RedirectCopy(t)
  BY <1>0, <1>14 DEF NewDev, Works, Opened, Releases, Releasing, RedirectCopy, Go
<1>15. CASE StatClose(t)
  BY <1>0, <1>15 DEF NewDev, Works, Opened, Releases, Releasing, pool, StatClose, Go
<1>16. CASE ReleaseFlags(t)
  BY <1>0, <1>16 DEF NewDev, Entries, Works, Opened, Releases, Releasing, ReleaseFlags, Go, SetFlags
<1>17. CASE ReleaseDev(t)
  BY <1>0, <1>17 DEF NewDev, Entries, Works, Opened, Releases, Releasing, ReleaseDev, Finish
<1>18. CASE LockPend(t)
  BY <1>0, <1>18 DEF NewDev, Works, Opened, Releases, Releasing, pool, LockPend, Go, LookAt, Pend
<1>19. CASE alt_fd_lock(t)
  BY <1>0, <1>19 DEF NewDev, Entries, Works, Opened, Releases, Releasing, alt_fd_lock, SetFlags, Finish, LookAt
<1>20. CASE SetClear(t)
  BY <1>0, <1>20 DEF NewDev, Works, Opened, Releases, Releasing, SetClear, Go, SetFlags
<1>21. CASE SetLoad(t)
  BY <1>0, <1>21 DEF NewDev, Works, Opened, Releases, Releasing, pool, SetLoad, Go
<1>22. CASE SetStore(t)
  BY <1>0, <1>22 DEF NewDev, Works, Opened, Releases, Releasing, SetStore, SetFlags, Finish
<1> QED
  BY <1>1, <1>2, <1>3, <1>4, <1>5, <1>6, <1>7, <1>8, <1>9, <1>10, <1>11, <1>12, <1>13, <1>14, <1>15, <1>16, <1>17, <1>18, <1>19, <1>20, <1>21, <1>22 DEF Acts, Inside

\* The high water mark only rises, and covers what is taken.
LEMMA MaxStep ==
  ASSUME Base, NEW t \in Threads, Acts(t)
  PROVE  /\ alt_max_fd' \in Int /\ alt_max_fd \in Int /\ alt_max_fd <= alt_max_fd'
         /\ pc[t] = "take" => loc[t].i <= alt_max_fd'
<1>0. /\ alt_max_fd \in Int /\ Works(t)
  BY FileAssumption DEF Base, Types, Working
<1>1. CASE pc[t] = "take"
  <2>1. TakeFd(t)
    BY <1>1 DEF Acts, Inside, alt_open_fd, OpenStart, ClientOpen, ClientStat, ALT_CLOSE, IoctlLock,
         alt_fd_unlock, ALT_FCNTL, GetPend, alt_get_fd, OpenSetFlags, alt_file_locked, OpenCallback,
         RedirectCopy, StatClose, ReleaseFlags, ReleaseDev, LockPend, alt_fd_lock, SetClear, SetLoad,
         SetStore
  <2>2. loc[t].i \in Int
    BY <1>0, <1>1, StreamsAreFirst DEF Works
  <2> QED
    BY <1>0, <2>1, <2>2 DEF TakeFd, Mark
<1>2. CASE pc[t] # "take"
  <2>1. alt_max_fd' = alt_max_fd
    BY <1>2 DEF Acts, Inside, alt_open_fd, ClientOpen, ClientStat, ALT_CLOSE, IoctlLock,
         alt_fd_unlock, ALT_FCNTL, GetPend, alt_get_fd, TakeFd, OpenSetFlags, alt_file_locked,
         OpenCallback, RedirectCopy, StatClose, ReleaseFlags, ReleaseDev, LockPend, alt_fd_lock,
         SetClear, SetLoad, SetStore, pool
  <2> QED
    BY <1>0, <1>2, <2>1
<1> QED
  BY <1>1, <1>2

\* No standard stream becomes free.
LEMMA StreamsInUseStep ==
  ASSUME Base, NEW t \in Threads, Acts(t)
  PROVE  StreamsInUse'
<1> SUFFICES ASSUME NEW f \in 0 .. 2 PROVE alt_fd_list'[f].dev # NoDev
  BY DEF StreamsInUse
<1>1. /\ f \in Fds /\ alt_fd_list[f].dev # NoDev /\ ~(f > 2)
      /\ alt_fd_list'[f].dev = NewDev(t, f)
  BY StreamsAreFirst, DevStep DEF Base, StreamsInUse
<1>2. /\ pc[t] = "take" => loc[t].dev # NoDev
      /\ pc[t] = "copy" => alt_fd_list[loc[t].fd].dev # NoDev
  BY DEF Base, Working, Works, Opening, Searching, Opened
<1> QED
  BY <1>1, <1>2 DEF NewDev

\* The other threads can rely on what they have looked up: only the holder of
\* the semaphore takes a descriptor, and nobody gives back one that is not
\* his.
LEMMA OthersWork ==
  ASSUME Base, NEW t \in Threads, Acts(t), NEW u \in Threads \ {t}
  PROVE  Works(u)'
<1>0. pc'[u] = pc[u] /\ loc'[u] = loc[u] /\ Works(u) /\ Works(t) /\ StreamsInUse
  BY OthersStay DEF Base, Alone, Working
<1>1. ASSUME pc[u] = "take" PROVE alt_fd_list'[loc[u].i].dev = NoDev
  <2>1. loc[u].i \in Fds /\ alt_fd_list[loc[u].i].dev = NoDev /\ pc[t] # "take"
    BY <1>0, <1>1 DEF Works, Base, Semaphore
  <2>2. loc[u].i \notin 0 .. 2
    BY <1>0, <2>1 DEF StreamsInUse
  <2>3. pc[t] = "copy" => Filno[loc[t].slot] \in 0 .. 2
    BY <1>0, StreamsAreFirst DEF Works
  <2> QED
    BY <2>1, <2>2, <2>3, DevStep DEF NewDev
<1>2. ASSUME pc[u] \in Opened PROVE alt_fd_list'[loc[u].fd].dev = loc[u].dev
  <2>1. /\ loc[u].fd \in Fds /\ loc[u].fd > 2 /\ alt_fd_list[loc[u].fd].dev = loc[u].dev
        /\ loc[u].dev # NoDev
    BY <1>0, <1>2 DEF Works, Opening
  <2>2. pc[t] = "copy" => Filno[loc[t].slot] \in 0 .. 2
    BY <1>0, StreamsAreFirst DEF Works
  <2>3. pc[t] = "take" => alt_fd_list[loc[t].i].dev = NoDev
    BY <1>0 DEF Works
  <2>4. pc[t] = "rel_dev" => loc[t].fd # loc[u].fd
    <3>1. InCall(u) = {loc[u].fd} /\ (pc[t] = "rel_dev" => InCall(t) = {loc[t].fd})
      BY <1>2 DEF InCall, Opened
    <3>2. InCall(t) \cap InCall(u) = {}
      BY DEF Base, PoolConserved
    <3> QED
      BY <3>1, <3>2
  <2>5. loc[u].fd \notin 0 .. 2
    BY <2>1
  <2> QED
    BY <2>1, <2>2, <2>3, <2>4, <2>5, DevStep DEF NewDev
<1>3. pc[u] \in Opened => loc[u].fd <= alt_max_fd'
  <2>1. pc[u] \in Opened => loc[u].fd \in Int /\ loc[u].fd <= alt_max_fd
    BY <1>0, StreamsAreFirst DEF Works
  <2> QED
    BY <2>1, MaxStep
<1> QED
  BY <1>0, <1>1, <1>2, <1>3 DEF Works

\* The thread that makes the step has its locals right.
LEMMA SelfWorks ==
  ASSUME Base, NEW t \in Threads, Acts(t)
  PROVE  Works(t)'
<1> USE DEF Opening, Searching, Opened, Releasing, Locking, Setting
<1>0. /\ Types /\ Works(t) /\ pc \in [Threads -> Pcs] /\ loc \in [Threads -> Locals]
      /\ alt_fd_list \in [Fds -> Entries]
  BY DEF Base, Types, Working
<1>d. /\ \A f \in Fds : alt_fd_list'[f].dev = NewDev(t, f)
      /\ alt_max_fd' \in Int /\ alt_max_fd \in Int /\ alt_max_fd <= alt_max_fd'
      /\ pc[t] = "take" => loc[t].i <= alt_max_fd'
  BY DevStep, MaxStep
<1>l. /\ loc[t] \in Locals /\ loc[t].i \in Nat /\ ALT_MAX_FD \in Nat
      /\ \A f \in Fds : f \in Nat
  BY <1>0, FileAssumption, StreamsAreFirst DEF Locals
<1>h. /\ Usable(t) \subseteq Fds /\ held[t] \subseteq Fds
  BY <1>0 DEF Types, Usable
<1>o. ASSUME NEW name, NEW flags \in SUBSET AllFlags, NEW slot \in Slots,
             OpenStart(t, name, flags, slot)
      PROVE  Works(t)'
  <2>1. CASE UNCHANGED <<pc, loc>> /\ pc[t] = "idle"
    BY <1>0, <2>1 DEF Works
  <2>2. CASE /\ Lookup(name) \in Devs /\ pc' = [pc EXCEPT ![t] = "get_pend"]
             /\ \E l \in Locals :
                  /\ loc' = [loc EXCEPT ![t] = l] /\ l.dev = Lookup(name)
                  /\ l.isafs <=> l.dev \in Filesystems
    BY <1>0, <2>2, FileAssumption DEF Works, Devs
  <2>3. /\ pc[t] = "idle"
        /\ \/ Lookup(name) = NoDev /\ UNCHANGED <<pc, loc>>
           \/ /\ Lookup(name) \in Devs
              /\ pc' = [pc EXCEPT ![t] = "get_pend"]
              /\ \E l \in Locals :
                   /\ loc' = [loc EXCEPT ![t] = l]
                   /\ l.dev = Lookup(name) /\ l.flags = flags /\ l.slot = slot
                   /\ l.isafs <=> l.dev \in Filesystems
                   /\ l.fd = loc[t].fd /\ l.i = loc[t].i
    BY <1>0, <1>o, OpenStarts
  <2> QED
    BY <2>1, <2>2, <2>3
<1>1. CASE t = Main /\ alt_open_fd
  <2> DEFINE s == Head(todo)
  <2>1. s \in Streams
        /\ OpenStart(t, StdioName[s], IF s = "stdin" THEN {} ELSE {"WRONLY"}, s)
    BY <1>1 DEF alt_open_fd
  <2>2. s \in Slots /\ (IF s = "stdin" THEN {} ELSE {"WRONLY"}) \in SUBSET AllFlags
    BY <2>1 DEF Slots, AllFlags
  <2> QED
    BY <1>o, <2>1, <2>2
<1>2. CASE ClientOpen(t)
  <2>1. PICK name \in Paths, flags \in OpenFlags : OpenStart(t, name, flags, "client")
    BY <1>2 DEF ClientOpen
  <2>2. flags \in SUBSET AllFlags /\ "client" \in Slots
    BY FileAssumption DEF Slots
  <2> QED
    BY <1>o, <2>1, <2>2
<1>3. CASE ClientStat(t)
  <2>1. PICK name \in Paths : OpenStart(t, name, {}, "stat")
    BY <1>3 DEF ClientStat
  <2>2. {} \in SUBSET AllFlags /\ "stat" \in Slots
    BY DEF Slots
  <2> QED
    BY <1>o, <2>1, <2>2
<1>4. CASE ALT_CLOSE(t)
  BY <1>0, <1>d, <1>l, <1>h, <1>4 DEF Works, NewDev, Fds, ALT_CLOSE, Go, WorkOn
<1>5. CASE IoctlLock(t)
  BY <1>0, <1>d, <1>l, <1>h, <1>5 DEF Works, NewDev, Fds, IoctlLock, Go, WorkOn
<1>6. CASE alt_fd_unlock(t)
  BY <1>0, <1>d, <1>l, <1>h, <1>6 DEF Works, NewDev, Fds, alt_fd_unlock, SetFlags
<1>7. CASE ALT_FCNTL(t)
  BY <1>0, <1>d, <1>l, <1>h, <1>7 DEF Works, NewDev, Fds, ALT_FCNTL, Go
<1>8. CASE GetPend(t)
  BY <1>0, <1>d, <1>l, <1>h, <1>8 DEF Works, NewDev, Fds, GetPend, Go, LookAt, Pend
<1>9. CASE alt_get_fd(t)
  <2>0. pc[t] = "get" /\ UNCHANGED alt_fd_list /\ loc[t].i \in 0 .. ALT_MAX_FD
    BY <1>0, <1>9 DEF alt_get_fd, pool, Works
  <2>1. CASE Go(t, "take") /\ UNCHANGED loc /\ loc[t].i < ALT_MAX_FD /\ alt_fd_list[loc[t].i].dev = NoDev
    BY <1>0, <1>l, <2>0, <2>1 DEF Works, Go, Fds
  <2>2. CASE LookAt(t, loc[t].i + 1) /\ UNCHANGED pc /\ loc[t].i < ALT_MAX_FD
    BY <1>0, <1>l, <2>0, <2>2 DEF Works, LookAt
  <2>3. CASE Finish(t)
    BY <1>0, <2>3 DEF Works, Finish
  <2> QED
    BY <1>9, <2>1, <2>2, <2>3 DEF alt_get_fd, PoolFull
<1>10. CASE TakeFd(t)
  <2> DEFINE i == loc[t].i
  <2>1. pc[t] = "take" /\ pc'[t] = "flags" /\ loc'[t] = [loc[t] EXCEPT !.fd = i]
    BY <1>0, <1>10 DEF TakeFd, Go, WorkOn
  <2>2. i \in Fds /\ i \in Nat /\ i > 2
    <3>1. i \in Fds /\ alt_fd_list[i].dev = NoDev
      BY <1>0, <2>1 DEF Works
    <3>2. i \notin 0 .. 2
      BY <3>1 DEF Base, StreamsInUse
    <3> QED
      BY <1>l, <3>1, <3>2
  <2>3. /\ loc'[t].fd = i /\ loc'[t].dev = loc[t].dev /\ loc'[t].isafs = loc[t].isafs
    BY <1>l, <2>1 DEF Locals
  <2>4. alt_fd_list'[i].dev = loc[t].dev /\ i <= alt_max_fd'
    BY <1>d, <2>1, <2>2 DEF NewDev
  <2> QED
    BY <1>0, <2>1, <2>2, <2>3, <2>4 DEF Works
<1>11. CASE OpenSetFlags(t)
  BY <1>0, <1>d, <1>l, <1>h, <1>11 DEF Works, NewDev, Fds, OpenSetFlags, Go, LookAt, SetFlags
<1>12. CASE alt_file_locked(t)
  <2>0. pc[t] = "locked" /\ UNCHANGED <<alt_fd_list, alt_max_fd>>
    BY <1>12 DEF alt_file_locked, pool
  <2>1. CASE (Go(t, "open_cb") \/ Go(t, "rel_flags")) /\ UNCHANGED loc
    BY <1>0, <2>0, <2>1 DEF Works, Go
  <2>2. CASE LookAt(t, loc[t].i + 1) /\ UNCHANGED pc
    BY <1>0, <1>l, <2>0, <2>2 DEF Works, LookAt
  <2> QED
    BY <1>12, <2>1, <2>2 DEF alt_file_locked
<1>13. CASE OpenCallback(t)
  BY <1>0, <1>d, <1>l, <1>h, <1>13 DEF Works, NewDev, Fds, OpenCallback, Go, Finish
<1>14. CASE RedirectCopy(t)
  BY <1>0, <1>d, <1>l, <1>h, <1>14 DEF Works, NewDev, Fds, RedirectCopy, Go
<1>15. CASE StatClose(t)
  BY <1>0, <1>d, <1>l, <1>h, <1>15 DEF Works, NewDev, Fds, StatClose, Go
<1>16. CASE ReleaseFlags(t)
  BY <1>0, <1>d, <1>l, <1>h, <1>16 DEF Works, NewDev, Fds, ReleaseFlags, Go, SetFlags
<1>17. CASE ReleaseDev(t)
  BY <1>0, <1>d, <1>l, <1>h, <1>17 DEF Works, NewDev, Fds, ReleaseDev, Finish
<1>18. CASE LockPend(t)
  BY <1>0, <1>d, <1>l, <1>h, <1>18 DEF Works, NewDev, Fds, LockPend, Go, LookAt, Pend
<1>19. CASE alt_fd_lock(t)
  BY <1>0, <1>d, <1>l, <1>h, <1>19 DEF Works, NewDev, Locals, Fds, alt_fd_lock, SetFlags, Finish, LookAt, sem
<1>20. CASE SetClear(t)
  BY <1>0, <1>d, <1>l, <1>h, <1>20 DEF Works, NewDev, Fds, SetClear, Go, SetFlags
<1>21. CASE SetLoad(t)
  BY <1>0, <1>d, <1>l, <1>h, <1>21 DEF Works, NewDev, Fds, SetLoad, Go
<1>22. CASE SetStore(t)
  BY <1>0, <1>d, <1>l, <1>h, <1>22 DEF Works, NewDev, Fds, SetStore, SetFlags, Finish
<1> QED
  BY <1>1, <1>2, <1>3, <1>4, <1>5, <1>6, <1>7, <1>8, <1>9, <1>10, <1>11, <1>12, <1>13, <1>14, <1>15, <1>16, <1>17, <1>18, <1>19, <1>20, <1>21, <1>22 DEF Acts, Inside

----------------------------------------------------------------------------
(* Start up and redirection.                                               *)

\* Only Main moves on to the next stream, when its open() for one has ended.
LEMMA TodoStep ==
  ASSUME Base, NEW t \in Threads, Acts(t)
  PROVE  \/ todo' = todo
         \/ /\ t = Main /\ todo # << >> /\ Head(todo) \in Streams /\ todo' = Tail(todo)
            /\ pc[t] \in {"idle", "get", "rel_dev"} /\ pc'[t] = "idle" /\ loc'[t] = Idle
<1>0. /\ Types /\ Boots(t) /\ Works(t) /\ pc \in [Threads -> Pcs] /\ loc \in [Threads -> Locals]
  BY DEF Base, Types, Booting, Working
<1>1. CASE t = Main /\ alt_open_fd
  <2> DEFINE s == Head(todo)
  <2>1. /\ s \in Streams /\ todo # << >> /\ pc[t] = "idle" /\ loc[t] = Idle
        /\ todo' = IF Lookup(StdioName[s]) = NoDev THEN Tail(todo) ELSE todo
        /\ Lookup(StdioName[s]) = NoDev => UNCHANGED <<pc, loc>>
    BY <1>0, <1>1 DEF alt_open_fd, OpenStart, Works
  <2> QED
    BY <1>1, <2>1
<1>2. CASE alt_get_fd(t) /\ PoolFull(t)
  BY <1>0, <1>2 DEF alt_get_fd, PoolFull, Redirected, Finish, Boots
<1>3. CASE ReleaseDev(t)
  BY <1>0, <1>3 DEF ReleaseDev, Redirected, Finish, Boots
<1>4. CASE ~(t = Main /\ alt_open_fd) /\ ~(alt_get_fd(t) /\ PoolFull(t)) /\ ~ReleaseDev(t)
  BY <1>4 DEF Acts, Inside, ClientOpen, ClientStat, ALT_CLOSE, IoctlLock,
         alt_fd_unlock, ALT_FCNTL, GetPend, alt_get_fd, TakeFd, OpenSetFlags, alt_file_locked,
         OpenCallback, RedirectCopy, StatClose, ReleaseFlags, LockPend, alt_fd_lock,
         SetClear, SetLoad, SetStore
<1> QED
  BY <1>1, <1>2, <1>3, <1>4

\* Nothing is locked during start up.
LEMMA GrantedStep ==
  ASSUME Base, NEW t \in Threads, Acts(t), todo # << >>
  PROVE  granted' = {} /\ held'[t] = held[t]
<1>0. granted = {} /\ Boots(t) /\ ~Booted
  BY DEF Base, Booting, Booted
<1>1. pc[t] \notin Locking \cup {"stat"} /\ (pc[t] # "idle" => loc[t].slot \in Streams)
  BY <1>0 DEF Boots, Opening, Searching, Opened, Releasing, Locking
<1> QED
  BY <1>0, <1>1 DEF Acts, Inside, alt_open_fd, ClientOpen, ClientStat, ALT_CLOSE, IoctlLock,
         alt_fd_unlock, ALT_FCNTL, GetPend, alt_get_fd, TakeFd, OpenSetFlags, alt_file_locked,
         OpenCallback, RedirectCopy, StatClose, ReleaseFlags, ReleaseDev, LockPend, alt_fd_lock,
         SetClear, SetLoad, SetStore, Locking, Streams

\* The other threads wait for the end of the redirection.
LEMMA OthersBoot ==
  ASSUME Base, NEW t \in Threads, Acts(t), NEW u \in Threads \ {t}
  PROVE  Boots(u)'
<1>1. pc'[u] = pc[u] /\ loc'[u] = loc[u] /\ held'[u] = held[u] /\ Boots(u)
  BY OthersStay DEF Base, Alone, Booting
<1>2. todo' = todo \/ (t = Main /\ todo # << >>)
  BY TodoStep
<1> QED
  BY <1>1, <1>2 DEF Boots

\* The thread that makes the step.
LEMMA SelfBoots ==
  ASSUME Base, NEW t \in Threads, Acts(t)
  PROVE  Boots(t)'
<1> USE DEF Opening, Searching, Opened, Releasing
<1>0. /\ Types /\ Boots(t) /\ Works(t) /\ pc \in [Threads -> Pcs] /\ loc \in [Threads -> Locals]
  BY DEF Base, Types, Booting, Working
<1>h. todo # << >> => held'[t] = IF t = Main THEN 0 .. 2 ELSE {}
  BY <1>0, GrantedStep DEF Boots
<1>i. Idle.slot = "client" /\ "client" \notin Streams /\ "stat" \notin Streams
  BY DEF Idle, Streams
<1>m. CASE todo' # todo
  <2>1. t = Main /\ todo # << >> /\ pc'[t] = "idle" /\ loc'[t] = Idle
    BY <1>m, TodoStep
  <2> QED
    BY <1>h, <1>i, <2>1 DEF Boots
<1>s. ASSUME todo' = todo, pc'[t] # "idle", loc'[t].slot = loc[t].slot,
             pc[t] # "idle", loc[t].slot \in Streams => pc'[t] \in (Opening \cup Releasing) \ {"stat"}
      PROVE  Boots(t)'
  BY <1>0, <1>h, <1>s DEF Boots
<1>c. ASSUME todo' = todo, Booted, loc'[t].slot \notin Streams PROVE Boots(t)'
  BY <1>c DEF Boots, Booted
<1>l. loc[t] \in Locals
  BY <1>0
<1>1. CASE t = Main /\ alt_open_fd /\ todo' = todo
  <2> DEFINE s == Head(todo)
  <2>1. /\ s \in Streams /\ todo # << >> /\ pc[t] = "idle" /\ loc[t] = Idle
        /\ OpenStart(t, StdioName[s], IF s = "stdin" THEN {} ELSE {"WRONLY"}, s)
    BY <1>0, <1>1 DEF alt_open_fd, Works
  <2>2. s \in Slots /\ (IF s = "stdin" THEN {} ELSE {"WRONLY"}) \in SUBSET AllFlags
    BY <2>1 DEF Slots, AllFlags
  <2>3. \/ UNCHANGED <<pc, loc>>
        \/ pc'[t] = "get_pend" /\ loc'[t].slot = s
    BY <1>0, <2>1, <2>2, OpenStarts
  <2> QED
    BY <1>0, <1>1, <1>h, <1>i, <2>1, <2>3 DEF Boots
<1>2. CASE ClientOpen(t) \/ ClientStat(t)
  <2>1. PICK name \in Paths, flags \in OpenFlags \cup {{}}, slot \in {"client", "stat"} :
          OpenStart(t, name, flags, slot)
    BY <1>2 DEF ClientOpen, ClientStat
  <2>2. flags \in SUBSET AllFlags /\ slot \in Slots
    BY FileAssumption DEF Slots
  <2>3. pc[t] = "idle" /\ (UNCHANGED loc \/ loc'[t].slot = slot)
    BY <1>0, <2>1, <2>2, OpenStarts
  <2>4. loc'[t].slot \notin Streams /\ todo' = todo /\ Booted
    BY <1>0, <1>2, <1>i, <2>1, <2>3 DEF ClientOpen, ClientStat, Works
  <2> QED
    BY <1>c, <2>4
<1>3. CASE ALT_CLOSE(t) \/ IoctlLock(t)
  <2>1. loc'[t].slot = loc[t].slot /\ pc[t] = "idle" /\ todo' = todo /\ Booted
    BY <1>0, <1>l, <1>3 DEF ALT_CLOSE, IoctlLock, WorkOn, Locals
  <2> QED
    BY <1>0, <1>c, <1>i, <2>1 DEF Works
<1>4. CASE alt_fd_unlock(t)
  <2>1. loc'[t].slot = loc[t].slot /\ pc[t] = "idle" /\ todo' = todo /\ Booted
    BY <1>0, <1>l, <1>4 DEF alt_fd_unlock
  <2> QED
    BY <1>0, <1>c, <1>i, <2>1 DEF Works
<1>5. CASE ALT_FCNTL(t)
  <2>1. loc'[t].slot = loc[t].slot /\ pc[t] = "idle" /\ todo' = todo /\ Booted
    BY <1>0, <1>l, <1>5 DEF ALT_FCNTL
  <2> QED
    BY <1>0, <1>c, <1>i, <2>1 DEF Works
<1>6. CASE GetPend(t) /\ todo' = todo
  BY <1>0, <1>l, <1>s, <1>h, <1>i, <1>6 DEF Boots, GetPend, Go, LookAt, Pend
<1>7. CASE alt_get_fd(t) /\ todo' = todo
  BY <1>0, <1>l, <1>s, <1>h, <1>i, <1>7 DEF Boots, Locals, alt_get_fd, Go, LookAt, PoolFull, Finish
<1>8. CASE TakeFd(t) /\ todo' = todo
  BY <1>0, <1>l, <1>s, <1>h, <1>i, <1>8 DEF Boots, TakeFd, Go, WorkOn
<1>9. CASE OpenSetFlags(t) /\ todo' = todo
  BY <1>0, <1>l, <1>s, <1>h, <1>i, <1>9 DEF Boots, OpenSetFlags, Go, LookAt, SetFlags
<1>10. CASE alt_file_locked(t) /\ todo' = todo
  BY <1>0, <1>l, <1>s, <1>h, <1>i, <1>10 DEF Boots, Locals, alt_file_locked, Go, LookAt
<1>11. CASE OpenCallback(t) /\ todo' = todo
  BY <1>0, <1>l, <1>s, <1>h, <1>i, <1>11 DEF Boots, OpenCallback, Go, Finish
<1>12. CASE RedirectCopy(t) /\ todo' = todo
  BY <1>0, <1>l, <1>s, <1>h, <1>i, <1>12 DEF Boots, RedirectCopy, Go
<1>13. CASE StatClose(t) /\ todo' = todo
  BY <1>0, <1>l, <1>s, <1>h, <1>i, <1>13 DEF Boots, StatClose, Go
<1>14. CASE ReleaseFlags(t) /\ todo' = todo
  BY <1>0, <1>l, <1>s, <1>h, <1>i, <1>14 DEF Boots, ReleaseFlags, Go, SetFlags
<1>15. CASE ReleaseDev(t) /\ todo' = todo
  BY <1>0, <1>l, <1>s, <1>h, <1>i, <1>15 DEF Boots, ReleaseDev, Finish
<1>16. CASE LockPend(t) /\ todo' = todo
  BY <1>0, <1>l, <1>s, <1>h, <1>i, <1>16 DEF Boots, LockPend, Go, LookAt, Pend
<1>17. CASE alt_fd_lock(t) /\ todo' = todo
  BY <1>0, <1>l, <1>s, <1>h, <1>i, <1>17 DEF Boots, Locals, alt_fd_lock, SetFlags, Finish, LookAt
<1>18. CASE SetClear(t) /\ todo' = todo
  BY <1>0, <1>l, <1>s, <1>h, <1>i, <1>18 DEF Boots, SetClear, Go, SetFlags
<1>19. CASE SetLoad(t) /\ todo' = todo
  BY <1>0, <1>l, <1>s, <1>h, <1>i, <1>19 DEF Boots, SetLoad, Go
<1>20. CASE SetStore(t) /\ todo' = todo
  BY <1>0, <1>l, <1>s, <1>h, <1>i, <1>20 DEF Boots, SetStore, SetFlags, Finish
<1> QED
  BY <1>m, <1>1, <1>2, <1>3, <1>4, <1>5, <1>6, <1>7, <1>8, <1>9, <1>10, <1>11, <1>12, <1>13, <1>14, <1>15, <1>16, <1>17, <1>18, <1>19, <1>20 DEF Acts, Inside

----------------------------------------------------------------------------
(* The pool.                                                               *)

\* The descriptors thread t has, or is being given, or is giving back.
Mine(t) == held[t] \cup InCall(t)

\* What a step does to them: alt_get_fd adds one that was free, the end of
\* alt_release_fd takes one away, and in between they change hands between
\* the call and the client.
LEMMA MineStep ==
  ASSUME Base, NEW t \in Threads, Acts(t)
  PROVE  /\ pc[t] = "take" => held'[t] = held[t] /\ InCall(t)' = {loc[t].i} /\ InCall(t) = {}
         /\ pc[t] = "rel_dev" => held'[t] = held[t] /\ InCall(t)' = {} /\ InCall(t) = {loc[t].fd}
         /\ pc[t] \notin {"take", "rel_dev"} =>
              Mine(t)' = Mine(t) /\ held'[t] \cap InCall(t)' = {}
<1>0. /\ pc \in [Threads -> Pcs] /\ loc \in [Threads -> Locals]
      /\ held \in [Threads -> SUBSET Fds] /\ Works(t)
  BY DEF Base, Types, Working
<1>l. loc[t] \in Locals /\ held[t] \cap InCall(t) = {}
  BY <1>0 DEF Base, PoolConserved
<1>o. ASSUME NEW name, NEW flags, NEW slot, OpenStart(t, name, flags, slot), held' = held
      PROVE  pc[t] = "idle" /\ held'[t] = held[t] /\ InCall(t)' = {} /\ InCall(t) = {}
  BY <1>0, <1>o DEF OpenStart, Go, InCall
<1>1. CASE t = Main /\ alt_open_fd
  BY <1>o, <1>1 DEF alt_open_fd, Mine
<1>2. CASE ClientOpen(t)
  BY <1>o, <1>2 DEF ClientOpen, Mine
<1>3. CASE ClientStat(t)
  BY <1>o, <1>3 DEF ClientStat, Mine
<1>4. CASE ALT_CLOSE(t)
  BY <1>0, <1>l, <1>4 DEF Mine, InCall, ALT_CLOSE, Go, WorkOn
<1>5. CASE IoctlLock(t)
  BY <1>0, <1>l, <1>5 DEF Mine, InCall, IoctlLock, Go, WorkOn
<1>6. CASE alt_fd_unlock(t)
  BY <1>0, <1>l, <1>6 DEF Mine, InCall, alt_fd_unlock, SetFlags
<1>7. CASE ALT_FCNTL(t)
  BY <1>0, <1>l, <1>7 DEF Mine, InCall, ALT_FCNTL, Go
<1>8. CASE GetPend(t)
  BY <1>0, <1>l, <1>8 DEF Mine, InCall, GetPend, Go, LookAt, Pend
<1>9. CASE alt_get_fd(t)
  BY <1>0, <1>l, <1>9 DEF Mine, InCall, alt_get_fd, Go, LookAt, PoolFull, Finish
<1>10. CASE TakeFd(t)
  BY <1>0, <1>l, <1>10 DEF Mine, InCall, TakeFd, Go, WorkOn
<1>11. CASE OpenSetFlags(t)
  BY <1>0, <1>l, <1>11 DEF Mine, InCall, OpenSetFlags, Go, LookAt, SetFlags
<1>12. CASE alt_file_locked(t)
  BY <1>0, <1>l, <1>12 DEF Mine, InCall, Locals, alt_file_locked, Go, LookAt
<1>13. CASE OpenCallback(t)
  BY <1>0, <1>l, <1>13 DEF Mine, InCall, OpenCallback, Go, Finish
<1>14. CASE RedirectCopy(t)
  BY <1>0, <1>l, <1>14 DEF Mine, InCall, RedirectCopy, Go
<1>15. CASE StatClose(t)
  BY <1>0, <1>l, <1>15 DEF Mine, InCall, StatClose, Go
<1>16. CASE ReleaseFlags(t)
  BY <1>0, <1>l, <1>16 DEF Mine, InCall, ReleaseFlags, Go, SetFlags
<1>17. CASE ReleaseDev(t)
  BY <1>0, <1>l, <1>17 DEF Mine, InCall, ReleaseDev, Finish
<1>18. CASE LockPend(t)
  BY <1>0, <1>l, <1>18 DEF Mine, InCall, LockPend, Go, LookAt, Pend
<1>19. CASE alt_fd_lock(t)
  BY <1>0, <1>l, <1>19 DEF Mine, InCall, alt_fd_lock, SetFlags, Finish, LookAt
<1>20. CASE SetClear(t)
  BY <1>0, <1>l, <1>20 DEF Mine, InCall, SetClear, Go, SetFlags
<1>21. CASE SetLoad(t)
  BY <1>0, <1>l, <1>21 DEF Mine, InCall, SetLoad, Go
<1>22. CASE SetStore(t)
  BY <1>0, <1>l, <1>22 DEF Mine, InCall, SetStore, SetFlags, Finish
<1> QED
  BY <1>1, <1>2, <1>3, <1>4, <1>5, <1>6, <1>7, <1>8, <1>9, <1>10, <1>11, <1>12, <1>13, <1>14, <1>15, <1>16, <1>17, <1>18, <1>19, <1>20, <1>21, <1>22 DEF Acts, Inside


\* PoolConserved is kept.
LEMMA PoolStep ==
  ASSUME Base, NEW t \in Threads, Acts(t)
  PROVE  PoolConserved'
<1>0. /\ PoolConserved /\ Works(t) /\ StreamsInUse
      /\ \A u \in Threads \ {t} : held'[u] = held[u] /\ InCall(u)' = InCall(u) /\ Mine(u)' = Mine(u)
  <2>1. \A u \in Threads \ {t} : pc'[u] = pc[u] /\ loc'[u] = loc[u] /\ held'[u] = held[u]
    BY OthersStay DEF Base, Alone
  <2> QED
    BY <2>1 DEF Base, Working, InCall, Mine
<1>1. /\ \A u \in Threads : held[u] \cap InCall(u) = {}
      /\ \A u, v \in Threads : u # v => Mine(u) \cap Mine(v) = {}
      /\ \A f \in Fds : f > 2 => (alt_fd_list[f].dev # NoDev <=> \E u \in Threads : f \in Mine(u))
  BY <1>0 DEF PoolConserved, Mine
<1>2. \A f \in Fds : alt_fd_list'[f].dev = NewDev(t, f)
  BY DevStep
<1>c. ASSUME NEW f \in Fds, f > 2 PROVE ~(pc[t] = "copy" /\ f = Filno[loc[t].slot])
  <2>1. pc[t] = "copy" => Filno[loc[t].slot] \in 0 .. 2
    BY <1>0, StreamsAreFirst DEF Works
  <2>2. f \notin 0 .. 2
    BY <1>c
  <2> QED
    BY <2>1, <2>2
<1>q. ASSUME \A u \in Threads : held'[u] \cap InCall(u)' = {},
             \A u, v \in Threads : u # v => Mine(u)' \cap Mine(v)' = {},
             \A f \in Fds : f > 2 => (alt_fd_list'[f].dev # NoDev <=> \E u \in Threads : f \in Mine(u)')
      PROVE  PoolConserved'
  BY <1>q DEF PoolConserved, Mine
<1>3. CASE pc[t] = "take"
  <2> DEFINE i == loc[t].i
  <2>1. i \in Fds /\ alt_fd_list[i].dev = NoDev /\ i > 2 /\ loc[t].dev # NoDev
    <3>1. i \in Fds /\ alt_fd_list[i].dev = NoDev /\ loc[t].dev # NoDev
      BY <1>0, <1>3 DEF Works, Opening, Searching
    <3>2. i \notin 0 .. 2 /\ i \in Nat
      BY <1>0, <3>1, StreamsAreFirst DEF StreamsInUse
    <3> QED
      BY <3>1, <3>2
  <2>2. held'[t] = held[t] /\ InCall(t)' = {i} /\ Mine(t)' = Mine(t) \cup {i}
    BY <1>3, MineStep DEF Mine
  <2>3. \A u \in Threads : i \notin Mine(u)
    BY <1>1, <2>1
  <2>4. \A u \in Threads : held'[u] \cap InCall(u)' = {}
    BY <1>0, <1>1, <2>2, <2>3 DEF Mine
  <2>5. \A u, v \in Threads : u # v => Mine(u)' \cap Mine(v)' = {}
    BY <1>0, <1>1, <2>2, <2>3
  <2>6. \A f \in Fds : f > 2 => (alt_fd_list'[f].dev # NoDev <=> \E u \in Threads : f \in Mine(u)')
    <3> TAKE f \in Fds
    <3>1. alt_fd_list'[f].dev = IF f = i THEN loc[t].dev ELSE alt_fd_list[f].dev
      BY <1>2, <1>3 DEF NewDev
    <3>2. (\E u \in Threads : f \in Mine(u)') <=> f = i \/ \E u \in Threads : f \in Mine(u)
      BY <1>0, <2>2
    <3> QED
      BY <1>1, <2>1, <3>1, <3>2
  <2> QED
    BY <1>q, <2>4, <2>5, <2>6
<1>4. CASE pc[t] = "rel_dev"
  <2> DEFINE r == loc[t].fd
  <2>1. held'[t] = held[t] /\ InCall(t)' = {} /\ InCall(t) = {r}
    BY <1>4, MineStep
  <2>2. Mine(t)' = Mine(t) \ {r} /\ r \in Mine(t)
    BY <1>1, <2>1 DEF Mine
  <2>3. \A u \in Threads : held'[u] \cap InCall(u)' = {}
    BY <1>0, <1>1, <2>1
  <2>4. \A u, v \in Threads : u # v => Mine(u)' \cap Mine(v)' = {}
    BY <1>0, <1>1, <2>2
  <2>5. \A f \in Fds : f > 2 => (alt_fd_list'[f].dev # NoDev <=> \E u \in Threads : f \in Mine(u)')
    <3> SUFFICES ASSUME NEW f \in Fds, f > 2
                 PROVE  alt_fd_list'[f].dev # NoDev <=> \E u \in Threads : f \in Mine(u)'
      OBVIOUS
    <3>1. alt_fd_list'[f].dev = IF f = r THEN NoDev ELSE alt_fd_list[f].dev
      BY <1>2, <1>4 DEF NewDev
    <3>2. (\E u \in Threads : f \in Mine(u)') <=> f # r /\ \E u \in Threads : f \in Mine(u)
      BY <1>0, <1>1, <2>2
    <3> QED
      BY <1>1, <3>1, <3>2
  <2> QED
    BY <1>q, <2>3, <2>4, <2>5
<1>5. CASE pc[t] \notin {"take", "rel_dev"}
  <2>1. \A u \in Threads : Mine(u)' = Mine(u) /\ held'[u] \cap InCall(u)' = {}
    BY <1>0, <1>1, <1>5, MineStep
  <2>2. \A f \in Fds : f > 2 => alt_fd_list'[f].dev = alt_fd_list[f].dev
    BY <1>2, <1>5, <1>c DEF NewDev
  <2> QED
    BY <1>1, <1>q, <2>1, <2>2
<1> QED
  BY <1>3, <1>4, <1>5

\* Start up changes no descriptor.
LEMMA BaseStartup ==
  ASSUME Base, Startup
  PROVE  Base'
<1>1. UNCHANGED <<alt_fd_list, alt_max_fd, alt_fd_list_lock, pc, loc, held, granted>>
  BY DEF Startup, alt_dev_reg, alt_fs_reg, alt_io_redirect, pool, sem
<1>2. Types'
  BY TypesStartup DEF Base
<1>3. Semaphore' /\ StreamsInUse' /\ PoolConserved'
  BY <1>1 DEF Base, Semaphore, StreamsInUse, PoolConserved, InCall
<1>4. Working'
  BY <1>1 DEF Base, Working, Works
<1>5. Booting'
  <2>1. todo = <<"register">> /\ (todo' = todo \/ todo' = <<"stdout", "stdin", "stderr">>)
    BY DEF Startup, alt_dev_reg, alt_fs_reg, alt_io_redirect
  <2>2. todo # << >> /\ Head(todo) \notin Streams
    BY <2>1 DEF Streams
  <2> QED
    BY <1>1, <2>1, <2>2 DEF Base, Booting, Boots
<1> QED
  BY <1>2, <1>3, <1>4, <1>5 DEF Base

\* Every step keeps the first part of the invariant.
LEMMA BaseStep ==
  ASSUME Base, Next
  PROVE  Base'
<1>1. ASSUME NEW t \in Threads, Acts(t) PROVE Base'
  <2>1. Types' /\ Semaphore' /\ StreamsInUse' /\ PoolConserved'
    BY <1>1, TypesStep, SemaphoreStep, StreamsInUseStep, PoolStep
  <2>2. Working'
    BY <1>1, SelfWorks, OthersWork DEF Working
  <2>3. todo' # << >> => granted' = {}
    BY <1>1, TodoStep, GrantedStep
  <2>4. Booting'
    BY <1>1, <2>3, SelfBoots, OthersBoot DEF Booting
  <2> QED
    BY <2>1, <2>2, <2>4 DEF Base
<1> QED
  BY <1>1, BaseStartup, NextActs

----------------------------------------------------------------------------
(* Locks.                                                                  *)

\* The descriptors whose flags a step of thread t may change.
Touched(t) ==
  CASE pc[t] = "idle" -> Usable(t)
    [] pc[t] \in {"flags", "rel_flags", "lock", "set_clear", "set_store"} -> {loc[t].fd}
    [] pc[t] = "copy" -> {Filno[loc[t].slot]}
    [] OTHER -> {}

\* It changes no others.
LEMMA FlagsStep ==
  ASSUME Base, NEW t \in Threads, Acts(t), NEW f \in Fds \ Touched(t)
  PROVE  alt_fd_list'[f].flags = alt_fd_list[f].flags
<1>0. /\ alt_fd_list \in [Fds -> Entries] /\ Works(t) /\ pc \in [Threads -> Pcs]
  BY DEF Base, Types, Working
<1>1. CASE t = Main /\ alt_open_fd
  BY <1>0, <1>1 DEF alt_open_fd, pool
<1>2. CASE ClientOpen(t)
  BY <1>0, <1>2 DEF Touched, pool, ClientOpen, OpenStart, Go
<1>3. CASE ClientStat(t)
  BY <1>0, <1>3 DEF Touched, pool, ClientStat, OpenStart, Go
<1>4. CASE ALT_CLOSE(t)
  BY <1>0, <1>4 DEF Touched, pool, ALT_CLOSE, Go, WorkOn
<1>5. CASE IoctlLock(t)
  BY <1>0, <1>5 DEF Touched, pool, IoctlLock, Go, WorkOn
<1>6. CASE alt_fd_unlock(t)
  BY <1>0, <1>6 DEF Touched, alt_fd_unlock, SetFlags
<1>7. CASE ALT_FCNTL(t)
  BY <1>0, <1>7 DEF Touched, pool, ALT_FCNTL, Go
<1>8. CASE GetPend(t)
  BY <1>0, <1>8 DEF Touched, pool, GetPend, Go, LookAt, Pend
<1>9. CASE alt_get_fd(t)
  BY <1>0, <1>9 DEF Touched, pool, alt_get_fd, Go, LookAt, PoolFull, Finish
<1>10. CASE TakeFd(t)
  BY <1>0, <1>10 DEF Touched, TakeFd, Go, WorkOn
<1>11. CASE OpenSetFlags(t)
  BY <1>0, <1>11 DEF Touched, OpenSetFlags, Go, LookAt, SetFlags
<1>12. CASE alt_file_locked(t)
  BY <1>0, <1>12 DEF Touched, pool, alt_file_locked, Go, LookAt
<1>13. CASE OpenCallback(t)
  BY <1>0, <1>13 DEF Touched, pool, OpenCallback, Go, Finish
<1>14. CASE RedirectCopy(t)
  BY <1>0, <1>14 DEF Touched, RedirectCopy, Go
<1>15. CASE StatClose(t)
  BY <1>0, <1>15 DEF Touched, pool, StatClose, Go
<1>16. CASE ReleaseFlags(t)
  BY <1>0, <1>16 DEF Touched, ReleaseFlags, Go, SetFlags
<1>17. CASE ReleaseDev(t)
  BY <1>0, <1>17 DEF Touched, Entries, ReleaseDev, Finish
<1>18. CASE LockPend(t)
  BY <1>0, <1>18 DEF Touched, pool, LockPend, Go, LookAt, Pend
<1>19. CASE alt_fd_lock(t)
  BY <1>0, <1>19 DEF Touched, alt_fd_lock, SetFlags, Finish, LookAt
<1>20. CASE SetClear(t)
  BY <1>0, <1>20 DEF Touched, SetClear, Go, SetFlags
<1>21. CASE SetLoad(t)
  BY <1>0, <1>21 DEF Touched, pool, SetLoad, Go
<1>22. CASE SetStore(t)
  BY <1>0, <1>22 DEF Touched, SetStore, SetFlags, Finish
<1> QED
  BY <1>1, <1>2, <1>3, <1>4, <1>5, <1>6, <1>7, <1>8, <1>9, <1>10, <1>11, <1>12, <1>13, <1>14, <1>15, <1>16, <1>17, <1>18, <1>19, <1>20, <1>21, <1>22 DEF Acts, Inside


\* A step of a thread touches only what is its own, once the redirection is
\* over.
LEMMA TouchesOwn ==
  ASSUME Base, ~Shared, NEW t \in Threads, Owns(t), Acts(t)
  PROVE  todo = << >> => Touched(t) \subseteq Mine(t)
<1> SUFFICES ASSUME todo = << >> PROVE Touched(t) \subseteq Mine(t)
  OBVIOUS
<1>1. Works(t) /\ Boots(t)
  BY DEF Base, Working, Booting
<1>2. pc[t] # "copy"
  BY <1>1 DEF Works, Boots
<1>3. pc[t] = "idle" => Touched(t) = held[t]
  BY DEF Touched, Usable
<1>4. pc[t] \in {"flags", "rel_flags"} => InCall(t) = {loc[t].fd}
  BY DEF InCall
<1>5. pc[t] \in {"lock", "set_clear", "set_store"} => loc[t].fd \in held[t]
  BY DEF Owns, Locking, Setting
<1> QED
  BY <1>2, <1>3, <1>4, <1>5 DEF Touched, Mine

\* Descriptors that clients have keep their device, and those of the other
\* threads their flags too.
LEMMA OwnedStay ==
  ASSUME Base, ~Shared, NEW t \in Threads, Owns(t), Acts(t), todo = << >>, NEW f \in Fds
  PROVE  /\ \A u \in Threads \ {t} : f \in Mine(u) =>
               alt_fd_list'[f].dev = alt_fd_list[f].dev /\ alt_fd_list'[f].flags = alt_fd_list[f].flags
         /\ f \in held[t] => alt_fd_list'[f].dev = alt_fd_list[f].dev
<1>1. Works(t) /\ Boots(t) /\ StreamsInUse /\ PoolConserved
  BY DEF Base, Working, Booting
<1>2. pc[t] # "copy"
  BY <1>1 DEF Works, Boots
<1>3. \A u, v \in Threads : u # v => Mine(u) \cap Mine(v) = {}
  BY <1>1 DEF PoolConserved, Mine
<1>4. pc[t] = "take" => \A u \in Threads : loc[t].i \notin Mine(u)
  <2> SUFFICES ASSUME pc[t] = "take" PROVE \A u \in Threads : loc[t].i \notin Mine(u)
    OBVIOUS
  <2>1. loc[t].i \in Fds /\ alt_fd_list[loc[t].i].dev = NoDev
    BY <1>1 DEF Works
  <2>2. loc[t].i \notin 0 .. 2 /\ loc[t].i \in Nat
    BY <1>1, <2>1, StreamsAreFirst DEF StreamsInUse
  <2>3. loc[t].i > 2
    BY <2>2
  <2> QED
    BY <1>1, <2>1, <2>3 DEF PoolConserved, Mine
<1>5. pc[t] = "rel_dev" => loc[t].fd \in Mine(t) /\ loc[t].fd \notin held[t]
  BY <1>1 DEF PoolConserved, Mine, InCall
<1>6. alt_fd_list'[f].dev = NewDev(t, f)
  BY DevStep
<1>7. f \notin Touched(t) => alt_fd_list'[f].flags = alt_fd_list[f].flags
  BY FlagsStep
<1>8. Touched(t) \subseteq Mine(t)
  BY TouchesOwn
<1>9. f \in held[t] => f \in Mine(t)
  BY DEF Mine
<1> QED
  BY <1>2, <1>3, <1>4, <1>5, <1>6, <1>7, <1>8, <1>9 DEF NewDev

\* The other threads find the flags as they left them.
LEMMA OthersOwn ==
  ASSUME Base, ~Shared, NEW t \in Threads, Owns(t), Acts(t), NEW u \in Threads \ {t}, Owns(u)
  PROVE  Owns(u)'
<1>1. pc'[u] = pc[u] /\ loc'[u] = loc[u] /\ held'[u] = held[u] /\ Works(u) /\ Boots(u) /\ Boots(t)
  BY OthersStay DEF Base, Alone, Booting, Working
<1>2. CASE todo # << >>
  <2>1. t # Main => pc[t] = "idle"
    BY <1>1, <1>2 DEF Boots
  <2>2. CASE u # Main
    BY <1>1, <1>2, <2>2 DEF Boots, Owns, Locking, Setting
  <2>3. CASE u = Main
    <3>1. Touched(t) = {}
      BY <1>1, <1>2, <2>1, <2>3 DEF Boots, Touched, Usable
    <3>2. pc[u] \in {"flags", "rel_dev"} => loc[u].fd \in Fds
      BY <1>1 DEF Works, Opened, Releasing
    <3>3. pc[u] \notin Locking \cup Setting
      BY <1>1, <1>2 DEF Boots, Opening, Searching, Opened, Releasing, Locking, Setting
    <3> QED
      BY <1>1, <3>1, <3>2, <3>3, FlagsStep DEF Owns, Setting
  <2> QED
    BY <2>2, <2>3
<1>3. CASE todo = << >>
  <2>1. pc[u] \in Locking \cup Setting => loc[u].fd \in Mine(u)
    BY DEF Owns, Mine
  <2>2. pc[u] \in {"flags", "rel_dev"} => loc[u].fd \in Mine(u)
    BY DEF Mine, InCall
  <2>3. pc[u] \in Locking \cup Setting \cup {"flags", "rel_dev"} => loc[u].fd \in Fds
    BY <1>1 DEF Works, Opened, Releasing
  <2>4. pc[u] \in Locking \cup Setting \cup {"flags", "rel_dev"} =>
          alt_fd_list'[loc[u].fd].flags = alt_fd_list[loc[u].fd].flags
    BY <1>3, <2>1, <2>2, <2>3, OwnedStay
  <2> QED
    BY <1>1, <2>4 DEF Owns, Setting
<1> QED
  BY <1>2, <1>3

\* The thread that makes the step has the flags right.
LEMMA SelfOwns ==
  ASSUME Base, ~Shared, Exclusive, NEW t \in Threads, Acts(t)
  PROVE  Owns(t)'
<1> USE DEF Locking, Setting
<1>0. /\ pc \in [Threads -> Pcs] /\ loc \in [Threads -> Locals] /\ alt_fd_list \in [Fds -> Entries]
      /\ held \in [Threads -> SUBSET Fds] /\ Works(t) /\ Owns(t) /\ Usable(t) = held[t]
      /\ loc[t] \in Locals
  BY DEF Base, Types, Working, Exclusive, Usable
<1>o. ASSUME NEW name, NEW flags, NEW slot, OpenStart(t, name, flags, slot)
      PROVE  Owns(t)'
  <2>1. pc'[t] \in {"idle", "get_pend"}
    BY <1>0, <1>o DEF OpenStart, Go
  <2> QED
    BY <2>1 DEF Owns
<1>1. CASE t = Main /\ alt_open_fd
  BY <1>o, <1>1 DEF alt_open_fd
<1>2. CASE ClientOpen(t)
  BY <1>o, <1>2 DEF ClientOpen
<1>3. CASE ClientStat(t)
  BY <1>o, <1>3 DEF ClientStat
<1>4. CASE ALT_CLOSE(t)
  BY <1>0, <1>4 DEF Owns, ALT_CLOSE, Go, WorkOn
<1>5. CASE IoctlLock(t)
  BY <1>0, <1>5 DEF Owns, pool, IoctlLock, Go, WorkOn
<1>6. CASE alt_fd_unlock(t)
  BY <1>0, <1>6 DEF Owns, alt_fd_unlock, SetFlags
<1>7. CASE ALT_FCNTL(t)
  BY <1>0, <1>7 DEF Works, Owns, pool, ALT_FCNTL, Go
<1>8. CASE GetPend(t)
  BY <1>0, <1>8 DEF Owns, GetPend, Go, LookAt, Pend
<1>9. CASE alt_get_fd(t)
  BY <1>0, <1>9 DEF Owns, alt_get_fd, Go, LookAt, PoolFull, Finish
<1>10. CASE TakeFd(t)
  <2>1. loc[t].i \in Fds /\ alt_fd_list[loc[t].i].dev = NoDev /\ loc[t].i > 2
    <3>1. loc[t].i \in Fds /\ alt_fd_list[loc[t].i].dev = NoDev
      BY <1>0, <1>10 DEF TakeFd, Works
    <3>2. loc[t].i \notin 0 .. 2 /\ loc[t].i \in Nat
      BY <3>1, StreamsAreFirst DEF Base, StreamsInUse
    <3> QED
      BY <3>1, <3>2
  <2>2. alt_fd_list[loc[t].i].flags = {}
    BY <2>1 DEF Exclusive, FlagsRight
  <2>3. loc'[t].fd = loc[t].i /\ alt_fd_list'[loc[t].i].flags = {} /\ pc'[t] = "flags"
    BY <1>0, <1>10, <2>1, <2>2 DEF TakeFd, WorkOn, Go
  <2> QED
    BY <2>3 DEF Owns
<1>11. CASE OpenSetFlags(t)
  BY <1>0, <1>11 DEF Owns, OpenSetFlags, Go, LookAt, SetFlags
<1>12. CASE alt_file_locked(t)
  BY <1>0, <1>12 DEF Owns, alt_file_locked, Go, LookAt
<1>13. CASE OpenCallback(t)
  BY <1>0, <1>13 DEF Owns, OpenCallback, Go, Finish
<1>14. CASE RedirectCopy(t)
  BY <1>0, <1>14 DEF Owns, RedirectCopy, Go
<1>15. CASE StatClose(t)
  BY <1>0, <1>15 DEF Owns, StatClose, Go
<1>16. CASE ReleaseFlags(t)
  BY <1>0, <1>16 DEF Works, Releasing, Releases, Owns, Entries, ReleaseFlags, Go, SetFlags
<1>17. CASE ReleaseDev(t)
  BY <1>0, <1>17 DEF Owns, ReleaseDev, Finish
<1>18. CASE LockPend(t)
  BY <1>0, <1>18 DEF Owns, pool, LockPend, Go, LookAt, Pend
<1>19. CASE alt_fd_lock(t)
  BY <1>0, <1>19 DEF Works, FlagsMask, FcntlMask, Owns, Locals, alt_fd_lock, SetFlags, Finish, LookAt
<1>20. CASE SetClear(t)
  BY <1>0, <1>20 DEF Works, FlagsMask, FcntlMask, Owns, SetClear, Go, SetFlags
<1>21. CASE SetLoad(t)
  BY <1>0, <1>21 DEF Works, Owns, pool, SetLoad, Go
<1>22. CASE SetStore(t)
  BY <1>0, <1>22 DEF Works, FlagsMask, FcntlMask, Owns, SetStore, SetFlags, Finish
<1> QED
  BY <1>1, <1>2, <1>3, <1>4, <1>5, <1>6, <1>7, <1>8, <1>9, <1>10, <1>11, <1>12, <1>13, <1>14, <1>15, <1>16, <1>17, <1>18, <1>19, <1>20, <1>21, <1>22 DEF Acts, Inside

\* A client keeps the descriptors it has locked: close() undoes the lock.
LEMMA GrantedHeld ==
  ASSUME Base, Exclusive, NEW t \in Threads, Acts(t), NEW f \in granted, f \in granted'
  PROVE  \E u \in Threads : f \in held'[u]
<1>1. PICK u \in Threads : f \in held[u]
  BY DEF Exclusive, FlagsRight, Base, Types
<1>2. CASE u # t
  BY <1>1, <1>2, OthersStay DEF Base, Alone
<1>3. CASE u = t
  <2>1. held \in [Threads -> SUBSET Fds]
    BY DEF Base, Types
  <2>2. CASE ALT_CLOSE(t)
    BY <1>1, <1>3, <2>1, <2>2 DEF ALT_CLOSE
  <2>3. CASE ~ALT_CLOSE(t)
    <3>1. held[t] \subseteq held'[t]
      BY <2>1, <2>3 DEF Acts, Inside, alt_open_fd, ClientOpen, ClientStat, IoctlLock,
         alt_fd_unlock, ALT_FCNTL, GetPend, alt_get_fd, TakeFd, OpenSetFlags, alt_file_locked,
         OpenCallback, RedirectCopy, StatClose, ReleaseFlags, ReleaseDev, LockPend, alt_fd_lock,
         SetClear, SetLoad, SetStore
    <3> QED
      BY <1>1, <1>3, <3>1
  <2> QED
    BY <2>2, <2>3
<1> QED
  BY <1>2, <1>3

\* FlagsRight is kept.
LEMMA FlagsRightStep ==
  ASSUME Base, ~Shared, Exclusive, NEW t \in Threads, Acts(t), NEW f \in Fds
  PROVE  FlagsRight(f)'
<1>0. /\ pc \in [Threads -> Pcs] /\ loc \in [Threads -> Locals] /\ alt_fd_list \in [Fds -> Entries]
      /\ Works(t) /\ Owns(t) /\ Usable(t) = held[t] /\ FlagsRight(f) /\ loc[t] \in Locals
      /\ f \in Nat /\ Boots(t) /\ (todo # << >> => granted = {})
  BY StreamsAreFirst DEF Base, Types, Working, Exclusive, Usable, Booting
<1>d. /\ alt_fd_list'[f].dev = NewDev(t, f)
      /\ alt_max_fd' \in Int /\ alt_max_fd \in Int /\ alt_max_fd <= alt_max_fd'
  BY DevStep, MaxStep
<1>i. f \in InCall(t) => f \notin granted
  <2> SUFFICES ASSUME f \in InCall(t), f \in granted PROVE FALSE
    OBVIOUS
  <2>1. PICK u \in Threads : f \in held[u]
    BY <1>0 DEF FlagsRight
  <2> QED
    BY <2>1 DEF Base, PoolConserved
<1>g. f \in granted /\ f \in granted' => \E u \in Threads : f \in held'[u]
  BY GrantedHeld
<1>k. ASSUME alt_fd_list'[f] = alt_fd_list[f], granted' \subseteq granted
      PROVE  FlagsRight(f)'
  BY <1>0, <1>d, <1>g, <1>k DEF FlagsRight
<1>n. ASSUME alt_fd_list' = alt_fd_list, granted' = granted
      PROVE  FlagsRight(f)'
  BY <1>k, <1>n
<1>1. CASE t = Main /\ alt_open_fd
  BY <1>n, <1>1 DEF alt_open_fd, pool
<1>2. CASE ClientOpen(t)
  BY <1>n, <1>2 DEF ClientOpen, pool
<1>3. CASE ClientStat(t)
  BY <1>n, <1>3 DEF ClientStat, pool
<1>4. CASE ALT_CLOSE(t)
  BY <1>k, <1>4 DEF ALT_CLOSE, pool
<1>5. CASE IoctlLock(t)
  BY <1>n, <1>5 DEF IoctlLock, pool
<1>6. CASE alt_fd_unlock(t)
  <2>1. PICK g \in held[t] : /\ SetFlags(g, alt_fd_list[g].flags \ {"EXCL"})
                             /\ granted' = granted \ {g}
    BY <1>0, <1>6 DEF alt_fd_unlock
  <2>2. CASE f # g
    BY <1>0, <1>k, <2>1, <2>2 DEF SetFlags
  <2>3. CASE f = g
    <3>1. alt_fd_list'[f].flags = alt_fd_list[f].flags \ {"EXCL"} /\ alt_fd_list'[f].dev = alt_fd_list[f].dev
      BY <1>0, <2>1, <2>3 DEF SetFlags
    <3> QED
      BY <1>0, <1>d, <2>1, <2>3, <3>1 DEF FlagsRight
  <2> QED
    BY <2>2, <2>3
<1>7. CASE ALT_FCNTL(t)
  BY <1>n, <1>7 DEF ALT_FCNTL, pool
<1>8. CASE GetPend(t)
  BY <1>n, <1>8 DEF GetPend, pool
<1>9. CASE alt_get_fd(t)
  BY <1>n, <1>9 DEF alt_get_fd, pool
<1>10. CASE TakeFd(t)
  <2>1. /\ pc[t] = "take" /\ alt_fd_list[loc[t].i].dev = NoDev /\ loc[t].i \in Fds /\ granted' = granted
        /\ alt_fd_list' = [alt_fd_list EXCEPT ![loc[t].i].dev = loc[t].dev]
    BY <1>0, <1>10 DEF TakeFd, Works
  <2>2. CASE f # loc[t].i
    BY <1>0, <1>k, <2>1, <2>2
  <2>3. CASE f = loc[t].i
    <3>1. f > 2
      <4>1. f \notin 0 .. 2
        BY <2>1, <2>3 DEF Base, StreamsInUse
      <4> QED
        BY <1>0, <4>1
    <3>2. alt_fd_list[f].flags = {} /\ alt_fd_list'[f].flags = {}
      BY <1>0, <2>1, <2>3, <3>1 DEF FlagsRight
    <3>3. f \notin granted
      BY <1>0, <3>2 DEF FlagsRight
    <3> QED
      BY <2>1, <3>2, <3>3 DEF FlagsRight
  <2> QED
    BY <2>2, <2>3
<1>11. CASE OpenSetFlags(t)
  <2> DEFINE new == (loc[t].flags \ FlagsMask) \cup (IF loc[t].isafs THEN {} ELSE {"DEV"})
  <2>1. /\ pc[t] = "flags" /\ granted' = granted /\ alt_max_fd' = alt_max_fd
        /\ alt_fd_list' = [alt_fd_list EXCEPT ![loc[t].fd].flags = new]
    BY <1>11 DEF OpenSetFlags, SetFlags
  <2>2. CASE f # loc[t].fd
    BY <1>0, <1>k, <2>1, <2>2
  <2>3. CASE f = loc[t].fd
    <3>1. f \notin granted
      BY <1>i, <2>1, <2>3 DEF InCall
    <3>2. /\ loc[t].dev # NoDev /\ (loc[t].isafs <=> loc[t].dev \in Filesystems)
          /\ f <= alt_max_fd /\ alt_fd_list[f].dev = loc[t].dev
      BY <1>0, <2>1, <2>3 DEF Works, Opening, Opened
    <3>3. alt_fd_list'[f].flags = new /\ alt_fd_list'[f].dev = loc[t].dev
      BY <1>0, <2>1, <2>3, <3>2 DEF Entries
    <3>4. "DEV" \in new => ~loc[t].isafs
      BY DEF FlagsMask
    <3> QED
      BY <2>1, <3>1, <3>2, <3>3, <3>4 DEF FlagsRight
  <2> QED
    BY <2>2, <2>3
<1>12. CASE alt_file_locked(t)
  BY <1>n, <1>12 DEF alt_file_locked, pool
<1>13. CASE OpenCallback(t)
  BY <1>n, <1>13 DEF OpenCallback, pool
<1>14. CASE RedirectCopy(t)
  <2> DEFINE g == Filno[loc[t].slot]
  <2>1. /\ pc[t] = "copy" /\ granted' = granted /\ alt_max_fd' = alt_max_fd
        /\ alt_fd_list' = [alt_fd_list EXCEPT ![g] = alt_fd_list[loc[t].fd]]
    BY <1>14 DEF RedirectCopy
  <2>2. CASE f # g
    BY <1>0, <1>k, <2>1, <2>2
  <2>3. CASE f = g
    <3>1. /\ loc[t].slot \in Streams /\ loc[t].fd \in Fds /\ loc[t].fd > 2 /\ loc[t].fd \in Nat
          /\ alt_fd_list[loc[t].fd].dev # NoDev
      BY <1>0, <2>1, StreamsAreFirst DEF Works, Opening, Opened
    <3>2. f \in 0 .. 2
      BY <2>3, <3>1, StreamsAreFirst
    <3>3. granted = {}
      BY <1>0, <3>1 DEF Boots
    <3>4. "DEV" \in alt_fd_list[loc[t].fd].flags =>
             alt_fd_list[loc[t].fd].dev \notin Filesystems \cup {NoDev} /\ loc[t].fd <= alt_max_fd
      BY <3>1 DEF Exclusive, FlagsRight
    <3>5. alt_fd_list'[f] = alt_fd_list[loc[t].fd]
      BY <1>0, <2>1, <2>3
    <3> QED
      BY <1>d, <2>1, <3>1, <3>2, <3>3, <3>4, <3>5 DEF FlagsRight
  <2> QED
    BY <2>2, <2>3
<1>15. CASE StatClose(t)
  BY <1>n, <1>15 DEF StatClose, pool
<1>16. CASE ReleaseFlags(t)
  <2>1. pc[t] = "rel_flags" /\ granted' = granted /\ loc[t].fd \in Fds
    BY <1>0, <1>16 DEF ReleaseFlags, Works, Releasing
  <2>2. CASE f # loc[t].fd \/ ~Releases(loc[t].fd)
    BY <1>0, <1>k, <1>16, <2>1, <2>2 DEF ReleaseFlags, SetFlags
  <2>3. CASE f = loc[t].fd /\ Releases(loc[t].fd)
    <3>1. f \notin granted
      BY <1>i, <2>1, <2>3 DEF InCall
    <3>2. alt_fd_list'[f].flags = {}
      BY <1>0, <1>16, <2>3 DEF ReleaseFlags, SetFlags, Entries
    <3> QED
      BY <2>1, <3>1, <3>2 DEF FlagsRight
  <2> QED
    BY <2>2, <2>3
<1>17. CASE ReleaseDev(t)
  <2>1. pc[t] = "rel_dev" /\ granted' = granted /\ loc[t].fd \in Fds
    BY <1>0, <1>17 DEF ReleaseDev, Works, Releasing
  <2>2. CASE f # loc[t].fd \/ ~Releases(loc[t].fd)
    BY <1>0, <1>k, <1>17, <2>1, <2>2 DEF ReleaseDev
  <2>3. CASE f = loc[t].fd /\ Releases(loc[t].fd)
    <3>1. f \notin granted
      BY <1>i, <2>1, <2>3 DEF InCall
    <3>2. alt_fd_list[f].flags = {}
      BY <1>0, <2>1, <2>3 DEF Owns, Releases
    <3>3. alt_fd_list'[f].flags = {}
      BY <1>0, <1>17, <2>3, <3>2 DEF ReleaseDev, Entries
    <3> QED
      BY <2>1, <3>1, <3>3 DEF FlagsRight
  <2> QED
    BY <2>2, <2>3
<1>18. CASE LockPend(t)
  BY <1>n, <1>18 DEF LockPend, pool
<1>19. CASE alt_fd_lock(t)
  <2>1. pc[t] = "lock" /\ held' = held /\ loc[t].fd \in held[t] /\ loc[t].fd \in Fds
        /\ "DEV" \in alt_fd_list[loc[t].fd].flags /\ alt_max_fd' = alt_max_fd
    BY <1>0, <1>19 DEF alt_fd_lock, Works, Owns, Locking
  <2>2. CASE UNCHANGED <<alt_fd_list, granted>>
    BY <1>n, <2>2
  <2>3. CASE /\ SetFlags(loc[t].fd, alt_fd_list[loc[t].fd].flags \cup {"EXCL"})
             /\ granted' = granted \cup {loc[t].fd}
    <3>1. CASE f # loc[t].fd
      <4>1. alt_fd_list'[f] = alt_fd_list[f] /\ (f \in granted' => f \in granted)
        BY <1>0, <2>3, <3>1 DEF SetFlags
      <4> QED
        BY <1>0, <2>1, <4>1 DEF FlagsRight
    <3>2. CASE f = loc[t].fd
      <4>1. /\ alt_fd_list'[f].flags = alt_fd_list[f].flags \cup {"EXCL"}
            /\ alt_fd_list'[f].dev = alt_fd_list[f].dev
        BY <1>0, <2>3, <3>2 DEF SetFlags
      <4> QED
        BY <1>0, <2>1, <3>2, <4>1 DEF FlagsRight
    <3> QED
      BY <3>1, <3>2
  <2> QED
    BY <1>19, <2>2, <2>3 DEF alt_fd_lock
<1>20. CASE SetClear(t)
  <2> DEFINE new == loc[t].flags \ FcntlMask
  <2>1. /\ pc[t] = "set_clear" /\ granted' = granted /\ held' = held /\ alt_max_fd' = alt_max_fd
        /\ SetFlags(loc[t].fd, new)
    BY <1>20 DEF SetClear
  <2>2. CASE f # loc[t].fd
    BY <1>0, <1>k, <2>1, <2>2 DEF SetFlags
  <2>3. CASE f = loc[t].fd
    <3>1. f \in held[t] /\ \A b \in FlagsMask : b \in loc[t].flags <=> b \in alt_fd_list[f].flags
      BY <1>0, <2>1, <2>3 DEF Owns, Setting
    <3>2. \A b \in FlagsMask : b \in new <=> b \in alt_fd_list[f].flags
      BY <3>1 DEF FlagsMask, FcntlMask
    <3>3. alt_fd_list'[f].flags = new /\ alt_fd_list'[f].dev = alt_fd_list[f].dev
      BY <1>0, <2>1, <2>3 DEF SetFlags
    <3>4. f > 2 => alt_fd_list[f].dev # NoDev
      BY <3>1 DEF Base, PoolConserved
    <3>5. "EXCL" \in FlagsMask /\ "DEV" \in FlagsMask
      BY DEF FlagsMask
    <3> HIDE DEF new
    <3> QED
      BY <1>0, <2>1, <3>2, <3>3, <3>4, <3>5 DEF FlagsRight
  <2> QED
    BY <2>2, <2>3
<1>21. CASE SetLoad(t)
  BY <1>n, <1>21 DEF SetLoad, pool
<1>22. CASE SetStore(t)
  <2>0. PICK arg \in OpenFlags : SetFlags(loc[t].fd, loc[t].flags \cup (arg \cap FcntlMask))
    BY <1>22 DEF SetStore
  <2> DEFINE new == loc[t].flags \cup (arg \cap FcntlMask)
  <2>1. /\ pc[t] = "set_store" /\ granted' = granted /\ held' = held /\ alt_max_fd' = alt_max_fd
        /\ SetFlags(loc[t].fd, new)
    BY <1>22, <2>0 DEF SetStore
  <2>2. CASE f # loc[t].fd
    BY <1>0, <1>k, <2>1, <2>2 DEF SetFlags
  <2>3. CASE f = loc[t].fd
    <3>1. f \in held[t] /\ \A b \in FlagsMask : b \in loc[t].flags <=> b \in alt_fd_list[f].flags
      BY <1>0, <2>1, <2>3 DEF Owns, Setting
    <3>2. \A b \in FlagsMask : b \in new <=> b \in alt_fd_list[f].flags
      BY <3>1 DEF FlagsMask, FcntlMask
    <3>3. alt_fd_list'[f].flags = new /\ alt_fd_list'[f].dev = alt_fd_list[f].dev
      BY <1>0, <2>1, <2>3 DEF SetFlags
    <3>4. f > 2 => alt_fd_list[f].dev # NoDev
      BY <3>1 DEF Base, PoolConserved
    <3>5. "EXCL" \in FlagsMask /\ "DEV" \in FlagsMask
      BY DEF FlagsMask
    <3> HIDE DEF new
    <3> QED
      BY <1>0, <2>1, <3>2, <3>3, <3>4, <3>5 DEF FlagsRight
  <2> QED
    BY <2>2, <2>3
<1> QED
  BY <1>1, <1>2, <1>3, <1>4, <1>5, <1>6, <1>7, <1>8, <1>9, <1>10, <1>11, <1>12, <1>13, <1>14, <1>15, <1>16, <1>17, <1>18, <1>19, <1>20, <1>21, <1>22 DEF Acts, Inside

\* The first part of what is said of locks is kept.
LEMMA ExclusiveStep ==
  ASSUME Base, ~Shared, Exclusive, Next
  PROVE  Exclusive'
<1>1. ASSUME NEW t \in Threads, Acts(t) PROVE Exclusive'
  <2>1. ASSUME NEW u \in Threads PROVE Owns(u)'
    BY <1>1, SelfOwns, OthersOwn DEF Exclusive
  <2> QED
    BY <1>1, <2>1, FlagsRightStep DEF Exclusive
<1>2. ASSUME Startup PROVE Exclusive'
  <2>1. UNCHANGED <<alt_fd_list, alt_max_fd, pc, loc, held, granted>>
    BY <1>2 DEF Startup, alt_dev_reg, alt_fs_reg, alt_io_redirect, pool
  <2> QED
    BY <2>1 DEF Exclusive, Owns, FlagsRight
<1> QED
  BY <1>1, <1>2, NextActs

\* After start up no device appears on a descriptor but in alt_get_fd.
LEMMA NewDevices ==
  ASSUME Base, NEW t \in Threads, Acts(t), todo = << >>, NEW f \in Fds
  PROVE  \/ alt_fd_list'[f].dev \in {alt_fd_list[f].dev, NoDev}
         \/ pc[t] = "take" /\ f = loc[t].i
<1>1. Works(t) /\ Boots(t)
  BY DEF Base, Working, Booting
<1>2. pc[t] # "copy"
  BY <1>1 DEF Works, Boots
<1> QED
  BY <1>2, DevStep DEF NewDev

\* What the scan of alt_fd_lock has seen stays so: it holds the semaphore.
LEMMA OthersScanned ==
  ASSUME Base, ~Shared, Exclusive, LockOrder, NEW t \in Threads, Acts(t),
         NEW u \in Threads \ {t}
  PROVE  Scanned(u)'
<1>1. pc'[u] = pc[u] /\ loc'[u] = loc[u]
  BY OthersStay DEF Base, Alone
<1> SUFFICES ASSUME pc[u] = "lock", NEW k \in Fds, k < loc[u].i, k # loc[u].fd
             PROVE  alt_fd_list'[k].dev # alt_fd_list'[loc[u].fd].dev
  BY <1>1 DEF Scanned, SameDevice
<1>2. pc[t] # "take"
  BY DEF Base, Semaphore
<1>3. Owns(u) /\ Owns(t) /\ Boots(u) /\ Works(u) /\ Scanned(u)
  BY DEF Base, Working, Booting, Exclusive, LockOrder
<1>4. todo = << >>
  BY <1>3 DEF Boots, Opening, Searching, Opened, Releasing
<1>5. /\ loc[u].fd \in Fds /\ loc[u].fd \in held[u]
      /\ "DEV" \in alt_fd_list[loc[u].fd].flags
  BY <1>3 DEF Owns, Works, Locking
<1>6. alt_fd_list[loc[u].fd].dev # NoDev
  BY <1>5 DEF Exclusive, FlagsRight
<1>7. alt_fd_list'[loc[u].fd].dev = alt_fd_list[loc[u].fd].dev
  BY <1>3, <1>4, <1>5, OwnedStay DEF Mine
<1>8. alt_fd_list[k].dev # alt_fd_list[loc[u].fd].dev
  BY <1>3 DEF Scanned, SameDevice
<1> QED
  BY <1>2, <1>4, <1>6, <1>7, <1>8, NewDevices

\* The scan begins at the first descriptor and goes on with the next.
LEMMA ScanStep ==
  ASSUME Base, NEW t \in Threads, Acts(t), pc'[t] = "lock"
  PROVE  \/ pc[t] = "lock_pend" /\ loc'[t].i = 0
         \/ /\ pc[t] = "lock" /\ alt_fd_list' = alt_fd_list
            /\ loc'[t].i = loc[t].i + 1 /\ loc'[t].fd = loc[t].fd /\ loc[t].i \in Nat
            /\ loc[t].i = loc[t].fd \/ ~SameDevice(loc[t].i, loc[t].fd)
<1>0. /\ pc \in [Threads -> Pcs] /\ loc \in [Threads -> Locals]
      /\ loc[t] \in Locals
  BY DEF Base, Types
<1>o. ASSUME NEW name, NEW flags, NEW slot, OpenStart(t, name, flags, slot)
      PROVE  FALSE
  BY <1>0, <1>o DEF OpenStart, Go
<1>1. CASE t = Main /\ alt_open_fd
  BY <1>o, <1>1 DEF alt_open_fd
<1>2. CASE ClientOpen(t)
  BY <1>o, <1>2 DEF ClientOpen
<1>3. CASE ClientStat(t)
  BY <1>o, <1>3 DEF ClientStat
<1>4. CASE ALT_CLOSE(t)
  BY <1>0, <1>4 DEF ALT_CLOSE, Go, WorkOn
<1>5. CASE IoctlLock(t)
  BY <1>0, <1>5 DEF IoctlLock, Go, WorkOn
<1>6. CASE alt_fd_unlock(t)
  BY <1>0, <1>6 DEF alt_fd_unlock, SetFlags
<1>7. CASE ALT_FCNTL(t)
  BY <1>0, <1>7 DEF ALT_FCNTL, Go
<1>8. CASE GetPend(t)
  BY <1>0, <1>8 DEF GetPend, Go, LookAt, Pend
<1>9. CASE alt_get_fd(t)
  BY <1>0, <1>9 DEF alt_get_fd, Go, LookAt, PoolFull, Finish
<1>10. CASE TakeFd(t)
  BY <1>0, <1>10 DEF TakeFd, Go, WorkOn
<1>11. CASE OpenSetFlags(t)
  BY <1>0, <1>11 DEF OpenSetFlags, Go, LookAt, SetFlags
<1>12. CASE alt_file_locked(t)
  BY <1>0, <1>12 DEF alt_file_locked, Go, LookAt
<1>13. CASE OpenCallback(t)
  BY <1>0, <1>13 DEF OpenCallback, Go, Finish
<1>14. CASE RedirectCopy(t)
  BY <1>0, <1>14 DEF RedirectCopy, Go
<1>15. CASE StatClose(t)
  BY <1>0, <1>15 DEF StatClose, Go
<1>16. CASE ReleaseFlags(t)
  BY <1>0, <1>16 DEF ReleaseFlags, Go, SetFlags
<1>17. CASE ReleaseDev(t)
  BY <1>0, <1>17 DEF ReleaseDev, Finish
<1>18. CASE LockPend(t)
  BY <1>0, <1>18 DEF LockPend, Go, LookAt, Pend
<1>19. CASE alt_fd_lock(t)
  BY <1>0, <1>19 DEF alt_fd_lock, SetFlags, Finish, LookAt, SameDevice, Locals
<1>20. CASE SetClear(t)
  BY <1>0, <1>20 DEF SetClear, Go, SetFlags
<1>21. CASE SetLoad(t)
  BY <1>0, <1>21 DEF SetLoad, Go
<1>22. CASE SetStore(t)
  BY <1>0, <1>22 DEF SetStore, SetFlags, Finish
<1> QED
  BY <1>1, <1>2, <1>3, <1>4, <1>5, <1>6, <1>7, <1>8, <1>9, <1>10, <1>11, <1>12, <1>13, <1>14, <1>15, <1>16, <1>17, <1>18, <1>19, <1>20, <1>21, <1>22 DEF Acts, Inside

\* The thread that scans keeps its account.
LEMMA SelfScanned ==
  ASSUME Base, LockOrder, NEW t \in Threads, Acts(t)
  PROVE  Scanned(t)'
<1> SUFFICES ASSUME pc'[t] = "lock" PROVE Scanned(t)'
  BY DEF Scanned
<1>1. CASE pc[t] = "lock_pend" /\ loc'[t].i = 0
  BY <1>1, StreamsAreFirst DEF Scanned
<1>2. CASE /\ pc[t] = "lock" /\ alt_fd_list' = alt_fd_list
           /\ loc'[t].i = loc[t].i + 1 /\ loc'[t].fd = loc[t].fd /\ loc[t].i \in Nat
           /\ loc[t].i = loc[t].fd \/ ~SameDevice(loc[t].i, loc[t].fd)
  <2> SUFFICES ASSUME NEW k \in Fds, k < loc[t].i + 1, k # loc[t].fd
               PROVE  ~SameDevice(k, loc[t].fd)
    BY <1>2 DEF Scanned, SameDevice
  <2>1. k < loc[t].i \/ k = loc[t].i
    BY <1>2, StreamsAreFirst
  <2>2. Scanned(t)
    BY DEF LockOrder
  <2> QED
    BY <1>2, <2>1, <2>2 DEF Scanned
<1> QED
  BY <1>1, <1>2, ScanStep

\* An open() that is to find the lock of f goes on towards it.
LEMMA SeeStep ==
  ASSUME Base, Exclusive, NEW t \in Threads, Acts(t), NEW f \in granted, NEW g \in Fds,
         g < f, SameDevice(g, f), WillSee(t, g, f), alt_fd_list'[g].dev # NoDev
  PROVE  WillSee(t, g, f)'
<1>0. /\ pc \in [Threads -> Pcs] /\ loc \in [Threads -> Locals] /\ loc[t] \in Locals
      /\ Works(t) /\ f \in Fds /\ f \in Nat /\ g \in Nat /\ FlagsRight(f)
      /\ alt_max_fd \in Int
  BY StreamsAreFirst DEF Base, Types, Working, Exclusive
<1>1. loc[t].fd = g /\ g > 2 /\ pc[t] \in {"flags", "locked", "rel_flags", "rel_dev"}
  BY DEF WillSee, InCall
<1>2. CASE pc[t] = "flags"
  <2>1. OpenSetFlags(t)
    BY <1>2 DEF Acts, Inside, alt_open_fd, OpenStart, ClientOpen, ClientStat, ALT_CLOSE, IoctlLock,
       alt_fd_unlock, ALT_FCNTL, GetPend, alt_get_fd, TakeFd, OpenSetFlags, alt_file_locked,
       OpenCallback, RedirectCopy, StatClose, ReleaseFlags, ReleaseDev, LockPend, alt_fd_lock,
       SetClear, SetLoad, SetStore
  <2>2. ~loc[t].isafs
    <3>1. alt_fd_list[f].dev \notin Filesystems
      BY <1>0 DEF FlagsRight
    <3>2. alt_fd_list[g].dev = loc[t].dev /\ (loc[t].isafs <=> loc[t].dev \in Filesystems)
      BY <1>0, <1>1, <1>2 DEF Works, Opening, Opened
    <3> QED
      BY <3>1, <3>2 DEF SameDevice
  <2>3. pc'[t] = "locked" /\ loc'[t].i = 0 /\ loc'[t].fd = g
    BY <1>0, <1>1, <2>1, <2>2 DEF OpenSetFlags, Go, LookAt
  <2> QED
    BY <1>0, <1>1, <2>3 DEF WillSee, InCall
<1>3. CASE pc[t] = "locked"
  <2>1. alt_file_locked(t)
    BY <1>3 DEF Acts, Inside, alt_open_fd, OpenStart, ClientOpen, ClientStat, ALT_CLOSE, IoctlLock,
       alt_fd_unlock, ALT_FCNTL, GetPend, alt_get_fd, TakeFd, OpenSetFlags, alt_file_locked,
       OpenCallback, RedirectCopy, StatClose, ReleaseFlags, ReleaseDev, LockPend, alt_fd_lock,
       SetClear, SetLoad, SetStore
  <2>2. loc[t].i <= f /\ f <= alt_max_fd /\ loc[t].i \in Nat /\ "EXCL" \in alt_fd_list[f].flags
    BY <1>0, <1>3 DEF WillSee, FlagsRight, Locals
  <2>3. ~(loc[t].i > alt_max_fd)
    BY <1>0, <2>2
  <2>4. CASE LockedBy(loc[t].i, loc[t].fd)
    <3>1. pc'[t] = "rel_flags" /\ loc' = loc
      BY <1>0, <2>1, <2>3, <2>4 DEF alt_file_locked, Go
    <3> QED
      BY <1>1, <3>1 DEF WillSee, InCall
  <2>5. CASE ~LockedBy(loc[t].i, loc[t].fd)
    <3>1. loc[t].i # f
      BY <1>0, <1>1, <2>2, <2>5 DEF LockedBy, SameDevice
    <3>2. pc' = pc /\ loc'[t].i = loc[t].i + 1 /\ loc'[t].fd = g
      BY <1>0, <1>1, <2>1, <2>3, <2>5 DEF alt_file_locked, LookAt, Locals
    <3>3. loc[t].i + 1 <= f
      BY <1>0, <2>2, <3>1
    <3> QED
      BY <1>1, <1>3, <3>2, <3>3 DEF WillSee, InCall
  <2> QED
    BY <2>4, <2>5
<1>4. CASE pc[t] = "rel_flags"
  <2>1. ReleaseFlags(t)
    BY <1>4 DEF Acts, Inside, alt_open_fd, OpenStart, ClientOpen, ClientStat, ALT_CLOSE, IoctlLock,
       alt_fd_unlock, ALT_FCNTL, GetPend, alt_get_fd, TakeFd, OpenSetFlags, alt_file_locked,
       OpenCallback, RedirectCopy, StatClose, ReleaseFlags, ReleaseDev, LockPend, alt_fd_lock,
       SetClear, SetLoad, SetStore
  <2>2. pc'[t] = "rel_dev" /\ loc' = loc
    BY <1>0, <2>1 DEF ReleaseFlags, Go
  <2> QED
    BY <1>1, <2>2 DEF WillSee, InCall
<1>5. CASE pc[t] = "rel_dev"
  BY <1>1, <1>5, DevStep DEF NewDev
<1> QED
  BY <1>1, <1>2, <1>3, <1>4, <1>5

\* Below a descriptor that stays locked.
LEMMA OldChased ==
  ASSUME Base, ~Shared, Exclusive, LockOrder, NEW t \in Threads, Acts(t), NEW f \in granted
  PROVE  Chased(f)'
<1>0. /\ f \in Fds /\ FlagsRight(f) /\ Owns(t) /\ Chased(f) /\ (todo # << >> => granted = {})
      /\ Works(t)
  BY DEF Base, Types, Exclusive, LockOrder, Booting, Working
<1>1. todo = << >>
  BY <1>0
<1>2. alt_fd_list[f].dev # NoDev
  BY <1>0 DEF FlagsRight
<1>3. PICK o \in Threads : f \in held[o]
  BY <1>0 DEF FlagsRight
<1>4. alt_fd_list'[f].dev = alt_fd_list[f].dev
  BY <1>0, <1>1, <1>3, OwnedStay DEF Mine
<1> SUFFICES ASSUME NEW g \in Fds, g < f, alt_fd_list'[g].dev = alt_fd_list'[f].dev
             PROVE  \E u \in Threads : WillSee(u, g, f)'
  BY DEF Chased, SameDevice
<1>5. CASE alt_fd_list'[g].dev = alt_fd_list[g].dev
  <2>1. SameDevice(g, f)
    BY <1>4, <1>5 DEF SameDevice
  <2>2. PICK u \in Threads : WillSee(u, g, f)
    BY <1>0, <2>1 DEF Chased
  <2>3. CASE u = t
    BY <1>2, <1>4, <2>1, <2>2, <2>3, SeeStep
  <2>4. CASE u # t
    <3>1. pc'[u] = pc[u] /\ loc'[u] = loc[u]
      BY <2>4, OthersStay DEF Base, Alone
    <3> QED
      BY <2>2, <3>1 DEF WillSee, InCall
  <2> QED
    BY <2>3, <2>4
<1>6. CASE alt_fd_list'[g].dev # alt_fd_list[g].dev
  <2>1. pc[t] = "take" /\ g = loc[t].i
    BY <1>1, <1>2, <1>4, <1>6, NewDevices
  <2>2. InCall(t)' = {g}
    BY <2>1, MineStep
  <2>3. g > 2
    <3>1. alt_fd_list[g].dev = NoDev
      BY <1>0, <2>1 DEF Works
    <3>2. g \notin 0 .. 2 /\ g \in Nat
      BY <3>1, StreamsAreFirst DEF Base, StreamsInUse
    <3> QED
      BY <3>2
  <2>4. pc'[t] = "flags"
    BY <2>1 DEF Base, Types, Go, Acts, Inside, alt_open_fd, OpenStart, ClientOpen, ClientStat, ALT_CLOSE,
       IoctlLock, alt_fd_unlock, ALT_FCNTL, GetPend, alt_get_fd, TakeFd, OpenSetFlags,
       alt_file_locked, OpenCallback, RedirectCopy, StatClose, ReleaseFlags, ReleaseDev, LockPend,
       alt_fd_lock, SetClear, SetLoad, SetStore
  <2> QED
    BY <2>2, <2>3, <2>4 DEF WillSee
<1> QED
  BY <1>5, <1>6

\* Below a descriptor that has just been locked: the scan has seen them all.
LEMMA NewChased ==
  ASSUME Base, ~Shared, Exclusive, LockOrder, NEW t \in Threads, Acts(t),
         NEW f \in granted', f \notin granted
  PROVE  Chased(f)'
<1>0. /\ alt_fd_list \in [Fds -> Entries] /\ Works(t) /\ Owns(t) /\ Scanned(t)
      /\ loc[t] \in Locals /\ alt_max_fd \in Int
  BY DEF Base, Types, Exclusive, LockOrder, Working
<1>1. /\ pc[t] = "lock" /\ f = loc[t].fd /\ LockScanEnds(loc[t].i)
      /\ SetFlags(f, alt_fd_list[f].flags \cup {"EXCL"})
  BY DEF Acts, Inside, alt_open_fd, ClientOpen, ClientStat, ALT_CLOSE, IoctlLock,
     alt_fd_unlock, ALT_FCNTL, GetPend, alt_get_fd, TakeFd, OpenSetFlags, alt_file_locked,
     OpenCallback, RedirectCopy, StatClose, ReleaseFlags, ReleaseDev, LockPend, alt_fd_lock,
     SetClear, SetLoad, SetStore
<1>2. f \in Fds /\ f \in Nat /\ f <= alt_max_fd
  <2>1. f \in Fds /\ "DEV" \in alt_fd_list[f].flags
    BY <1>0, <1>1 DEF Works, Owns, Locking
  <2> QED
    BY <2>1, StreamsAreFirst DEF Exclusive, FlagsRight
<1> SUFFICES ASSUME NEW g \in Fds, g < f, alt_fd_list'[g].dev = alt_fd_list'[f].dev
             PROVE  FALSE
  BY DEF Chased, SameDevice
<1>3. alt_fd_list'[g].dev = alt_fd_list[g].dev /\ alt_fd_list'[f].dev = alt_fd_list[f].dev
  BY <1>0, <1>1, <1>2 DEF SetFlags
<1>4. g < loc[t].i /\ g # f
  <2>1. loc[t].i >= alt_max_fd /\ loc[t].i \in Nat /\ g \in Nat
    BY <1>0, <1>1, StreamsAreFirst DEF LockScanEnds, Locals
  <2> QED
    BY <1>0, <1>2, <2>1
<1> QED
  BY <1>0, <1>1, <1>3, <1>4 DEF Scanned, SameDevice

\* The second part of what is said of locks is kept.
LEMMA LockOrderStep ==
  ASSUME Base, ~Shared, Exclusive, LockOrder, Next
  PROVE  LockOrder'
<1>1. ASSUME NEW t \in Threads, Acts(t) PROVE LockOrder'
  <2>1. ASSUME NEW u \in Threads PROVE Scanned(u)'
    BY <1>1, SelfScanned, OthersScanned
  <2>2. ASSUME NEW f \in granted' PROVE Chased(f)'
    BY <1>1, OldChased, NewChased
  <2> QED
    BY <2>1, <2>2 DEF LockOrder
<1>2. ASSUME Startup PROVE LockOrder'
  <2>1. UNCHANGED <<alt_fd_list, pc, loc, granted>>
    BY <1>2 DEF Startup, alt_dev_reg, alt_fs_reg, alt_io_redirect, pool
  <2> QED
    BY <2>1 DEF LockOrder, Scanned, Chased, WillSee, InCall, SameDevice
<1> QED
  BY <1>1, <1>2, NextActs

----------------------------------------------------------------------------
(* The redirection.                                                        *)

\* Nobody registers a device after start up: a name keeps its device.
LEMMA ListsStay ==
  ASSUME NEW t \in Threads, Acts(t)
  PROVE  /\ \A name : Lookup(name)' = Lookup(name)
         /\ \A s \in Streams : Requested(s)' = Requested(s)
<1>1. UNCHANGED <<alt_dev_list, alt_fs_list>>
  BY DEF lists, Acts, Inside, alt_open_fd, ClientOpen, ClientStat, ALT_CLOSE, IoctlLock,
     alt_fd_unlock, ALT_FCNTL, GetPend, alt_get_fd, TakeFd, OpenSetFlags, alt_file_locked,
     OpenCallback, RedirectCopy, StatClose, ReleaseFlags, ReleaseDev, LockPend, alt_fd_lock,
     SetClear, SetLoad, SetStore
<1>2. ASSUME NEW name PROVE Lookup(name)' = Lookup(name)
  BY <1>1 DEF Lookup, alt_find_dev, alt_find_file
<1>3. ASSUME NEW s \in Streams PROVE Requested(s)' = Requested(s)
  BY <1>1 DEF Requested, Lookup, alt_find_dev, alt_find_file
<1> QED
  BY <1>2, <1>3

\* The steps of alt_open_fd and of the open() it makes.
BootAct(t) ==
  \/ GetPend(t) \/ alt_get_fd(t) \/ TakeFd(t) \/ OpenSetFlags(t) \/ alt_file_locked(t)
  \/ OpenCallback(t) \/ RedirectCopy(t) \/ ReleaseFlags(t) \/ ReleaseDev(t)

\* Until the redirection is over those are the only ones.
LEMMA BootActs ==
  ASSUME Base, NEW t \in Threads, Acts(t), todo # << >>
  PROVE  /\ t = Main
         /\ \/ pc[t] = "idle" /\ loc[t].slot = "client" /\ alt_open_fd
            \/ loc[t].slot \in Streams /\ loc[t].slot = Head(todo) /\ BootAct(t)
<1>0. Works(t) /\ Boots(t)
  BY DEF Base, Working, Booting
<1>1. CASE pc[t] = "idle"
  <2>1. loc[t].slot = "client"
    BY <1>0, <1>1 DEF Works, Idle
  <2>2. t = Main /\ alt_open_fd
    BY <1>1 DEF Booted, Acts, Inside, ClientOpen, ClientStat, ALT_CLOSE, IoctlLock,
       alt_fd_unlock, ALT_FCNTL, GetPend, alt_get_fd, TakeFd, OpenSetFlags, alt_file_locked,
       OpenCallback, RedirectCopy, StatClose, ReleaseFlags, ReleaseDev, LockPend, alt_fd_lock,
       SetClear, SetLoad, SetStore
  <2> QED
    BY <1>1, <2>1, <2>2
<1>2. CASE pc[t] # "idle"
  <2>1. /\ loc[t].slot \in Streams /\ t = Main /\ loc[t].slot = Head(todo)
        /\ pc[t] \in {"get_pend", "get", "take", "flags", "locked", "open_cb", "copy",
                      "rel_flags", "rel_dev"}
    BY <1>0, <1>2 DEF Boots, Opening, Searching, Opened, Releasing
  <2>2. BootAct(t)
    BY <2>1 DEF BootAct, Acts, Inside, alt_open_fd, OpenStart, ClientOpen, ClientStat, ALT_CLOSE,
       IoctlLock, alt_fd_unlock, ALT_FCNTL, StatClose, LockPend, alt_fd_lock, SetClear,
       SetLoad, SetStore
  <2> QED
    BY <2>1, <2>2
<1> QED
  BY <1>1, <1>2

\* No step but fcntl() comes near the direction of a standard stream, and
\* that one puts it back.
LEMMA AccessStep ==
  ASSUME Base, NEW t \in Threads, Acts(t), Keeps(t), todo = << >>, NEW f \in 0 .. 2
  PROVE  /\ alt_fd_list'[f].dev = alt_fd_list[f].dev
         /\ alt_fd_list'[f].flags \cap Access = alt_fd_list[f].flags \cap Access
<1>0. /\ alt_fd_list \in [Fds -> Entries] /\ Works(t) /\ Boots(t) /\ pc \in [Threads -> Pcs]
      /\ f \in Fds /\ f \in Nat /\ ~(f > 2) /\ alt_fd_list[f].dev # NoDev /\ f <= 2
  BY StreamsAreFirst DEF Base, Types, Working, Booting, StreamsInUse
<1>1. pc[t] # "copy"
  BY <1>0 DEF Works, Boots
<1>2. alt_fd_list'[f].dev = alt_fd_list[f].dev
  <2>1. ~(pc[t] = "take" /\ f = loc[t].i)
    BY <1>0 DEF Works
  <2> QED
    BY <1>0, <1>1, <2>1, DevStep DEF NewDev
<1>s. ASSUME NEW g, NEW fl, SetFlags(g, fl), g = f => fl \cap Access = alt_fd_list[f].flags \cap Access
      PROVE  alt_fd_list'[f].flags \cap Access = alt_fd_list[f].flags \cap Access
  BY <1>0, <1>s DEF SetFlags
<1>3. CASE f \notin Touched(t)
  BY <1>0, <1>2, <1>3, FlagsStep
<1>4. CASE f \in Touched(t)
  <2>1. CASE pc[t] = "idle"
    <3>1. alt_fd_list' = alt_fd_list \/ \E g \in Usable(t) : SetFlags(g, alt_fd_list[g].flags \ {"EXCL"})
      BY <2>1 DEF pool, Acts, Inside, alt_open_fd, ClientOpen, ClientStat, ALT_CLOSE, IoctlLock,
         alt_fd_unlock, ALT_FCNTL, GetPend, alt_get_fd, TakeFd, OpenSetFlags, alt_file_locked,
         OpenCallback, RedirectCopy, StatClose, ReleaseFlags, ReleaseDev, LockPend, alt_fd_lock,
         SetClear, SetLoad, SetStore
    <3>2. CASE alt_fd_list' = alt_fd_list
      BY <3>2
    <3>3. ASSUME NEW g \in Usable(t), SetFlags(g, alt_fd_list[g].flags \ {"EXCL"})
          PROVE  alt_fd_list'[f].flags \cap Access = alt_fd_list[f].flags \cap Access
      <4>1. (alt_fd_list[f].flags \ {"EXCL"}) \cap Access = alt_fd_list[f].flags \cap Access
        BY DEF Access
      <4> QED
        BY <1>s, <3>3, <4>1
    <3> QED
      BY <1>2, <3>1, <3>2, <3>3
  <2>2. CASE pc[t] # "idle"
    <3>1. f = loc[t].fd /\ pc[t] \in {"flags", "rel_flags", "lock", "set_clear", "set_store"}
      BY <1>1, <1>4, <2>2 DEF Touched
    <3>2. pc[t] # "flags"
      BY <1>0, <3>1 DEF Works, Opened
    <3>3. \/ ReleaseFlags(t) \/ alt_fd_lock(t) \/ SetClear(t) \/ SetStore(t)
      BY <3>1, <3>2 DEF Acts, Inside, alt_open_fd, OpenStart, ClientOpen, ClientStat, ALT_CLOSE,
         IoctlLock, alt_fd_unlock, ALT_FCNTL, GetPend, alt_get_fd, TakeFd, OpenSetFlags,
         alt_file_locked, OpenCallback, RedirectCopy, StatClose, ReleaseDev, LockPend, SetLoad
    <3>4. CASE ReleaseFlags(t)
      BY <1>0, <3>1, <3>4 DEF ReleaseFlags, Releases
    <3>5. CASE alt_fd_lock(t)
      <4>1. alt_fd_list' = alt_fd_list \/ SetFlags(f, alt_fd_list[f].flags \cup {"EXCL"})
        BY <3>1, <3>5 DEF alt_fd_lock
      <4>2. (alt_fd_list[f].flags \cup {"EXCL"}) \cap Access = alt_fd_list[f].flags \cap Access
        BY DEF Access
      <4> QED
        BY <1>2, <1>s, <4>1, <4>2
    <3>6. CASE SetClear(t)
      <4>1. SetFlags(f, loc[t].flags \ FcntlMask) /\ pc[t] = "set_clear"
        BY <3>1, <3>6 DEF SetClear
      <4>2. loc[t].flags \cap Access = alt_fd_list[f].flags \cap Access
        BY <1>0, <3>1, <4>1 DEF Keeps
      <4>3. (loc[t].flags \ FcntlMask) \cap Access = loc[t].flags \cap Access
        BY DEF Access, FcntlMask
      <4> QED
        BY <1>2, <1>s, <4>1, <4>2, <4>3
    <3>7. CASE SetStore(t)
      <4>1. PICK arg \in OpenFlags : SetFlags(f, loc[t].flags \cup (arg \cap FcntlMask))
        BY <3>1, <3>7 DEF SetStore
      <4>2. loc[t].flags \cap Access = alt_fd_list[f].flags \cap Access
        BY <1>0, <3>1, <3>7 DEF Keeps, SetStore
      <4>3. (loc[t].flags \cup (arg \cap FcntlMask)) \cap Access = loc[t].flags \cap Access
        BY DEF Access, FcntlMask
      <4> QED
        BY <1>2, <1>s, <4>1, <4>2, <4>3
    <3> QED
      BY <3>3, <3>4, <3>5, <3>6, <3>7
  <2> QED
    BY <1>2, <2>1, <2>2
<1> QED
  BY <1>2, <1>3, <1>4

\* fcntl() stores what it has just loaded.
LEMMA SelfKeeps ==
  ASSUME Base, NEW t \in Threads, Acts(t)
  PROVE  Keeps(t)'
<1>0. /\ pc \in [Threads -> Pcs] /\ loc \in [Threads -> Locals] /\ loc[t] \in Locals
  BY DEF Base, Types
<1>1. CASE ALT_FCNTL(t)
  BY <1>0, <1>1 DEF ALT_FCNTL, pool, Keeps
<1>2. CASE SetLoad(t)
  BY <1>0, <1>2 DEF SetLoad, pool, Keeps
<1>3. CASE ~ALT_FCNTL(t) /\ ~SetLoad(t)
  <2>1. pc'[t] \notin {"set_clear", "set_store"}
    BY <1>0, <1>3 DEF Go, Finish, PoolFull, OpenStart, Acts, Inside, alt_open_fd, ClientOpen,
       ClientStat, ALT_CLOSE, IoctlLock, alt_fd_unlock, GetPend, alt_get_fd, TakeFd,
       OpenSetFlags, alt_file_locked, OpenCallback, RedirectCopy, StatClose, ReleaseFlags,
       ReleaseDev, LockPend, alt_fd_lock, SetClear, SetStore
  <2> QED
    BY <2>1 DEF Keeps
<1> QED
  BY <1>1, <1>2, <1>3

\* After the redirection: nothing disturbs it.
LEMMA RunRedirection ==
  ASSUME Base, Redirection, NEW t \in Threads, Acts(t), Base', todo = << >>
  PROVE  Redirection'
<1>1. todo' = << >>
  BY TodoStep
<1>2. ASSUME NEW s \in Streams PROVE StreamOK(s)'
  <2>1. Filno[s] \in 0 .. 2 /\ Keeps(t) /\ StreamOK(s)
    BY StreamsAreFirst DEF Redirection
  <2>2. loc'[Main].slot \notin Streams
    BY <1>1, FileAssumption DEF Base, Booting, Boots
  <2>3. ~WaitingIn(todo, s) /\ ~WaitingIn(todo', s)
    BY <1>1 DEF WaitingIn
  <2>4. Connected(s, alt_fd_list[Filno[s]])
    BY <2>1, <2>3 DEF StreamOK, Handled
  <2>5. /\ alt_fd_list'[Filno[s]].dev = alt_fd_list[Filno[s]].dev
        /\ alt_fd_list'[Filno[s]].flags \cap Access = alt_fd_list[Filno[s]].flags \cap Access
    BY <2>1, AccessStep
  <2>6. Requested(s)' = Requested(s)
    BY ListsStay
  <2>7. Connected(s, alt_fd_list[Filno[s]])'
    BY <2>4, <2>5, <2>6 DEF Connected
  <2>8. Redirects(s)'
    BY <2>2 DEF Redirects
  <2>9. Handled(s)'
    BY <2>3 DEF Handled
  <2> QED
    BY <2>7, <2>8, <2>9 DEF StreamOK
<1>3. ASSUME NEW u \in Threads PROVE Keeps(u)'
  <2>1. CASE u = t
    BY <2>1, SelfKeeps
  <2>2. CASE u # t
    <3>1. pc'[u] = pc[u] /\ loc'[u] = loc[u]
      BY <2>2, OthersStay DEF Base, Alone
    <3> SUFFICES ASSUME pc[u] \in {"set_clear", "set_store"}, loc[u].fd <= 2
                 PROVE  loc[u].flags \cap Access = alt_fd_list'[loc[u].fd].flags \cap Access
      BY <3>1 DEF Keeps
    <3>2. Keeps(u) /\ Keeps(t) /\ Works(u)
      BY DEF Redirection, Base, Working
    <3>3. loc[u].fd \in Fds
      BY <3>2 DEF Works, Setting
    <3>4. loc[u].fd \in 0 .. 2
      BY <3>3, StreamsAreFirst
    <3>5. loc[u].flags \cap Access = alt_fd_list[loc[u].fd].flags \cap Access
      BY <3>2 DEF Keeps
    <3> QED
      BY <3>2, <3>4, <3>5, AccessStep
  <2> QED
    BY <2>1, <2>2
<1> QED
  BY <1>1, <1>2, <1>3 DEF Redirection

\* Until a stream is copied, its entry stays.
LEMMA EntriesStay ==
  ASSUME Base, NEW t \in Threads, Acts(t), todo # << >>, NEW s \in Streams,
         ~(pc[t] = "copy" /\ loc[t].slot = s)
  PROVE  alt_fd_list'[Filno[s]] = alt_fd_list[Filno[s]]
<1>0. /\ alt_fd_list \in [Fds -> Entries] /\ Works(t)
      /\ Filno[s] \in Fds /\ Filno[s] \in Nat /\ ~(Filno[s] > 2)
      /\ alt_fd_list[Filno[s]].dev # NoDev
  BY StreamsAreFirst DEF Base, Types, Working, StreamsInUse
<1>1. CASE alt_open_fd \/ GetPend(t) \/ alt_get_fd(t) \/ alt_file_locked(t) \/ OpenCallback(t)
  BY <1>1 DEF alt_open_fd, GetPend, alt_get_fd, alt_file_locked, OpenCallback, pool
<1>2. CASE TakeFd(t)
  BY <1>0, <1>2 DEF TakeFd, Works
<1>3. CASE OpenSetFlags(t)
  BY <1>0, <1>3 DEF OpenSetFlags, SetFlags, Works, Opened
<1>4. CASE RedirectCopy(t)
  <2>1. loc[t].slot \in Streams /\ loc[t].slot # s
    BY <1>0, <1>4 DEF RedirectCopy, Works
  <2> QED
    BY <1>0, <1>4, <2>1, StreamsAreFirst DEF RedirectCopy
<1>5. CASE ReleaseFlags(t)
  BY <1>0, <1>5 DEF ReleaseFlags, SetFlags, Releases
<1>6. CASE ReleaseDev(t)
  BY <1>0, <1>6 DEF ReleaseDev, Releases
<1> QED
  BY <1>1, <1>2, <1>3, <1>4, <1>5, <1>6, BootActs DEF BootAct

\* Nothing is locked before the clients run.
LEMMA NoLocks ==
  ASSUME Base, Redirection, NEW t \in Threads, Acts(t), todo # << >>, NEW f \in Fds
  PROVE  "EXCL" \notin alt_fd_list'[f].flags
<1>0. /\ alt_fd_list \in [Fds -> Entries] /\ Works(t)
      /\ \A g \in Fds : "EXCL" \notin alt_fd_list[g].flags
  BY DEF Base, Types, Working, Redirection
<1>1. CASE alt_open_fd \/ GetPend(t) \/ alt_get_fd(t) \/ alt_file_locked(t) \/ OpenCallback(t)
  BY <1>0, <1>1 DEF alt_open_fd, GetPend, alt_get_fd, alt_file_locked, OpenCallback, pool
<1>2. CASE TakeFd(t)
  BY <1>0, <1>2 DEF TakeFd, Works
<1>3. CASE OpenSetFlags(t)
  BY <1>0, <1>3 DEF OpenSetFlags, SetFlags, Works, Opened, FlagsMask
<1>4. CASE RedirectCopy(t)
  <2>1. loc[t].fd \in Fds
    BY <1>0, <1>4 DEF RedirectCopy, Works, Opened
  <2> QED
    BY <1>0, <1>4, <2>1 DEF RedirectCopy
<1>5. CASE ReleaseFlags(t)
  BY <1>0, <1>5 DEF ReleaseFlags, SetFlags, Entries
<1>6. CASE ReleaseDev(t)
  BY <1>0, <1>6 DEF ReleaseDev, Entries
<1> QED
  BY <1>1, <1>2, <1>3, <1>4, <1>5, <1>6, BootActs DEF BootAct

\* alt_file_locked finds no lock then.
LEMMA NoLockYet ==
  ASSUME Base, Redirection, NEW t \in Threads, todo # << >>
  PROVE  ~LockedBy(loc[t].i, loc[t].fd) \/ loc[t].i > alt_max_fd
<1> SUFFICES ASSUME ~(loc[t].i > alt_max_fd) PROVE ~LockedBy(loc[t].i, loc[t].fd)
  OBVIOUS
<1>1. loc[t].i \in Nat /\ alt_max_fd \in Int /\ alt_max_fd <= ALT_MAX_FD - 1
  BY FileAssumption DEF Base, Types, Locals
<1>2. loc[t].i \in Fds
  BY <1>1, FileAssumption DEF Fds
<1> QED
  BY <1>2 DEF Redirection, LockedBy

\* Main goes on opening the device of the stream it is at.
LEMMA RedirectsStep ==
  ASSUME Base, Redirection, ALT_MAX_FD > 3, NEW t \in Threads, Acts(t), todo # << >>,
         NEW s \in Streams
  PROVE  Redirects(s)'
<1> USE DEF Opening, Searching, Opened, Releasing
<1>0. /\ pc \in [Threads -> Pcs] /\ loc \in [Threads -> Locals] /\ loc[t] \in Locals
      /\ alt_fd_list \in [Fds -> Entries] /\ Works(t) /\ Boots(t)
      /\ Redirects(s) /\ t = Main /\ Types
  BY BootActs DEF Base, Types, Working, Booting, Redirection, StreamOK
<1>L. Lookup(StdioName[s])' = Lookup(StdioName[s])
  BY ListsStay
<1>1. CASE alt_open_fd /\ pc[t] = "idle" /\ loc[t].slot = "client"
  <2>1. PICK r \in Streams : r = Head(todo) /\ OpenStart(Main, StdioName[r], Direction(r), r)
    BY <1>1 DEF alt_open_fd, Direction
  <2>2. Direction(r) \in SUBSET AllFlags /\ r \in Slots /\ "client" \notin Streams
    BY DEF Direction, AllFlags, Slots, Streams
  <2>3. CASE UNCHANGED <<pc, loc>>
    BY <1>0, <1>1, <2>2, <2>3 DEF Redirects
  <2>4. CASE \E l \in Locals :
               /\ loc' = [loc EXCEPT ![Main] = l] /\ pc' = [pc EXCEPT ![Main] = "get_pend"]
               /\ l.dev = Lookup(StdioName[r]) /\ l.flags = Direction(r) /\ l.slot = r
    <3>1. /\ pc'[Main] = "get_pend" /\ loc'[Main].slot = r
          /\ loc'[Main].dev = Lookup(StdioName[r]) /\ loc'[Main].flags = Direction(r)
      BY <1>0, <2>4
    <3> QED
      BY <1>L, <3>1 DEF Redirects
  <2> QED
    BY <1>0, <2>1, <2>2, <2>3, <2>4, OpenStarts
<1>2. CASE GetPend(t)
  <2>1. /\ pc[t] = "get_pend" /\ pc'[t] = "get" /\ loc'[t].i = 0 /\ loc'[t].dev = loc[t].dev
        /\ loc'[t].flags = loc[t].flags /\ loc'[t].slot = loc[t].slot
    BY <1>0, <1>2 DEF GetPend, Go, LookAt
  <2> QED
    BY <1>0, <1>L, <2>1 DEF Redirects
<1>3. CASE alt_get_fd(t)
  <2>1. CASE Go(t, "take") /\ loc' = loc /\ pc[t] = "get"
    BY <1>0, <1>L, <2>1 DEF Redirects, Go
  <2>2. CASE /\ loc[t].i < ALT_MAX_FD /\ alt_fd_list[loc[t].i].dev # NoDev
             /\ LookAt(t, loc[t].i + 1) /\ pc' = pc /\ pc[t] = "get"
    <3>1. /\ loc'[t].i = loc[t].i + 1 /\ loc'[t].dev = loc[t].dev /\ loc[t].i \in Nat
          /\ loc'[t].flags = loc[t].flags /\ loc'[t].slot = loc[t].slot
      BY <1>0, <2>2 DEF LookAt, Locals
    <3>2. alt_fd_list[3].dev = NoDev
      <4>1. 3 \in Fds /\ 3 > 2
        BY FileAssumption DEF Fds
      <4>2. ASSUME NEW u \in Threads PROVE 3 \notin held[u] \cup InCall(u)
        <5>1. Boots(u)
          BY DEF Base, Booting
        <5>2. 3 \notin held[u]
          BY <5>1 DEF Boots
        <5>3. InCall(u) = {}
          BY <1>0, <2>2, <5>1 DEF Boots, InCall
        <5> QED
          BY <5>2, <5>3
      <4> QED
        BY <4>1, <4>2 DEF Base, PoolConserved
    <3>3. loc[t].slot = s => loc[t].i + 1 <= 3
      <4>1. loc[t].slot = s => loc[t].i <= 3
        BY <1>0, <2>2 DEF Redirects
      <4>2. loc[t].i # 3
        BY <2>2, <3>2
      <4> QED
        BY <3>1, <4>1, <4>2
    <3> QED
      BY <1>0, <1>L, <2>2, <3>1, <3>3 DEF Redirects
  <2>3. CASE Finish(t)
    <3>1. loc'[t].slot = "client" /\ "client" \notin Streams
      BY <1>0, <2>3 DEF Finish, Idle, Streams
    <3> QED
      BY <1>0, <3>1 DEF Redirects
  <2> QED
    BY <1>3, <2>1, <2>2, <2>3 DEF alt_get_fd, PoolFull
<1>4. CASE TakeFd(t)
  <2>1. /\ pc[t] = "take" /\ pc'[t] = "flags" /\ loc'[t].dev = loc[t].dev
        /\ loc'[t].flags = loc[t].flags /\ loc'[t].slot = loc[t].slot
    BY <1>0, <1>4 DEF TakeFd, Go, WorkOn
  <2> QED
    BY <1>0, <1>L, <2>1 DEF Redirects
<1>5. CASE OpenSetFlags(t)
  <2>1. /\ pc[t] = "flags" /\ pc'[t] \in {"open_cb", "locked"} /\ loc'[t].dev = loc[t].dev
        /\ loc'[t].fd = loc[t].fd /\ loc'[t].slot = loc[t].slot /\ loc[t].fd \in Fds
        /\ SetFlags(loc[t].fd, (loc[t].flags \ FlagsMask) \cup
                               (IF loc[t].isafs THEN {} ELSE {"DEV"}))
    BY <1>0, <1>5 DEF OpenSetFlags, Go, LookAt, Works
  <2>2. alt_fd_list'[loc[t].fd].flags \cap Access = loc[t].flags \cap Access
    <3>1. alt_fd_list'[loc[t].fd].flags = (loc[t].flags \ FlagsMask) \cup
                                          (IF loc[t].isafs THEN {} ELSE {"DEV"})
      BY <1>0, <2>1 DEF SetFlags
    <3> QED
      BY <3>1 DEF FlagsMask, Access
  <2>3. Direction(s) \cap Access = Direction(s)
    BY DEF Direction, Access
  <2> QED
    BY <1>0, <1>L, <2>1, <2>2, <2>3 DEF Redirects
<1>6. CASE alt_file_locked(t)
  <2>1. ~LockedBy(loc[t].i, loc[t].fd) \/ loc[t].i > alt_max_fd
    BY NoLockYet
  <2>2. /\ pc[t] = "locked" /\ pc'[t] \in {"locked", "open_cb"} /\ loc'[t].dev = loc[t].dev
        /\ loc'[t].fd = loc[t].fd /\ loc'[t].slot = loc[t].slot /\ alt_fd_list' = alt_fd_list
    BY <1>0, <1>6, <2>1 DEF alt_file_locked, Go, LookAt, Locals, pool
  <2> QED
    BY <1>0, <1>L, <2>2 DEF Redirects
<1>7. CASE OpenCallback(t)
  <2>0. loc[t].slot \in Streams
    BY <1>7, BootActs DEF OpenCallback
  <2>1. CASE pc'[t] \in {"rel_flags", "idle"}
    BY <1>0, <2>1 DEF Redirects
  <2>2. CASE pc'[t] = "copy" /\ loc' = loc
    BY <1>0, <1>L, <1>7, <2>2 DEF Redirects, OpenCallback, pool
  <2> QED
    BY <1>0, <1>7, <2>0, <2>1, <2>2 DEF OpenCallback, Finish, Go, Streams
<1>8. CASE RedirectCopy(t) \/ ReleaseFlags(t)
  <2>1. pc'[t] \in Releasing
    BY <1>0, <1>8 DEF RedirectCopy, ReleaseFlags, Go
  <2> QED
    BY <1>0, <2>1 DEF Redirects
<1>9. CASE ReleaseDev(t)
  <2>1. loc'[t].slot = "client" /\ "client" \notin Streams
    BY <1>0, <1>9 DEF ReleaseDev, Finish, Idle, Streams
  <2> QED
    BY <1>0, <2>1 DEF Redirects
<1> QED
  BY <1>1, <1>2, <1>3, <1>4, <1>5, <1>6, <1>7, <1>8, <1>9, BootActs DEF BootAct

\* A stream is on its device once it is handled, and on /dev/null before.
LEMMA HandledStep ==
  ASSUME Base, Redirection, ALT_MAX_FD > 3, NEW t \in Threads, Acts(t), todo # << >>,
         NEW s \in Streams
  PROVE  /\ Handled(s)' => Connected(s, alt_fd_list[Filno[s]])'
         /\ ~Handled(s)' => alt_fd_list'[Filno[s]].dev = Null
<1>0. /\ pc \in [Threads -> Pcs] /\ loc \in [Threads -> Locals] /\ loc[t] \in Locals
      /\ alt_fd_list \in [Fds -> Entries] /\ Works(t) /\ Boots(t) /\ todo \in Todos
      /\ StreamOK(s) /\ t = Main
  BY BootActs DEF Base, Types, Working, Booting, Redirection
<1>1. Requested(s)' = Requested(s)
  BY ListsStay
<1>2. ASSUME alt_fd_list'[Filno[s]] = alt_fd_list[Filno[s]], Handled(s)' <=> Handled(s)
      PROVE  /\ Handled(s)' => Connected(s, alt_fd_list[Filno[s]])'
             /\ ~Handled(s)' => alt_fd_list'[Filno[s]].dev = Null
  BY <1>0, <1>1, <1>2 DEF StreamOK, Connected
<1>3. CASE todo' # todo
  <2>1. /\ Head(todo) \in Streams /\ todo' = Tail(todo) /\ loc'[t] = Idle /\ pc'[t] = "idle"
        /\ pc[t] \in {"idle", "get", "rel_dev"}
    BY <1>3, TodoStep
  <2>2. alt_fd_list'[Filno[s]] = alt_fd_list[Filno[s]]
    BY <2>1, EntriesStay
  <2>3. Handled(s)' <=> ~WaitingIn(todo', s)
    BY <1>0, <2>1 DEF Handled, Releasing
  <2>4. CASE s # Head(todo)
    <3>1. WaitingIn(todo', s) <=> WaitingIn(todo, s)
      BY <1>0, <2>1, <2>4, NextStream
    <3>2. loc[t].slot # s
      BY <1>0, <2>4 DEF Boots
    <3> QED
      BY <1>0, <1>2, <2>2, <2>3, <3>1, <3>2 DEF Handled
  <2>5. CASE s = Head(todo)
    <3>1. WaitingIn(todo, s) /\ Handled(s)'
      BY <1>0, <2>1, <2>3, <2>5, NextStream
    <3>2. CASE pc[t] = "idle"
      <4>1. alt_open_fd /\ loc[t].slot = "client" /\ "client" \notin Streams
        BY <3>2, BootActs DEF Streams, BootAct, GetPend, alt_get_fd, TakeFd, OpenSetFlags,
           alt_file_locked, OpenCallback, RedirectCopy, ReleaseFlags, ReleaseDev
      <4>2. Lookup(StdioName[s]) = NoDev
        BY <1>3, <2>5, <4>1 DEF alt_open_fd
      <4>3. Requested(s) = Null
        BY <4>2 DEF Requested
      <4>4. alt_fd_list[Filno[s]].dev = Null
        BY <1>0, <3>1, <4>1 DEF StreamOK, Handled
      <4> QED
        BY <1>1, <2>2, <3>1, <4>3, <4>4 DEF Connected
    <3>3. CASE pc[t] = "get"
      <4>1. alt_get_fd(t) /\ loc[t].slot = s
        BY <2>5, <3>3, BootActs DEF BootAct, GetPend, alt_get_fd, TakeFd, OpenSetFlags,
           alt_file_locked, OpenCallback, RedirectCopy, ReleaseFlags, ReleaseDev
      <4>2. loc[t].i <= 3 /\ loc[t].i \in Nat
        BY <1>0, <3>3, <4>1 DEF StreamOK, Redirects, Locals
      <4>3. loc[t].i # ALT_MAX_FD
        BY <4>2, FileAssumption
      <4> QED
        BY <1>3, <4>1, <4>3 DEF alt_get_fd
    <3>4. CASE pc[t] = "rel_dev"
      <4>1. loc[t].slot = s
        BY <2>5, <3>4, BootActs
      <4>2. Handled(s)
        BY <1>0, <3>4, <4>1 DEF Handled, Releasing
      <4> QED
        BY <1>2, <2>2, <3>1, <4>2
    <3> QED
      BY <2>1, <3>2, <3>3, <3>4
  <2> QED
    BY <2>4, <2>5
<1>4. CASE todo' = todo
  <2>1. CASE pc[t] = "idle"
    <3>1. alt_open_fd /\ loc[t].slot = "client" /\ "client" \notin Streams
      BY <2>1, BootActs DEF Streams, BootAct, GetPend, alt_get_fd, TakeFd, OpenSetFlags,
         alt_file_locked, OpenCallback, RedirectCopy, ReleaseFlags, ReleaseDev
    <3>2. pc'[t] \in {"idle", "get_pend"}
      BY <1>0, <2>1, <3>1 DEF alt_open_fd, OpenStart, Go
    <3>3. Handled(s)' <=> Handled(s)
      BY <1>0, <1>4, <3>1, <3>2 DEF Handled, Releasing
    <3> QED
      BY <1>2, <2>1, <3>3, EntriesStay
  <2>2. CASE pc[t] # "idle"
    <3>1. loc[t].slot \in Streams /\ loc[t].slot = Head(todo) /\ BootAct(t)
      BY <2>2, BootActs
    <3>2. CASE s # loc[t].slot
      <4>1. loc'[t].slot # s
        <5>1. loc'[t].slot \in {loc[t].slot, "client"} /\ "client" \notin Streams
          BY <1>0, <3>1 DEF BootAct, GetPend, alt_get_fd, TakeFd, OpenSetFlags, alt_file_locked,
             OpenCallback, RedirectCopy, ReleaseFlags, ReleaseDev, LookAt, WorkOn, Finish,
             PoolFull, Idle, Locals, Streams
        <5> QED
          BY <3>2, <5>1
      <4> QED
        BY <1>0, <1>2, <1>4, <3>2, <4>1, EntriesStay DEF Handled
    <3>3. CASE s = loc[t].slot
      <4>0. WaitingIn(todo, s) /\ WaitingIn(todo', s) /\ Redirects(s)
        BY <1>0, <1>4, <3>1, <3>3, NextStream DEF StreamOK
      <4>1. CASE GetPend(t) \/ TakeFd(t) \/ OpenSetFlags(t)
        <5>1. pc'[t] \notin Releasing /\ pc[t] \notin Releasing \cup {"copy"}
          BY <1>0, <4>1 DEF GetPend, TakeFd, OpenSetFlags, Go, Releasing
        <5> QED
          BY <1>0, <1>2, <4>0, <5>1, EntriesStay DEF Handled
      <4>2. CASE alt_get_fd(t)
        <5>1. pc'[t] \notin Releasing /\ pc[t] \notin Releasing \cup {"copy"}
          BY <1>0, <4>2 DEF alt_get_fd, PoolFull, Finish, Go, Releasing
        <5> QED
          BY <1>0, <1>2, <4>0, <5>1, EntriesStay DEF Handled
      <4>3. CASE alt_file_locked(t)
        <5>1. ~LockedBy(loc[t].i, loc[t].fd) \/ loc[t].i > alt_max_fd
          BY NoLockYet
        <5>2. pc'[t] \notin Releasing /\ pc[t] \notin Releasing \cup {"copy"}
          BY <1>0, <4>3, <5>1 DEF alt_file_locked, Go, Releasing
        <5> QED
          BY <1>0, <1>2, <4>0, <5>2, EntriesStay DEF Handled
      <4>4. CASE OpenCallback(t)
        <5>1. pc[t] = "open_cb" /\ ~Handled(s) /\ alt_fd_list'[Filno[s]] = alt_fd_list[Filno[s]]
          BY <1>0, <4>0, <4>4, EntriesStay DEF OpenCallback, Handled, Releasing
        <5>2. alt_fd_list[Filno[s]].dev = Null
          BY <1>0, <5>1 DEF StreamOK
        <5>3. CASE pc'[t] \notin Releasing
          BY <1>0, <1>2, <4>0, <5>1, <5>3 DEF Handled
        <5>4. CASE pc'[t] \in Releasing
          <6>1. "open" \in Provides[loc[t].dev] /\ loc' = loc
            BY <1>0, <4>4, <5>4 DEF OpenCallback, Finish, Go, Releasing
          <6>2. loc[t].dev = Lookup(StdioName[s]) /\ loc[t].dev # NoDev
            BY <1>0, <3>3, <4>0, <5>1 DEF Redirects, Works, Opening, Opened
          <6>3. Requested(s) = loc[t].dev
            BY <6>2 DEF Requested
          <6>4. Handled(s)'
            BY <1>0, <3>3, <5>4, <6>1 DEF Handled
          <6> QED
            BY <1>1, <5>1, <5>2, <6>1, <6>3, <6>4 DEF Connected
        <5> QED
          BY <5>3, <5>4
      <4>5. CASE RedirectCopy(t)
        <5>1. /\ pc[t] = "copy" /\ pc'[t] \in Releasing /\ loc' = loc /\ loc[t].fd \in Fds
              /\ alt_fd_list'[Filno[s]] = alt_fd_list[loc[t].fd]
          BY <1>0, <3>3, <4>5, StreamsAreFirst DEF RedirectCopy, Go, Releasing, Works, Opened
        <5>2. /\ alt_fd_list[loc[t].fd].dev = loc[t].dev /\ loc[t].dev # NoDev
              /\ loc[t].dev = Lookup(StdioName[s])
              /\ alt_fd_list[loc[t].fd].flags \cap Access = Direction(s)
          BY <1>0, <3>3, <4>0, <5>1 DEF Redirects, Works, Opening, Opened
        <5>3. Requested(s) = loc[t].dev
          BY <5>2 DEF Requested
        <5>4. Handled(s)'
          BY <1>0, <3>3, <5>1 DEF Handled
        <5> QED
          BY <1>1, <5>1, <5>2, <5>3, <5>4 DEF Connected
      <4>6. CASE ReleaseFlags(t)
        <5>1. pc'[t] \in Releasing /\ pc[t] \in Releasing /\ loc' = loc /\ pc[t] # "copy"
          BY <1>0, <4>6 DEF ReleaseFlags, Go, Releasing
        <5> QED
          BY <1>0, <1>2, <3>3, <5>1, EntriesStay DEF Handled
      <4>7. CASE ReleaseDev(t)
        <5>1. todo' = Tail(todo)
          BY <3>1, <4>7 DEF ReleaseDev, Redirected
        <5> QED
          BY <1>0, <3>1, <3>3, <4>0, <5>1, NextStream
      <4> QED
        BY <3>1, <4>1, <4>2, <4>3, <4>4, <4>5, <4>6, <4>7 DEF BootAct
    <3> QED
      BY <3>2, <3>3
  <2> QED
    BY <2>1, <2>2
<1> QED
  BY <1>3, <1>4

\* During the redirection.
LEMMA BootRedirection ==
  ASSUME Base, Redirection, ALT_MAX_FD > 3, NEW t \in Threads, Acts(t), todo # << >>
  PROVE  Redirection'
<1>1. ASSUME NEW s \in Streams PROVE StreamOK(s)'
  BY HandledStep, RedirectsStep DEF StreamOK
<1>2. ASSUME NEW u \in Threads PROVE Keeps(u)'
  <2>1. CASE u = t
    BY <2>1, SelfKeeps
  <2>2. CASE u # t
    <3>1. pc'[u] = pc[u]
      BY <2>2, OthersStay DEF Base, Alone
    <3>2. pc[u] = "idle"
      BY <2>2, BootActs DEF Base, Booting, Boots
    <3> QED
      BY <3>1, <3>2 DEF Keeps
  <2> QED
    BY <2>1, <2>2
<1>3. \A f \in Fds : "EXCL" \notin alt_fd_list'[f].flags
  BY NoLocks
<1> QED
  BY <1>1, <1>2, <1>3 DEF Redirection

\* The redirection is kept.
LEMMA RedirectionStep ==
  ASSUME Base, Redirection, ALT_MAX_FD > 3, Next
  PROVE  Redirection'
<1>1. ASSUME NEW t \in Threads, Acts(t) PROVE Redirection'
  BY <1>1, BaseStep, BootRedirection, RunRedirection
<1>2. ASSUME Startup PROVE Redirection'
  <2>1. UNCHANGED <<alt_fd_list, pc, loc>>
    BY <1>2 DEF Startup, alt_dev_reg, alt_fs_reg, alt_io_redirect, pool
  <2>2. todo = <<"register">> /\ (todo' = todo \/ todo' = <<"stdout", "stdin", "stderr">>)
    BY <1>2 DEF Startup, alt_dev_reg, alt_fs_reg, alt_io_redirect
  <2>3. ASSUME NEW s \in Streams PROVE StreamOK(s)'
    <3>1. WaitingIn(todo, s) /\ WaitingIn(todo', s)
      BY <2>2 DEF WaitingIn, Streams
    <3>2. loc[Main].slot \notin Streams
      <4>1. todo # << >> /\ Head(todo) \notin Streams
        BY <2>2 DEF Streams
      <4> QED
        BY <4>1, FileAssumption DEF Base, Booting, Boots
    <3>3. alt_fd_list[Filno[s]].dev = Null
      BY <3>1, <3>2 DEF Redirection, StreamOK, Handled
    <3> QED
      BY <2>1, <3>1, <3>2, <3>3 DEF StreamOK, Handled, Redirects
  <2>4. \A u \in Threads : Keeps(u)'
    BY <2>1 DEF Redirection, Keeps
  <2>5. todo # << >>
    BY <2>2
  <2> QED
    BY <2>1, <2>3, <2>4, <2>5 DEF Redirection
<1> QED
  BY <1>1, <1>2, NextActs

----------------------------------------------------------------------------
(* The theorems.                                                           *)

\* The pool as alt_dev.c lays it out.
LEMMA InitIInv == Init => IInv
<1> SUFFICES ASSUME Init PROVE IInv
  OBVIOUS
<1>0. Main \in Threads /\ 0 .. 2 \subseteq Fds /\ \A f \in Fds : f \in Nat
  BY FileAssumption, StreamsAreFirst
<1>1. Types
  <2>1. Idle \in Locals /\ "idle" \in Pcs
    BY DEF Idle, Locals, Slots, Pcs
  <2>2. alt_fd_list \in [Fds -> Entries] /\ alt_max_fd \in -1 .. ALT_MAX_FD - 1
    BY FileAssumption DEF Init, Entries, Devs
  <2>3. alt_dev_list \in Seq(Devices \cup {Null}) /\ alt_fs_list \in Seq(Filesystems)
    BY DEF Init
  <2>4. todo \in Todos /\ held \in [Threads -> SUBSET Fds] /\ granted \in SUBSET Fds
    BY <1>0 DEF Init, Todos
  <2>5. alt_fd_list_lock \in Threads \cup {"free"}
    BY DEF Init
  <2> QED
    BY <2>1, <2>2, <2>3, <2>4, <2>5 DEF Init, Types
<1>2. Semaphore /\ Working
  BY DEF Init, Semaphore, Working, Works, Opening, Searching, Opened, Releasing, Locking, Setting
<1>3. StreamsInUse
  BY <1>0, FileAssumption DEF Init, StreamsInUse
<1>4. Booting
  BY DEF Init, Booting, Boots, Idle, Streams
<1>5. PoolConserved
  <2>1. \A t \in Threads : InCall(t) = {} /\ held[t] = IF t = Main THEN 0 .. 2 ELSE {}
    BY DEF Init, InCall
  <2>2. \A f \in Fds : f > 2 => alt_fd_list[f].dev = NoDev /\ f \notin 0 .. 2
    BY <1>0 DEF Init
  <2> QED
    BY <2>1, <2>2 DEF PoolConserved
<1>6. Exclusive
  BY FileAssumption DEF Init, Exclusive, Owns, FlagsRight, Locking, Setting
<1>7. LockOrder
  BY DEF Init, LockOrder, Scanned
<1>8. Redirection
  <2>1. ASSUME NEW s \in Streams PROVE StreamOK(s)
    <3>1. WaitingIn(todo, s)
      BY DEF Init, WaitingIn
    <3>2. loc[Main].slot \notin Streams
      BY <1>0 DEF Init, Idle, Streams
    <3>3. alt_fd_list[Filno[s]].dev = Null
      BY <1>0, StreamsAreFirst DEF Init
    <3> QED
      BY <3>1, <3>2, <3>3 DEF StreamOK, Handled, Redirects
  <2>2. \A t \in Threads : Keeps(t)
    BY DEF Init, Keeps
  <2>3. \A f \in Fds : "EXCL" \notin alt_fd_list[f].flags
    BY DEF Init
  <2> QED
    BY <2>1, <2>2, <2>3 DEF Redirection
<1> QED
  BY <1>1, <1>2, <1>3, <1>4, <1>5, <1>6, <1>7, <1>8 DEF IInv, Base

\* Every step keeps the invariant.
LEMMA StepIInv ==
  ASSUME IInv, [Next]_vars
  PROVE  IInv'
<1>1. CASE Next
  BY <1>1, BaseStep, ExclusiveStep, LockOrderStep, RedirectionStep DEF IInv
<1>2. CASE UNCHANGED vars
  <2> USE <1>2 DEF vars
  <2>1. Base'
    BY DEF IInv, Base, Types, Semaphore, StreamsInUse, Working, Works, Booting, Boots,
       PoolConserved, InCall
  <2>2. ~Shared => Exclusive' /\ LockOrder'
    BY DEF IInv, Exclusive, Owns, FlagsRight, LockOrder, Scanned, Chased, WillSee, InCall,
       SameDevice
  <2>3. ALT_MAX_FD > 3 => Redirection'
    BY DEF IInv, Redirection, StreamOK, Handled, Redirects, Connected, Keeps, Requested,
       Lookup, alt_find_dev, alt_find_file
  <2> QED
    BY <2>1, <2>2, <2>3 DEF IInv
<1> QED
  BY <1>1, <1>2

\* The inductive invariant: of the semaphore, of the locals of every thread,
\* of the start up, of the pool, of the locks and of the redirection.
THEOREM FileInvariant == Spec => []IInv
<1>1. Init => IInv
  BY InitIInv
<1>2. IInv /\ [Next]_vars => IInv'
  BY StepIInv
<1> QED
  BY <1>1, <1>2, PTL DEF Spec

\* The pool is conserved even when threads call ioctl() and fcntl() on each
\* other's descriptors: no two open() calls get the same one from alt_get_fd,
\* and ALT_OPEN, stat() and alt_open_fd lose none on any way out.
THEOREM PoolIsConserved == Spec => []PoolConserved
<1>1. IInv => PoolConserved
  BY DEF IInv, Base
<1> QED
  BY <1>1, FileInvariant, PTL

\* When threads keep to their own descriptors, a TIOCEXCL that alt_fd_lock has
\* granted lasts until TIOCNXCL or close(): not even the two unprotected
\* updates of fcntl() lose it.
THEOREM LocksStick ==
  ASSUME ~Shared
  PROVE  Spec => []LockSticks
<1>1. IInv => LockSticks
  BY DEF IInv, Base, Types, Exclusive, FlagsRight, LockSticks
<1> QED
  BY <1>1, FileInvariant, PTL

\* No client has a descriptor below a locked one of the same device: the
\* open() that might hand one out finds the lock.
LEMMA LowestLocked ==
  ASSUME Base, LockOrder
  PROVE  LockedIsLowest
<1> SUFFICES ASSUME NEW f \in granted, NEW t \in Threads, NEW g \in held[t], g < f,
                    alt_fd_list[g].dev = alt_fd_list[f].dev
             PROVE  FALSE
  BY DEF LockedIsLowest
<1>1. g \in Fds /\ Chased(f)
  BY DEF Base, Types, LockOrder
<1>2. PICK u \in Threads : WillSee(u, g, f)
  BY <1>1 DEF Chased, SameDevice
<1> QED
  BY <1>2 DEF WillSee, Base, PoolConserved

\* Each stream reads or writes the device that was asked for.
LEMMA StreamsConnected ==
  ASSUME Redirection
  PROVE  StdioConnected
<1> SUFFICES ASSUME Booted, NEW s \in Streams,
                    NEW f, f = Filno[s], NEW d, d = alt_fd_list[f].dev,
                    NEW op, op = IF s = "stdin" THEN "read" ELSE "write"
             PROVE  /\ d \in {Requested(s), Null}
                    /\ "open" \notin Provides[Requested(s)] => d = Requested(s)
                    /\ d # Null /\ op \in Provides[d] =>
                         IF s = "stdin" THEN ALT_READ(f) = d /\ ALT_WRITE(f) = NoDev
                                        ELSE ALT_WRITE(f) = d /\ ALT_READ(f) = NoDev
  BY DEF StdioConnected
<1>1. ~WaitingIn(todo, s)
  BY DEF Booted, WaitingIn
<1>2. Connected(s, alt_fd_list[f])
  BY <1>1 DEF Redirection, StreamOK, Handled
<1>3. ASSUME d # Null, op \in Provides[d]
      PROVE  IF s = "stdin" THEN ALT_READ(f) = d /\ ALT_WRITE(f) = NoDev
                            ELSE ALT_WRITE(f) = d /\ ALT_READ(f) = NoDev
  <2>1. alt_fd_list[f].flags \cap Access = Direction(s)
    BY <1>2, <1>3 DEF Connected
  <2>2. CASE s = "stdin"
    <3>1. "WRONLY" \notin alt_fd_list[f].flags /\ alt_fd_list[f].flags \cap {"WRONLY", "RDWR"} = {}
      BY <2>1, <2>2 DEF Direction, Access
    <3> QED
      BY <1>3, <2>2, <3>1 DEF ALT_READ, ALT_WRITE, Vector
  <2>3. CASE s # "stdin"
    <3>1. "WRONLY" \in alt_fd_list[f].flags /\ alt_fd_list[f].flags \cap {"WRONLY", "RDWR"} # {}
      BY <2>1, <2>3 DEF Direction, Access
    <3> QED
      BY <1>3, <2>3, <3>1 DEF ALT_READ, ALT_WRITE, Vector
  <2> QED
    BY <2>2, <2>3
<1> QED
  BY <1>2, <1>3 DEF Connected

\* When threads keep to their own descriptors and the pool has a fourth one to
\* open the streams with, the pool is sound: it is conserved, a locked
\* descriptor is the lowest of its device that any client has, and after
\* alt_io_redirect every standard stream is on the device of system.h.
THEOREM PoolIsSound ==
  ASSUME ~Shared, ALT_MAX_FD > 3
  PROVE  Spec => []PoolSound
<1>1. ASSUME IInv PROVE PoolSound
  <2>1. Base /\ LockOrder /\ Redirection
    BY <1>1 DEF IInv
  <2>2. TypeOK
    <3>1. Range(alt_dev_list) \subseteq Devices \cup {Null} /\ Range(alt_fs_list) \subseteq Filesystems
      BY <2>1 DEF Base, Types, Range
    <3>2. \A t \in Threads : held[t] \subseteq Fds /\ loc[t].fd \in Fds \cup {-1}
      BY <2>1 DEF Base, Types, Locals
    <3> QED
      BY <2>1, <3>1, <3>2 DEF Base, Types, TypeOK, Entries
  <2> QED
    BY <2>1, <2>2, LowestLocked, StreamsConnected DEF Base, PoolSound
<1>2. IInv => PoolSound
  BY <1>1
<1> QED
  BY <1>2, FileInvariant, PTL
=============================================================================
