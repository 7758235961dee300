------------------------------ MODULE HalFile ------------------------------
(***************************************************************************)
(* The file descriptor layer of the board support package:                 *)
(* HAL/src/alt_open.c, alt_get_fd.c, alt_release_fd.c, alt_close.c,        *)
(* alt_ioctl.c, alt_fd_lock.c, alt_fd_unlock.c, alt_fcntl.c, alt_stat.c,   *)
(* alt_io_redirect.c, the device lists they search and the calls that only *)
(* vector to a driver (read, write, lseek, fstat, isatty).                 *)
(*                                                                         *)
(* The code is written for several threads: alt_get_fd and alt_fd_lock     *)
(* scan the pool under the semaphore alt_fd_list_lock, every other access  *)
(* is unprotected.  Each entry a loop looks at is therefore a step.  With  *)
(* one thread the model is the single threaded build of this repository    *)
(* (ALT_SINGLE_THREADED, where the semaphore is empty).                    *)
(***************************************************************************)
EXTENDS Integers, Sequences, SequencesExt

CONSTANTS
  Threads,     \* threads that make calls
  Main,        \* the one that runs alt_sys_init and alt_io_redirect
  ALT_MAX_FD,  \* size of the descriptor pool
  Devices,     \* character devices that may be registered, /dev/null apart
  Filesystems, \* file systems that may be registered
  Null,        \* alt_dev_null
  NoDev,       \* a null dev pointer: the descriptor is free
  NameOf,      \* registered name of a device or mount point, as components
  Provides,    \* which callbacks each driver implements
  StdioName,   \* ALT_STDIN, ALT_STDOUT, ALT_STDERR of system.h
  Paths,       \* names the clients open
  OpenFlags,   \* flag sets the clients open with
  Calls,       \* which calls the clients make
  Shared       \* TRUE: threads also use each other's descriptors

\* ALT_FD_FLAGS_MASK and ALT_FCNTL_FLAGS_MASK; flags are sets of bits, and
\* O_RDONLY is the absence of the two other access modes.
FlagsMask == {"EXCL", "DEV"}
FcntlMask == {"APPEND", "NONBLOCK"}
AllFlags  == {"WRONLY", "RDWR"} \cup FcntlMask \cup FlagsMask

ASSUME FileAssumption ==
  /\ Main \in Threads /\ "free" \notin Threads
  /\ ALT_MAX_FD \in Nat /\ ALT_MAX_FD > 2
  /\ Null \notin Devices \cup Filesystems /\ Devices \cap Filesystems = {}
  /\ NoDev \notin Devices \cup Filesystems \cup {Null}
  /\ OpenFlags \subseteq SUBSET AllFlags
  /\ Calls \subseteq {"open", "stat", "close", "lock", "unlock", "fcntl"}
  /\ Shared \in BOOLEAN

VARIABLES
  alt_dev_list,     \* registered devices, the head of the list first
  alt_fs_list,      \* registered file systems
  alt_fd_list,      \* the pool: dev and fd_flags of each descriptor
  alt_max_fd,       \* the high water mark
  alt_fd_list_lock, \* the semaphore: the thread that has it, or "free"
  todo,             \* standard streams alt_io_redirect has still to open
  pc, loc,          \* where each thread is, and its locals
  held,             \* descriptors open() gave each thread, not yet closed
  granted           \* descriptors whose TIOCEXCL succeeded, not yet undone

vars == <<alt_dev_list, alt_fs_list, alt_fd_list, alt_max_fd,
          alt_fd_list_lock, todo, pc, loc, held, granted>>

Fds  == 0 .. ALT_MAX_FD - 1
\* The standard streams and their descriptors.
Filno == [stdin |-> 0, stdout |-> 1, stderr |-> 2]
Streams == {"stdin", "stdout", "stderr"}
Devs == Devices \cup Filesystems \cup {Null}

Idle == [dev |-> NoDev, fd |-> -1, i |-> 0, flags |-> {}, isafs |-> FALSE,
         slot |-> "client"]

Pcs == {"idle", "get_pend", "get", "take", "flags", "locked", "open_cb", "rel_flags",
        "rel_dev", "copy", "stat", "lock_pend", "lock", "set_clear",
        "set_load", "set_store"}

\* The pool as alt_dev.c lays it out: the three standard streams point at
\* /dev/null, with no flags.
Init ==
  /\ alt_dev_list = <<Null>>
  /\ alt_fs_list = << >>
  /\ alt_fd_list = [f \in Fds |-> [dev   |-> IF f <= 2 THEN Null ELSE NoDev,
                                   flags |-> {}]]
  /\ alt_max_fd = -1
  /\ alt_fd_list_lock = "free"
  /\ todo = <<"register">>
  /\ pc = [t \in Threads |-> "idle"]
  /\ loc = [t \in Threads |-> Idle]
  /\ held = [t \in Threads |-> IF t = Main THEN 0 .. 2 ELSE {}]
  /\ granted = {}

pool  == <<alt_fd_list, alt_max_fd>>
lists == <<alt_dev_list, alt_fs_list>>
sem   == alt_fd_list_lock
Booted == todo = << >>

Go(t, where)    == pc' = [pc EXCEPT ![t] = where]
LookAt(t, k)    == loc' = [loc EXCEPT ![t].i = k]
WorkOn(t, f)    == loc' = [loc EXCEPT ![t].fd = f]
Finish(t)       == /\ pc' = [pc EXCEPT ![t] = "idle"]
                   /\ loc' = [loc EXCEPT ![t] = Idle]
SetFlags(f, fl) == alt_fd_list' = [alt_fd_list EXCEPT ![f].flags = fl]

(***************************** start up ************************************)

\* alt_dev_reg and alt_fs_reg from alt_sys_init: alt_llist_insert puts the
\* new entry at the head of the list.
alt_dev_reg ==
  /\ todo = <<"register">>
  /\ \E d \in Devices \ Range(alt_dev_list) :
       alt_dev_list' = <<d>> \o alt_dev_list
  /\ UNCHANGED <<alt_fs_list, pool, sem, todo, pc, loc, held, granted>>

alt_fs_reg ==
  /\ todo = <<"register">>
  /\ \E d \in Filesystems \ Range(alt_fs_list) :
       alt_fs_list' = <<d>> \o alt_fs_list
  /\ UNCHANGED <<alt_dev_list, pool, sem, todo, pc, loc, held, granted>>

\* alt_io_redirect opens stdout, then stdin, then stderr.
alt_io_redirect ==
  /\ todo = <<"register">>
  /\ todo' = <<"stdout", "stdin", "stderr">>
  /\ UNCHANGED <<lists, pool, sem, pc, loc, held, granted>>

(******************************* open() ************************************)

\* First entry of the list that matches, or NoDev.
FirstMatch(list, matching) ==
  LET hits == {k \in DOMAIN list : list[k] \in matching}
  IN  IF hits = {} THEN NoDev ELSE list[Min(hits)]

\* A device matches its whole name, a mount point any name below it.
alt_find_dev(name)  == FirstMatch(alt_dev_list, {d \in DOMAIN NameOf : NameOf[d] = name})
alt_find_file(name) ==
  FirstMatch(alt_fs_list, {d \in DOMAIN NameOf : IsPrefix(NameOf[d], name)})

\* The device, or failing that the file system, open() uses.
Lookup(name) == LET d == alt_find_dev(name)
                IN  IF d # NoDev THEN d ELSE alt_find_file(name)

\* ALT_OPEN up to the call of alt_get_fd.  Without a device it fails with
\* -ENODEV, and releasing descriptor -1 does nothing.
OpenStart(t, name, flags, slot) ==
  LET d == Lookup(name)
  IN  /\ pc[t] = "idle"
      /\ IF d = NoDev
         THEN UNCHANGED <<pc, loc>>
         ELSE /\ Go(t, "get_pend")
              /\ loc' = [loc EXCEPT ![t].dev = d, ![t].flags = flags, ![t].slot = slot,
                                    ![t].isafs = (alt_find_dev(name) = NoDev)]

\* A client's open().
ClientOpen(t) ==
  /\ Booted /\ "open" \in Calls
  /\ \E name \in Paths, flags \in OpenFlags :
       OpenStart(t, name, flags, "client")
  /\ UNCHANGED <<lists, pool, sem, todo, held, granted>>

\* stat() opens the file with no flags, asks fstat() and closes it again.
ClientStat(t) ==
  /\ Booted /\ "stat" \in Calls
  /\ \E name \in Paths : OpenStart(t, name, {}, "stat")
  /\ UNCHANGED <<lists, pool, sem, todo, held, granted>>

\* alt_open_fd for the next standard stream: stdout and stderr O_WRONLY,
\* stdin O_RDONLY.  If the name is unknown the stream stays on /dev/null.
alt_open_fd ==
  LET s == Head(todo)
  IN  /\ todo # << >> /\ s \in Streams
      /\ OpenStart(Main, StdioName[s], IF s = "stdin" THEN {} ELSE {"WRONLY"}, s)
      /\ todo' = IF Lookup(StdioName[s]) = NoDev THEN Tail(todo) ELSE todo
      /\ pc[Main] = "idle"
      /\ UNCHANGED <<lists, pool, sem, held, granted>>

\* ALT_SEM_PEND(alt_fd_list_lock) at the head of alt_get_fd and alt_fd_lock.
NoPendBug(t) == alt_fd_list_lock' = t          \* does not wait its turn
Pend(t) == sem = "free" /\ alt_fd_list_lock' = t

\* The end of an open() made by alt_open_fd: on to the next stream.
Redirected(t) == todo' = IF loc[t].slot \in Streams THEN Tail(todo) ELSE todo

GetPend(t) ==
  /\ pc[t] = "get_pend"
  /\ Pend(t)
  /\ Go(t, "get")
  /\ LookAt(t, 0)
  /\ UNCHANGED <<lists, pool, todo, held, granted>>

\* The high water mark once descriptor i is taken.
Mark(i) == IF i > alt_max_fd THEN i ELSE alt_max_fd

\* -EMFILE, whose release does nothing: open() fails.
RetryBug(t) == Go(t, "get_pend") /\ UNCHANGED <<todo, loc>>   \* waits instead
PoolFull(t) == Redirected(t) /\ Finish(t)

\* One turn of the loop of alt_get_fd: the first free descriptor is the one.
alt_get_fd(t) ==
  LET i == loc[t].i
  IN  /\ pc[t] = "get"
      /\ \/ /\ i < ALT_MAX_FD /\ alt_fd_list[i].dev = NoDev
            /\ Go(t, "take")
            /\ UNCHANGED <<sem, todo, loc>>
         \/ /\ i < ALT_MAX_FD /\ alt_fd_list[i].dev # NoDev
            /\ LookAt(t, i + 1)
            /\ UNCHANGED <<sem, todo, pc>>
         \/ /\ i = ALT_MAX_FD
            /\ alt_fd_list_lock' = "free"
            /\ PoolFull(t)
      /\ UNCHANGED <<lists, pool, held, granted>>

\* It is marked as taken, which only the semaphore makes one with the test.
TakeFd(t) ==
  LET i == loc[t].i
  IN  /\ pc[t] = "take"
      /\ alt_fd_list' = [alt_fd_list EXCEPT ![i].dev = loc[t].dev]
      /\ alt_max_fd' = Mark(i)
      /\ alt_fd_list_lock' = "free"
      /\ Go(t, "flags")
      /\ WorkOn(t, i)
      /\ UNCHANGED <<lists, todo, held, granted>>

\* The flags of the new descriptor: the caller's without the private ones,
\* and ALT_FD_DEV when alt_file_locked is entered for a device.
OpenSetFlags(t) ==
  /\ pc[t] = "flags"
  /\ SetFlags(loc[t].fd, (loc[t].flags \ FlagsMask) \cup
                         (IF loc[t].isafs THEN {} ELSE {"DEV"}))
  /\ Go(t, IF loc[t].isafs THEN "open_cb" ELSE "locked")
  /\ LookAt(t, 0)
  /\ UNCHANGED <<lists, alt_max_fd, sem, todo, held, granted>>

\* Another descriptor holds this device exclusively.
LockedByBug(i, fd) == FALSE          \* the check of open() forgotten
LockedBy(i, fd) == /\ alt_fd_list[i].dev = alt_fd_list[fd].dev
                   /\ "EXCL" \in alt_fd_list[i].flags
                   /\ i # fd

\* One turn of the loop of alt_file_locked, which holds no semaphore and
\* looks at descriptors up to and including alt_max_fd.
alt_file_locked(t) ==
  LET i == loc[t].i
  IN  /\ pc[t] = "locked"
      /\ IF i > alt_max_fd
         THEN Go(t, "open_cb") /\ UNCHANGED loc
         ELSE IF LockedBy(i, loc[t].fd)
              THEN Go(t, "rel_flags") /\ UNCHANGED loc
              ELSE LookAt(t, i + 1) /\ UNCHANGED pc
      /\ UNCHANGED <<lists, pool, sem, todo, held, granted>>

\* The driver's open callback, if it has one, may refuse.  On success a
\* client has its descriptor; the redirection and stat() go on from there.
OpenCallback(t) ==
  /\ pc[t] = "open_cb"
  /\ \/ /\ "open" \in Provides[loc[t].dev]
        /\ Go(t, "rel_flags")
        /\ UNCHANGED <<loc, held>>
     \/ /\ loc[t].slot = "client"
        /\ held' = [held EXCEPT ![t] = @ \cup {loc[t].fd}]
        /\ Finish(t)
     \/ /\ loc[t].slot \in Streams \cup {"stat"}
        /\ Go(t, IF loc[t].slot = "stat" THEN "stat" ELSE "copy")
        /\ UNCHANGED <<loc, held>>
  /\ UNCHANGED <<lists, pool, sem, todo, granted>>

\* alt_open_fd copies what open() set up into the standard stream.
RedirectCopy(t) ==
  /\ pc[t] = "copy"
  /\ alt_fd_list' = [alt_fd_list EXCEPT ![Filno[loc[t].slot]] =
                                        alt_fd_list[loc[t].fd]]
  /\ Go(t, "rel_flags")
  /\ UNCHANGED <<lists, alt_max_fd, sem, todo, loc, held, granted>>

\* stat() goes on to close(), whatever fstat() answered.
StatClose(t) ==
  /\ pc[t] = "stat"
  /\ Go(t, "rel_flags")
  /\ UNCHANGED <<lists, pool, sem, todo, loc, held, granted>>

\* alt_release_fd leaves the standard streams alone, clears the flags of any
\* other descriptor and then, last, its device.  It ends open() when that
\* fails, close(), stat() and each redirection.
ReleasesAllBug(f) == f >= 0                    \* the standard streams too
Releases(f) == f > 2

\* The swapped order: the descriptor is free before its flags are cleared.
ReleaseEarlyBug(t) ==
  /\ pc[t] = "rel_flags"
  /\ IF Releases(loc[t].fd)
     THEN alt_fd_list' = [alt_fd_list EXCEPT ![loc[t].fd].dev = NoDev]
     ELSE UNCHANGED alt_fd_list
  /\ Go(t, "rel_dev")
  /\ UNCHANGED <<lists, alt_max_fd, sem, todo, loc, held, granted>>

ReleaseFlags(t) ==
  /\ pc[t] = "rel_flags"
  /\ IF Releases(loc[t].fd)
     THEN SetFlags(loc[t].fd, {})
     ELSE UNCHANGED alt_fd_list
  /\ Go(t, "rel_dev")
  /\ UNCHANGED <<lists, alt_max_fd, sem, todo, loc, held, granted>>

ReleaseDev(t) ==
  /\ pc[t] = "rel_dev"
  /\ IF Releases(loc[t].fd)
     THEN alt_fd_list' = [alt_fd_list EXCEPT ![loc[t].fd].dev = NoDev]
     ELSE UNCHANGED alt_fd_list
  /\ Redirected(t)
  /\ Finish(t)
  /\ UNCHANGED <<lists, alt_max_fd, sem, held, granted>>

(************************ close(), ioctl(), fcntl() ************************)

\* Descriptors a thread makes calls on.
Usable(t) == IF Shared THEN UNION {held[u] : u \in Threads} ELSE held[t]

\* ALT_CLOSE: the driver's close callback, whose error the caller gets after
\* the descriptor is released all the same.
ALT_CLOSE(t) ==
  /\ Booted /\ "close" \in Calls /\ pc[t] = "idle"
  /\ \E f \in held[t] :
       /\ held' = [held EXCEPT ![t] = @ \ {f}]
       /\ granted' = granted \ {f}
       /\ WorkOn(t, f)
       /\ Go(t, "rel_flags")
  /\ UNCHANGED <<lists, pool, sem, todo>>

\* ioctl(TIOCEXCL) on a device; a file system's descriptor gets no lock.
IoctlLock(t) ==
  /\ Booted /\ "lock" \in Calls /\ pc[t] = "idle"
  /\ \E f \in Usable(t) :
       /\ "DEV" \in alt_fd_list[f].flags
       /\ WorkOn(t, f)
       /\ Go(t, "lock_pend")
  /\ UNCHANGED <<lists, pool, sem, todo, held, granted>>

LockPend(t) ==
  /\ pc[t] = "lock_pend"
  /\ Pend(t)
  /\ Go(t, "lock")
  /\ LookAt(t, 0)
  /\ UNCHANGED <<lists, pool, todo, held, granted>>

\* The loop of alt_fd_lock stops below alt_max_fd.
LockScanEnds(i) == i >= alt_max_fd
\* ALT_SEM_POST, on both ways out.
Post == alt_fd_list_lock' = "free"

alt_fd_lock(t) ==
  LET i == loc[t].i
      f == loc[t].fd
  IN  /\ pc[t] = "lock"
      /\ \/ /\ LockScanEnds(i)
            /\ SetFlags(f, alt_fd_list[f].flags \cup {"EXCL"})
            /\ granted' = granted \cup {f}
            /\ Post /\ Finish(t)
         \/ /\ ~LockScanEnds(i)
            /\ i # f /\ alt_fd_list[i].dev = alt_fd_list[f].dev
            /\ Post /\ Finish(t)
            /\ UNCHANGED <<alt_fd_list, granted>>
         \/ /\ ~LockScanEnds(i)
            /\ i = f \/ alt_fd_list[i].dev # alt_fd_list[f].dev
            /\ LookAt(t, i + 1)
            /\ UNCHANGED <<alt_fd_list, granted, sem, pc>>
      /\ UNCHANGED <<lists, alt_max_fd, todo, held>>

\* ioctl(TIOCNXCL): alt_fd_unlock.
alt_fd_unlock(t) ==
  /\ Booted /\ "unlock" \in Calls /\ pc[t] = "idle"
  /\ \E f \in Usable(t) :
       /\ "DEV" \in alt_fd_list[f].flags
       /\ SetFlags(f, alt_fd_list[f].flags \ {"EXCL"})
       /\ granted' = granted \ {f}
  /\ UNCHANGED <<lists, alt_max_fd, sem, todo, pc, loc, held>>

\* fcntl(F_SETFL) in its two unprotected updates of fd_flags: the first is
\* loaded here, stored by SetClear; the second is SetLoad and SetStore.
ALT_FCNTL(t) ==
  /\ Booted /\ "fcntl" \in Calls /\ pc[t] = "idle"
  /\ \E f \in Usable(t) :
       loc' = [loc EXCEPT ![t].fd = f, ![t].flags = alt_fd_list[f].flags]
  /\ Go(t, "set_clear")
  /\ UNCHANGED <<lists, pool, sem, todo, held, granted>>

SetClear(t) ==
  /\ pc[t] = "set_clear"
  /\ SetFlags(loc[t].fd, loc[t].flags \ FcntlMask)
  /\ Go(t, "set_load")
  /\ UNCHANGED <<lists, alt_max_fd, sem, todo, loc, held, granted>>

SetLoad(t) ==
  /\ pc[t] = "set_load"
  /\ loc' = [loc EXCEPT ![t].flags = alt_fd_list[loc[t].fd].flags]
  /\ Go(t, "set_store")
  /\ UNCHANGED <<lists, pool, sem, todo, held, granted>>

SetStore(t) ==
  /\ pc[t] = "set_store"
  /\ \E arg \in OpenFlags :
       SetFlags(loc[t].fd, loc[t].flags \cup (arg \cap FcntlMask))
  /\ Finish(t)
  /\ UNCHANGED <<lists, alt_max_fd, sem, todo, held, granted>>

(*************** calls that change nothing of this layer *******************)

\* Where read(), write(), lseek(), ioctl() and fstat() of descriptor f go:
\* to a callback of the driver, or back with an error (fstat() answers for a
\* character device itself).
Vector(f, op, allowed) == IF allowed /\ op \in Provides[alt_fd_list[f].dev]
                          THEN alt_fd_list[f].dev ELSE NoDev
ALT_READ(f)   == Vector(f, "read", "WRONLY" \notin alt_fd_list[f].flags)
ALT_WRITE(f)  == Vector(f, "write",
                        alt_fd_list[f].flags \cap {"WRONLY", "RDWR"} # {})
ALT_LSEEK(f)  == Vector(f, "lseek", TRUE)
ALT_IOCTL(f)  == Vector(f, "ioctl", TRUE)
ALT_FSTAT(f)  == Vector(f, "fstat", TRUE)
\* A driver without fstat() is a terminal; one with it says so itself.
ALT_ISATTY(f) == ALT_FSTAT(f) = NoDev

(***************************************************************************)

\* What a thread does between two of the client's calls.
Inside(t) ==
  \/ GetPend(t) \/ alt_get_fd(t) \/ TakeFd(t)
  \/ OpenSetFlags(t) \/ alt_file_locked(t)
  \/ OpenCallback(t) \/ RedirectCopy(t) \/ StatClose(t)
  \/ ReleaseFlags(t) \/ ReleaseDev(t)
  \/ LockPend(t) \/ alt_fd_lock(t)
  \/ SetClear(t) \/ SetLoad(t) \/ SetStore(t)

Next ==
  \/ alt_dev_reg \/ alt_fs_reg \/ alt_io_redirect \/ alt_open_fd
  \/ \E t \in Threads :
       \/ ClientOpen(t) \/ ClientStat(t) \/ ALT_CLOSE(t)
       \/ IoctlLock(t) \/ alt_fd_unlock(t) \/ ALT_FCNTL(t)
       \/ Inside(t)

Spec == Init /\ [][Next]_vars

\* A thread in a call goes on, and a thread that keeps finding the semaphore
\* free in the end gets it (the semaphores of the supported kernels queue
\* their waiters).  Nothing makes a client start a call.
FairSpec == /\ Spec
            /\ \A t \in Threads : /\ WF_vars(Inside(t))
                                  /\ SF_vars(GetPend(t) \/ LockPend(t))

(******************************** properties *******************************)

\* The lists and the pool are well formed, and the high water mark of
\* alt_get_fd stays inside the pool.
TypeOK ==
  /\ Range(alt_dev_list) \subseteq Devices \cup {Null}
  /\ Range(alt_fs_list) \subseteq Filesystems
  /\ alt_fd_list \in [Fds -> [dev : Devs \cup {NoDev}, flags : SUBSET AllFlags]]
  /\ alt_max_fd \in -1 .. ALT_MAX_FD - 1
  /\ alt_fd_list_lock \in Threads \cup {"free"}
  /\ pc \in [Threads -> Pcs]
  /\ \A t \in Threads : held[t] \subseteq Fds /\ loc[t].fd \in Fds \cup {-1}

\* Descriptors a thread works on inside open(), stat() or close().
InCall(t) == IF pc[t] \in {"flags", "locked", "open_cb", "copy", "stat",
                           "rel_flags", "rel_dev"}
             THEN {loc[t].fd} ELSE {}

\* The pool is conserved: every descriptor above the standard streams that
\* is in use belongs to exactly one thread, which got it from open() or is
\* inside the call that will hand it out or release it; no failed open(), no
\* stat() and no redirection loses one, and no two threads are given the
\* same one (alt_get_fd's semaphore, the release at the end of ALT_OPEN).
PoolConserved ==
  /\ \A t \in Threads : held[t] \cap InCall(t) = {}
  /\ \A t, u \in Threads : t # u =>
       (held[t] \cup InCall(t)) \cap (held[u] \cup InCall(u)) = {}
  /\ \A f \in Fds : f > 2 =>
       (alt_fd_list[f].dev # NoDev <=>
          \E t \in Threads : f \in held[t] \cup InCall(t))

\* A granted TIOCEXCL lasts until TIOCNXCL or close(): no open(), fcntl() or
\* release of another descriptor takes the lock away.
LockSticks == \A f \in granted : "EXCL" \in alt_fd_list[f].flags

\* When a device is locked no lower descriptor of a client refers to it, and
\* so no two descriptors of one device are ever locked together: the
\* descriptor is in the pool before open() looks for locks, and alt_fd_lock
\* keeps alt_get_fd out while it scans.
LockedIsLowest ==
  \A f \in granted : \A t \in Threads : \A g \in held[t] :
    (g < f => alt_fd_list[g].dev # alt_fd_list[f].dev)

\* The driver a standard stream was asked to be redirected to, or /dev/null.
Requested(s) == LET d == Lookup(StdioName[s]) IN IF d = NoDev THEN Null ELSE d

\* Once the redirection is over a standard stream reads or writes the device
\* system.h names for it, in the direction it was opened for (/dev/null if
\* that device is not registered or refused), whatever the clients close.
StdioConnected ==
  Booted =>
    \A s \in Streams :
      LET f == Filno[s]
          d == alt_fd_list[f].dev
          op == IF s = "stdin" THEN "read" ELSE "write"
      IN  /\ d \in {Requested(s), Null}
          /\ "open" \notin Provides[Requested(s)] => d = Requested(s)
          /\ d # Null /\ op \in Provides[d] =>
               IF s = "stdin" THEN ALT_READ(f) = d /\ ALT_WRITE(f) = NoDev
                              ELSE ALT_WRITE(f) = d /\ ALT_READ(f) = NoDev

\* Of the descriptors: every one in use belongs to exactly one thread, and no
\* failed call loses one (alt_get_fd, the end of ALT_OPEN); when a device is
\* locked no lower descriptor refers to it; and after the redirection a
\* standard stream uses the device system.h names for it, in its direction
\* (alt_io_redirect).
PoolSound == TypeOK /\ PoolConserved /\ LockedIsLowest /\ StdioConnected
=============================================================================
