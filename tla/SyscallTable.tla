---------------------------- MODULE SyscallTable ----------------------------
(***************************************************************************)
(* The interposed functions (src/linux_syscall_wrappers.cpp and, for       *)
(* macOS, src/smash_heap.cpp), one record for each: what the kernel reads  *)
(* and writes of the arguments, what the walk touches, what user code      *)
(* reads (peek: at each walk, if gated only when the walk has a page to    *)
(* touch; pre: before the call) or touches (warm) on the way, whether      *)
(* there is a retry, and what happens while the real function is unknown.  *)
(* An argument is one page, named by its role in the call.                 *)
(***************************************************************************)
EXTENDS TLC

\* retryWith1Buf, retryWith2Bufs: the walk touches the buffers it is given.
Retry(reads, writes, walk) ==
  [reads |-> reads, writes |-> writes, walk |-> walk, peek |-> {}, pre |-> {},
   warm |-> {}, gated |-> FALSE, retry |-> TRUE, unresolved |-> "syscall"]

\* retryWithIovec, walkIovecForFault: the walk reads the vector itself.
RetryVec(reads, writes) ==
  [Retry(reads \cup {"iov"}, writes, {"vec"}) EXCEPT !.peek = {"iov"}]

\* warmPages before a call that libc makes on its own.
Warm(reads, writes, warm) ==
  [Retry(reads, writes, {}) EXCEPT !.warm = warm, !.retry = FALSE]

\* The original is always at hand: dyld binds it before any code runs.
Bound(d) == [d EXCEPT !.unresolved = "never"]

Family(names, d) == [n \in names |-> d]

IoWrappers ==
  Family({"read", "pread", "recv"}, Retry({}, {"buf"}, {"buf"}))
  @@ Family({"write", "pwrite", "send"}, Retry({"buf"}, {}, {"buf"}))
  @@ Family({"readv"}, RetryVec({}, {"vec"}))
  @@ Family({"writev"}, RetryVec({"vec"}, {}))
  @@ Family({"recvfrom"},
            Retry({"addrlen"}, {"buf", "addr", "addrlen"}, {"buf"}))
  @@ Family({"sendto"}, Retry({"buf", "addr"}, {}, {"buf"}))
  @@ Family({"recvmsg"},
            [RetryVec({"msg"}, {"msg", "vec", "addr"}) EXCEPT
               !.pre = {"msg", "iov"}, !.peek = {"msg", "iov"},
               !.gated = TRUE])
  @@ Family({"sendmsg"},
            [RetryVec({"msg", "vec", "addr"}, {}) EXCEPT
               !.pre = {"msg", "iov"}, !.peek = {"msg", "iov"},
               !.gated = TRUE])

PollWrappers ==
  Family({"poll"}, Retry({"fds"}, {"fds"}, {"fds"}))
  @@ Family({"ppoll"}, Retry({"fds", "timeout", "mask"}, {"fds"}, {"fds"}))
  @@ Family({"select"},
            Retry({"rset", "wset", "eset", "timeout"},
                  {"rset", "wset", "eset", "timeout"},
                  {"rset", "wset", "eset"}))
  @@ Family({"pselect"},
            Retry({"rset", "wset", "eset", "timeout", "mask"},
                  {"rset", "wset", "eset"}, {"rset", "wset", "eset"}))

SocketWrappers ==
  Family({"accept", "accept4", "getsockopt", "getsockname", "getpeername"},
         [Retry({"addrlen"}, {"addr", "addrlen"}, {"addr"}) EXCEPT
            !.pre = {"addrlen"}])
  @@ Family({"recvmmsg"},
            [RetryVec({"msg"}, {"msg", "vec", "addr"}) EXCEPT
               !.peek = {"msg", "iov"}])
  @@ Family({"sendmmsg"},
            [RetryVec({"msg", "vec", "addr"}, {"msg"}) EXCEPT
               !.peek = {"msg", "iov"}])

FstatWrappers ==
  Family({"fstat", "fstat64", "__fxstat", "__fxstat64", "fstatfs"},
         Retry({}, {"buf"}, {"buf"}))

StatWrappers ==
  Family({"stat", "lstat", "fstatat", "stat64", "lstat64", "fstatat64",
          "__xstat", "__lxstat", "__fxstatat", "__xstat64", "__lxstat64",
          "__fxstatat64", "statx"},
         Retry({"path"}, {"buf"}, {"buf"}))

FileWrappers ==
  Family({"getdents64"}, Retry({}, {"buf"}, {"buf"}))
  @@ Family({"readlink", "readlinkat"}, Retry({"path"}, {"buf"}, {"buf"}))
  @@ Family({"preadv", "preadv2"}, RetryVec({}, {"vec"}))
  @@ Family({"pwritev", "pwritev2"}, RetryVec({"vec"}, {}))

\* statvfs and fstatvfs have no system call to fall back on.
ProcessWrappers ==
  Family({"waitid"}, Retry({}, {"buf"}, {"buf"}))
  @@ Family({"wait4"},
            Retry({}, {"status", "usage"}, {"status", "usage"}))
  @@ Family({"statvfs"},
            [Retry({"path"}, {"buf"}, {"buf"}) EXCEPT !.unresolved = "fail"])
  @@ Family({"fstatvfs"},
            [Retry({}, {"buf"}, {"buf"}) EXCEPT !.unresolved = "fail"])

XattrWrappers ==
  Family({"getxattr", "lgetxattr"},
         Retry({"path", "name"}, {"buf"}, {"buf"}))
  @@ Family({"fgetxattr"}, Retry({"name"}, {"buf"}, {"buf"}))
  @@ Family({"listxattr", "llistxattr"}, Retry({"path"}, {"buf"}, {"buf"}))
  @@ Family({"flistxattr"}, Retry({}, {"buf"}, {"buf"}))

LimitWrappers ==
  Family({"getrusage", "getrandom"}, Retry({}, {"buf"}, {"buf"}))
  @@ Family({"prlimit64"}, Retry({"new"}, {"old"}, {"new", "old"}))

\* A null buffer is replaced by one on the stack, which smash never protects;
\* the raw system call is inside the retry loop.
GetcwdWrapper ==
  Family({"getcwd"}, Bound(Retry({}, {"buf"}, {"buf"})))
  @@ Family({"getcwd_null"}, Bound(Retry({}, {}, {})))

StdioWrappers ==
  Family({"fread", "fgets"},
         [Warm({}, {"buf", "stream"}, {"buf", "stream"}) EXCEPT
            !.unresolved = "fail"])
  @@ Family({"fgetc", "getc"},
            [Warm({}, {"stream"}, {"stream"}) EXCEPT !.unresolved = "fail"])
  @@ Family({"fwrite"},
            [Warm({"buf", "stream"}, {}, {"buf", "stream"}) EXCEPT
               !.unresolved = "fail"])
  @@ Family({"fflush"},
            [Warm({"stream"}, {}, {"stream"}) EXCEPT !.unresolved = "fail"])

EpollWrappers ==
  Family({"epoll_wait"}, Retry({}, {"events"}, {"events"}))
  @@ Family({"epoll_pwait"}, Retry({"mask"}, {"events"}, {"events"}))

\* warm_argv reads the vectors to find their end.  The raw execve comes after
\* the warming.  execv and execvp pass environ on and warm nothing of it.
Exec(warm) ==
  [Warm({"path", "argv", "envp"}, {}, warm) EXCEPT
     !.pre = warm \ {"path"}, !.unresolved = "fail"]

ExecWrappers ==
  Family({"execve"}, Bound(Exec({"path", "argv", "envp"})))
  @@ Family({"execv"}, Bound(Exec({"path", "argv"})))
  @@ Family({"execvp"}, Exec({"path", "argv"}))
  @@ Family({"execvpe", "posix_spawn", "posix_spawnp"},
            Exec({"path", "argv", "envp"}))

KeventWrappers ==
  Family({"kevent", "kevent64"},
         Bound(Retry({"changes", "timeout"}, {"events"},
                     {"changes", "events"})))

\* Only the first kSmashMaxOolPins descriptors are walked again: "more" stands
\* for the data of the ones after them.
MachWrappers ==
  Family({"mach_msg", "mach_msg2_internal"},
         [Bound(Retry({"msg", "ool", "more"}, {"msg"}, {"msg", "ool"})) EXCEPT
            !.pre = {"msg"}, !.warm = {"ool", "more"}])
  @@ Family({"mach_msg_overwrite"},
            [Bound(Retry({"msg", "ool"}, {"rcv"}, {"msg", "rcv", "ool"}))
             EXCEPT !.pre = {"msg"}, !.warm = {"ool"}])

\* rcv_msg = nullptr: the answer goes past send_size of msg, walked by nobody.
MachInPlace ==
  Family({"mach_msg_overwrite_null"},
         [Bound(Retry({"msg", "ool"}, {"rcv"}, {"msg", "ool"})) EXCEPT
            !.pre = {"msg"}, !.warm = {"ool"}])

\* The macOS wrappers of calls that Linux has as well.
MacWrappers ==
  Family({"mac_recvfrom"},
         Bound(Retry({"addrlen"}, {"buf", "addr", "addrlen"}, {"buf"})))
  @@ Family({"mac_sendto"}, Bound(Retry({"buf", "addr"}, {}, {"buf"})))
  @@ Family({"mac_recvmsg"},
            [Bound(RetryVec({"msg"}, {"msg", "vec", "addr"})) EXCEPT
               !.peek = {"msg", "iov"}])
  @@ Family({"mac_sendmsg"},
            [Bound(RetryVec({"msg", "vec", "addr"}, {})) EXCEPT
               !.peek = {"msg", "iov"}])
  @@ Family({"mac_recv", "mac_fstat", "mac_fstatfs"},
            Bound(Retry({}, {"buf"}, {"buf"})))
  @@ Family({"mac_send"}, Bound(Retry({"buf"}, {}, {"buf"})))
  @@ Family({"mac_poll"}, Bound(Retry({"fds"}, {"fds"}, {"fds"})))
  @@ Family({"mac_stat", "mac_lstat", "mac_fstatat"},
            Bound(Retry({"path"}, {"buf"}, {"buf"})))

MacFileWrappers ==
  Family({"mac_readlink", "mac_readlinkat", "mac_statvfs"},
         Bound(Retry({"path"}, {"buf"}, {"buf"})))
  @@ Family({"mac_preadv", "mac_readv"}, Bound(RetryVec({}, {"vec"})))
  @@ Family({"mac_pwritev", "mac_writev"}, Bound(RetryVec({"vec"}, {})))
  @@ Family({"getattrlist"},
            Bound(Retry({"path", "alist"}, {"buf"}, {"buf"})))
  @@ Family({"getattrlistbulk"}, Bound(Retry({"alist"}, {"buf"}, {"buf"})))
  @@ Family({"mac_wait4"},
            Bound(Retry({}, {"status", "usage"}, {"status", "usage"})))
  @@ Family({"mac_waitid", "mac_fstatvfs", "mac_getrusage", "mac_read",
             "mac_pread"},
            Bound(Retry({}, {"buf"}, {"buf"})))
  @@ Family({"mac_write", "mac_pwrite"}, Bound(Retry({"buf"}, {}, {"buf"})))

MacStdioWrappers ==
  Family({"mac_fread", "mac_fgets"},
         Bound(Warm({}, {"buf", "stream"}, {"buf", "stream"})))
  @@ Family({"mac_fgetc", "mac_getc"},
            Bound(Warm({}, {"stream"}, {"stream"})))
  @@ Family({"mac_fwrite"},
            Bound(Warm({"buf", "stream"}, {}, {"buf", "stream"})))
  @@ Family({"mac_fflush"}, Bound(Warm({"stream"}, {}, {"stream"})))

Wrappers ==
  IoWrappers @@ PollWrappers @@ SocketWrappers @@ FstatWrappers
  @@ StatWrappers @@ FileWrappers @@ ProcessWrappers @@ XattrWrappers
  @@ LimitWrappers @@ GetcwdWrapper @@ StdioWrappers @@ EpollWrappers
  @@ ExecWrappers @@ KeventWrappers @@ MachWrappers @@ MachInPlace
  @@ MacWrappers @@ MacFileWrappers @@ MacStdioWrappers

\* One name for each shape of wrapper: the others behave like it.
Shapes ==
  {CHOOSE n \in DOMAIN Wrappers : Wrappers[n] = d :
     d \in {Wrappers[n] : n \in DOMAIN Wrappers}}

=============================================================================
