------------------------------- MODULE MCPrograms -------------------------------
(* The programs that wait for the kernel, for peers or for each other, side by    *)
(* side: they share no state.  Every behaviour is about one of them; the others   *)
(* stay in an initial state.                                                      *)
EXTENDS MCDirWatch, Proxy, FullIO, CLog, RotatingLog, Dechunk

VARIABLE part

MCBytes == [c \in Conn |-> [cli |-> 4, svr |-> 2]]
MCLevel == {2, 3, 4}

\* Letters, digits and line ends as data, in one chunk or two, long enough for the two
\* bytes that dechunk() takes off the size, or not.
MCBodies == {<<>>, <<<<120, 121, 49, 50>>>>, <<<<120, 13, 10, 121, 122>>>>, <<<<48>>>>, <<<<120, 121>>>>,
             <<<<120, 121, 122>>, <<49, 50, 120, 121, 122, 48>>>>, <<<<120, 121, 122, 13>>, <<13, 10, 48>>>>}

\* Where there is a choice of inputs, one is fixed while a behaviour is about another part.
\* What the memory of an entry holds before it is written is never read.
DirAny == /\ Init /\ (part # "dirwatch" => argv = <<>>)
          /\ inot_ev = [d \in Entry |-> Ev("other", NULL)]
IOAny == IOInit /\ (part # "io" => call = [dir |-> "write", nonblock |-> FALSE, n |-> 0] /\ errno = "other")

ProgramsInit ==
    /\ part \in {"dirwatch", "proxy", "io", "clog", "zlog", "dechunk"}
    /\ DirAny /\ ProxyInit /\ IOAny /\ CLogInit /\ RotInit /\ DechunkInit

InDir(A)     == part = "dirwatch" /\ A /\ UNCHANGED <<part, proxyVars, ioVars, clogVars, zlogVars, dechunkVars>>
InProxy(A)   == part = "proxy" /\ A /\ UNCHANGED <<part, vars, ioVars, clogVars, zlogVars, dechunkVars>>
InIO(A)      == part = "io" /\ A /\ UNCHANGED <<part, vars, proxyVars, clogVars, zlogVars, dechunkVars>>
InCLog(A)    == part = "clog" /\ A /\ UNCHANGED <<part, vars, proxyVars, ioVars, zlogVars, dechunkVars>>
InZlog(A)    == part = "zlog" /\ A /\ UNCHANGED <<part, vars, proxyVars, ioVars, clogVars, dechunkVars>>
InDechunk(A) == part = "dechunk" /\ A /\ UNCHANGED <<part, vars, proxyVars, ioVars, clogVars, zlogVars>>

ProgramsNext ==
    \/ InDir(Next) \/ InProxy(ProxyNext) \/ InIO(IONext)
    \/ InCLog(CLogNext) \/ InZlog(RotNext) \/ InDechunk(DechunkNext)

\* The fairness that each of them states.
ProgramsSpec ==
    /\ ProgramsInit
    /\ [][ProgramsNext]_<<part, vars, proxyVars, ioVars, clogVars, zlogVars, dechunkVars>>
    /\ WF_vars(InDir(Step))
    /\ \A c \in Conn : WF_proxyVars(InProxy(ThreadStep(c)))
    /\ WF_ioVars(InIO(IOStep))
    /\ \A w \in Writer : WF_clogVars(InCLog(LogStep(w)))
    /\ \A t \in Thread : WF_zlogVars(InZlog(ZlogStep(t)))
-------------------------------------------------------------------------------
\* A thread of the proxy ends when one of its peers does, and the four transfer functions
\* of utils.c return, except that readn_nonblock() spins when errno is left over.
EndWithPeers == EndsWithPeer /\ EndsAtEof

\* A thread that logs through one of the two libraries is never kept waiting for ever:
\* the mutex is released on every path.
LogsEnd == LogEnds /\ ZlogEnds
===============================================================================
