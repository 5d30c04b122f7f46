-------------------------------- MODULE Launch --------------------------------
(***************************************************************************)
(* Starting the terminal: windows, which look for a running terminal       *)
(* through a lock file and the fixed port of the service before they serve *)
(* one of their own (ui/desktop.py), the service, which serves the fixed   *)
(* port (server.run_server), and the ports of the machine.  A process that *)
(* serves trades; each is a bot.                                           *)
(***************************************************************************)
EXTENDS Integers, FiniteSets

CONSTANTS
    Windows, Services,
    Ports, ServicePort,
    Foreign,          \* ports that other programs may hold
    MaxRaces,         \* bound: launches and answers that come at the wrong time
    MaxCrashes        \* bound: processes that the system ends

Procs == Windows \cup Services
None == "none"
NoPort == 0
Other == "other"

ASSUME LaunchAssumption ==
    /\ IsFiniteSet(Windows) /\ IsFiniteSet(Services)
    /\ Windows \cap Services = {} /\ {None, Other} \cap Procs = {}
    /\ Ports \subseteq Nat \ {NoPort} /\ ServicePort \in Ports /\ Foreign \subseteq Ports
    /\ {MaxRaces, MaxCrashes} \subseteq Nat

VARIABLES
    lock,             \* the port the lock file names, NoPort without a file
    holder,           \* who listens on each port
    main,             \* where the main thread of each window stands
    server,           \* where the server of each process stands
    port,             \* the port a process tries or serves
    found,            \* the port a window asks: the one it read, then the one it claimed
    crashes,
    races             \* history: how often something came at the wrong time

launchVars == <<lock, holder, main, server, port, found, crashes, races>>

LaunchInit ==
    /\ lock = NoPort /\ crashes = 0 /\ races = 0
    /\ holder = [n \in Ports |-> None]
    /\ main = [w \in Windows |-> "off"] /\ server = [p \in Procs |-> "off"]
    /\ port = [p \in Procs |-> NoPort] /\ found = [w \in Windows |-> NoPort]

\* Another program takes a port, perhaps one that was free when it was asked for.
OtherListens(n) ==
    /\ n \in Foreign /\ holder[n] = None
    /\ holder' = [holder EXCEPT ![n] = Other]
    /\ UNCHANGED <<lock, main, server, port, found, crashes, races>>

-----------------------------------------------------------------------------
\* What a step does that comes at the wrong time: it counts as a race.
Races(untimely) ==
    /\ untimely => races < MaxRaces
    /\ races' = IF untimely THEN races + 1 ELSE races

\* port_owner.  A terminal that misses the deadline of the question passes for
\* another program.
Owner(n) ==
    IF holder[n] = None THEN {"free"}
    ELSE IF holder[n] = Other THEN {"other"}
    ELSE {"godalgo", "other"}

Missed(n, owner) == owner = "other" /\ holder[n] \in Procs

\* A launch has settled when it serves, shows, has failed or is over.
Settled(p) ==
    /\ server[p] \in {"off", "serving", "ended"}
    /\ p \in Windows => main[p] \in {"off", "open", "attached", "failed", "gone"}

OthersSettled(p) == \A q \in Procs \ {p} : Settled(q)

\* Untimely beside a launch that has not settled.
WindowBegins(w) ==
    /\ main[w] = "off" /\ Races(~OthersSettled(w))
    /\ main' = [main EXCEPT ![w] = "lock"]
    /\ UNCHANGED <<lock, holder, server, port, found, crashes>>

ReadLock(w) ==
    /\ main[w] = "lock"
    /\ found' = [found EXCEPT ![w] = lock]
    /\ main' = [main EXCEPT ![w] = IF lock = NoPort THEN "service" ELSE "probe"]
    /\ UNCHANGED <<lock, holder, server, port, crashes, races>>

\* live_port: a stale file is told by the port that does not answer.
ProbeLock(w) ==
    /\ main[w] = "probe"
    /\ \E owner \in Owner(found[w]) :
           /\ Races(Missed(found[w], owner))
           /\ main' = [main EXCEPT ![w] = IF owner = "godalgo" THEN "attached" ELSE "service"]
    /\ UNCHANGED <<lock, holder, server, port, found, crashes>>

\* Mutant of ProbeService: the fixed port is not looked at.
ProbeServiceNot(w) ==
    /\ main[w] = "service" /\ main' = [main EXCEPT ![w] = "claim"]
    /\ UNCHANGED <<lock, holder, server, port, found, crashes, races>>

\* _running_port: the service keeps no lock.
ProbeService(w) ==
    /\ main[w] = "service"
    /\ \E owner \in Owner(ServicePort) :
           /\ Races(Missed(ServicePort, owner))
           /\ main' = [main EXCEPT ![w] = IF owner = "godalgo" THEN "attached" ELSE "claim"]
    /\ UNCHANGED <<lock, holder, server, port, found, crashes>>

\* free_port, claim, and the server thread is started.
Claim(w) ==
    /\ main[w] = "claim"
    /\ \E n \in Ports \ {ServicePort} :
           /\ holder[n] = None /\ lock' = n
           /\ port' = [port EXCEPT ![w] = n] /\ found' = [found EXCEPT ![w] = n]
    /\ main' = [main EXCEPT ![w] = "wait"]
    /\ server' = [server EXCEPT ![w] = "ask"]
    /\ UNCHANGED <<holder, crashes, races>>

-----------------------------------------------------------------------------
\* The service reads no lock: untimely beside any terminal as well.
ServiceBegins(s) ==
    /\ server[s] = "off"
    /\ Races(~OthersSettled(s) \/ \E q \in Procs : server[q] = "serving")
    /\ port' = [port EXCEPT ![s] = ServicePort]
    /\ server' = [server EXCEPT ![s] = "ask"]
    /\ UNCHANGED <<lock, holder, main, found, crashes>>

\* run_server: leave the port to a terminal, or go to the next free one where another
\* program has it (or seems to): untimely, since nobody looks for a terminal there.
Ask(p) ==
    /\ server[p] = "ask"
    /\ \E owner \in Owner(port[p]) :
           LET later == IF owner = "other"
                        THEN {n \in Ports : n > port[p] /\ holder[n] = None} ELSE {}
           IN  /\ Races(owner = "other")
               /\ server' = [server EXCEPT ![p] =
                      IF owner = "free" \/ later # {} THEN "bind" ELSE "ended"]
               /\ IF later = {} THEN UNCHANGED port
                  ELSE port' = [port EXCEPT ![p] = CHOOSE n \in later : \A m \in later : n <= m]
    /\ UNCHANGED <<lock, holder, main, found, crashes>>

\* uvicorn binds when its start-up is over, unless the port was taken since.
Bind(p) ==
    /\ server[p] = "bind" /\ Races(holder[port[p]] = Other)
    /\ IF holder[port[p]] = None
       THEN /\ holder' = [holder EXCEPT ![port[p]] = p]
            /\ server' = [server EXCEPT ![p] = "serving"]
       ELSE server' = [server EXCEPT ![p] = "ended"] /\ UNCHANGED holder
    /\ UNCHANGED <<lock, main, port, found, crashes>>

\* wait_until_ready asks the port that was claimed, whoever answers there.
Ready(w) ==
    /\ main[w] = "wait" /\ "godalgo" \in Owner(found[w])
    /\ main' = [main EXCEPT ![w] = "open"]
    /\ UNCHANGED <<lock, holder, server, port, found, crashes, races>>

\* The process ends, and its server with it.
ProcessEnds(p) ==
    /\ holder' = [n \in Ports |-> IF holder[n] = p THEN None ELSE holder[n]]
    /\ server' = [server EXCEPT ![p] = "ended"]
    /\ main' = IF p \in Windows THEN [main EXCEPT ![p] = "gone"] ELSE main

\* Thirty seconds without an answer: the lock is removed, whatever it names, and the
\* operator is told.  Untimely when the server comes up after all.
GiveUp(w) ==
    /\ main[w] = "wait" /\ Races(server[w] # "ended")
    /\ main' = [main EXCEPT ![w] = "failed"] /\ lock' = NoPort
    /\ UNCHANGED <<holder, server, port, found, crashes>>

\* The message has been read.
Dismiss(w) ==
    /\ main[w] = "failed" /\ ProcessEnds(w)
    /\ UNCHANGED <<lock, port, found, crashes, races>>

\* The window is closed; the one that served removes the lock.
Close(w) ==
    /\ main[w] \in {"open", "attached"} /\ ProcessEnds(w)
    /\ lock' = IF main[w] = "open" THEN NoPort ELSE lock
    /\ UNCHANGED <<port, found, crashes, races>>

Crash(p) ==
    /\ crashes < MaxCrashes /\ crashes' = crashes + 1
    /\ server[p] \notin {"off", "ended"} /\ ProcessEnds(p)
    /\ UNCHANGED <<lock, port, found, races>>

WindowSteps(w) ==
    ReadLock(w) \/ ProbeLock(w) \/ ProbeService(w) \/ Claim(w) \/ Ready(w)

ServerSteps(p) == Ask(p) \/ Bind(p)

LaunchNext ==
    \/ \E w \in Windows : WindowBegins(w) \/ WindowSteps(w) \/ GiveUp(w) \/ Dismiss(w) \/ Close(w)
    \/ \E p \in Procs : ServerSteps(p) \/ Crash(p)
    \/ \E s \in Services : ServiceBegins(s)
    \/ \E n \in Ports : OtherListens(n)

LaunchSpec == LaunchInit /\ [][LaunchNext]_launchVars

-----------------------------------------------------------------------------
Bots == {p \in Procs : server[p] = "serving"}

\* Every bot beside the first was bought by an event at the wrong time of its own:
\* whatever windows and services start, crash, fail and leave stale locks, there are
\* no more bots than one and the races so far (DesktopApp.run: "Show *that* one
\* rather than starting a second bot beside it").
BotsAreRaced == Cardinality(Bots) <= 1 + races

\* VIOLATED: there is one bot ("Two engines on one account would each size against
\* the same buying power").  One race is enough for a second.
OneBot == Cardinality(Bots) <= 1

=============================================================================
