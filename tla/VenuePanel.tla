------------------------------ MODULE VenuePanel ------------------------------
(***************************************************************************)
(* The market data of the terminal: the MarketFeed task of ui/feed.py, the *)
(* part of UIBridge it fills, and the handlers of ui/server.py that store  *)
(* keys, change the venue and restart the feed.  A step is what one task   *)
(* of the event loop does between two awaits.  A row of the watchlist is   *)
(* known by the venue its price came from.                                 *)
(***************************************************************************)
EXTENDS Naturals, Sequences, FiniteSets, SequencesExt

CONSTANTS
  Venues, Keyed,   \* the venues; those that serve data only to a stored key
  Universe,        \* UIBridge.universe with the headline symbol
  Quotes,          \* venue -> symbols it can quote
  Partial,         \* venues that answer for the symbols they know and skip the rest
  Default,         \* DEFAULT_VENUE
  Switches,        \* handlers that may be in progress at once
  MaxSwitches,     \* bound: requests asked
  MaxOutages       \* bound: changes of a venue's reachability

ASSUME VenueAssumption ==
  /\ Default \in Venues /\ Keyed \subseteq Venues /\ Partial \subseteq Venues
  /\ Quotes \in [Venues -> SUBSET Universe]
  /\ MaxSwitches \in Nat /\ MaxOutages \in Nat

VARIABLES
  chosen,     \* UIBridge.exchange_id
  keys,       \* the credential store: [venue, trade] in order of insertion
  feeds,      \* feed tasks: number -> [venue, at]
  feedTask,   \* UIBridge._feed_task
  started,    \* feed tasks created
  watchlist,  \* symbol -> [venue, stale], for the symbols with a row
  connected,  \* UIBridge.connected
  up,         \* venues that answer
  change,     \* where each handler waits
  asked, outages,
  raced       \* history: a handler began while another was in progress

bridgeVars == <<chosen, watchlist, connected>>
feedVars == <<feeds, feedTask, started>>
venueVars == <<bridgeVars, feedVars, keys, up, change, asked, outages, raced>>

PanelIdle == [at |-> "idle"]
PanelQuiet == \A r \in Switches : change[r] = PanelIdle
HasKey(ks, v) == \E i \in DOMAIN ks : ks[i].venue = v

\* _feed_exchange: the key that may trade, else the first key, else the choice.
FeedExchange(ks, choice) ==
  LET trading == SelectSeq(ks, LAMBDA k : k.trade)
  IN  IF trading # <<>> THEN trading[1].venue
      ELSE IF ks # <<>> THEN ks[1].venue ELSE choice

VenueInit ==
  /\ chosen = Default /\ keys = <<>>
  /\ feeds = [f \in {1} |-> [venue |-> Default, at |-> "sleep"]]
  /\ feedTask = 1 /\ started = 1
  /\ watchlist = [s \in {} |-> {}]
  /\ connected = FALSE /\ up = Venues
  /\ change = [r \in Switches |-> PanelIdle]
  /\ asked = 0 /\ outages = 0 /\ raced = FALSE

--------------------------------------------------------------------------------
(* The feed. *)

\* Mutant of Folded: a row the venue has not returned stays as it was.
FoldedAsIs(rows, venue) ==
  [s \in DOMAIN watchlist \cup rows |->
     IF s \in rows THEN [venue |-> venue, stale |-> FALSE] ELSE watchlist[s]]

\* update_watchlist: what came back is fresh, what did not is marked stale.
Folded(rows, venue) ==
  [s \in DOMAIN watchlist \cup rows |->
     IF s \in rows THEN [venue |-> venue, stale |-> FALSE]
     ELSE [watchlist[s] EXCEPT !.stale = TRUE]]

\* A venue that does not skip refuses the whole list for one symbol it does not know.
Served(venue) == IF venue \in Partial THEN Quotes[venue]
                 ELSE IF Universe \subseteq Quotes[venue] THEN Universe ELSE {}
Answers(venue) == venue \in up /\ (venue \in Partial \/ Universe \subseteq Quotes[venue])

OnSuccess(venue) ==
  /\ watchlist' = Folded(Served(venue), venue)
  /\ connected' = TRUE

OnFailure == connected' = FALSE /\ UNCHANGED watchlist

\* What _tick does with the answer; an empty one is passed over.
Returned(venue) ==
  IF ~Answers(venue) THEN OnFailure
  ELSE IF Served(venue) = {} THEN UNCHANGED <<watchlist, connected>>
  ELSE OnSuccess(venue)

\* _tick up to its await: without the key it needs it fails at once.
FeedFetches(f) ==
  /\ feeds[f].at = "sleep"
  /\ IF feeds[f].venue \in Keyed /\ ~HasKey(keys, feeds[f].venue)
     THEN OnFailure /\ UNCHANGED feeds
     ELSE /\ feeds' = [feeds EXCEPT ![f].at = "fetch"]
          /\ UNCHANGED <<watchlist, connected>>
  /\ UNCHANGED <<chosen, keys, feedTask, started, up, change, asked, outages, raced>>

\* Mutant of FeedReturns: the first failure ends the feed.
FeedReturnsOnce(f) ==
  /\ feeds[f].at = "fetch"
  /\ Returned(feeds[f].venue)
  /\ feeds' = [feeds EXCEPT ![f].at = IF Answers(feeds[f].venue) THEN "sleep" ELSE "over"]
  /\ UNCHANGED <<chosen, keys, feedTask, started, up, change, asked, outages, raced>>

\* The answer of the venue, or its failure; the feed sleeps and tries again.
FeedReturns(f) ==
  /\ feeds[f].at = "fetch"
  /\ Returned(feeds[f].venue)
  /\ feeds' = [feeds EXCEPT ![f].at = "sleep"]
  /\ UNCHANGED <<chosen, keys, feedTask, started, up, change, asked, outages, raced>>

\* A cancelled feed closes its client and ends.
FeedEnds(f) ==
  /\ feeds[f].at = "cancelled"
  /\ feeds' = [g \in DOMAIN feeds \ {f} |-> feeds[g]]
  /\ UNCHANGED <<bridgeVars, keys, feedTask, started, up, change, asked, outages, raced>>

--------------------------------------------------------------------------------
(* The handlers. *)

\* watchlist_refresh polls with a feed of its own, for the venue of this moment.
Polls(r) == change' = [change EXCEPT ![r] =
                          [at |-> "poll", venue |-> FeedExchange(keys, chosen')]]
SwitchEnds(r) == change' = [change EXCEPT ![r] = PanelIdle]
Then(r, poll) == IF poll THEN Polls(r) ELSE SwitchEnds(r)

\* _restart_feed up to its await: the task is cancelled, but stays registered.
Rebinds(r, poll) ==
  /\ feeds' = IF feedTask \in DOMAIN feeds
              THEN [feeds EXCEPT ![feedTask].at = "cancelled"] ELSE feeds
  /\ change' = [change EXCEPT ![r] = [at |-> "join", feed |-> feedTask, poll |-> poll]]
  /\ UNCHANGED <<feedTask, started>>

\* The rows go with the venue they came from; the prices do not.
Chooses(venue) ==
  /\ chosen' = venue
  /\ watchlist' = [s \in {} |-> {}]
  /\ UNCHANGED connected

\* A handler that follows a venue: nothing to do when it is the one in force.
Follows(r, venue, poll) ==
  IF venue = chosen
  THEN UNCHANGED <<bridgeVars, feedVars>> /\ Then(r, poll)
  ELSE Chooses(venue) /\ Rebinds(r, poll)

Arrives(r) ==
  /\ change[r] = PanelIdle /\ asked < MaxSwitches
  /\ asked' = asked + 1
  /\ raced' = (raced \/ ~PanelQuiet)

\* POST /api/connections: the key is stored under its venue, in place if it has one.
AddConnection(r, venue, trade) ==
  /\ Arrives(r)
  /\ LET key == [venue |-> venue, trade |-> trade]
     IN  keys' = IF HasKey(keys, venue)
                 THEN [i \in DOMAIN keys |-> IF keys[i].venue = venue THEN key ELSE keys[i]]
                 ELSE Append(keys, key)
  /\ change' = [change EXCEPT ![r] = [at |-> "probe", venue |-> venue]]
  /\ UNCHANGED <<bridgeVars, feedVars, up, outages>>

\* The probe of the new key is over: follow the venue it names.
Probed(r) ==
  /\ change[r].at = "probe"
  /\ Follows(r, change[r].venue, FALSE)
  /\ UNCHANGED <<keys, up, asked, outages, raced>>

\* DELETE /api/connections/{key}: neither the feed nor the choice is revisited.
RemoveConnection(venue) ==
  /\ HasKey(keys, venue)
  /\ asked < MaxSwitches /\ asked' = asked + 1
  /\ keys' = SelectSeq(keys, LAMBDA k : k.venue # venue)
  /\ UNCHANGED <<bridgeVars, feedVars, up, change, outages, raced>>

\* POST /api/watchlist/refresh with a venue, which may be the one in force.
Refresh(r, venue) ==
  /\ Arrives(r)
  /\ Follows(r, venue, TRUE)
  /\ UNCHANGED <<keys, up, outages>>

\* _restart_feed after its await: a new feed for the venue of this moment.
Joined(r) ==
  /\ change[r].at = "join" /\ change[r].feed \notin DOMAIN feeds
  /\ started' = started + 1
  /\ feedTask' = started + 1
  /\ feeds' = [f \in DOMAIN feeds \cup {started + 1} |->
                 IF f = started + 1
                 THEN [venue |-> FeedExchange(keys, chosen), at |-> "sleep"] ELSE feeds[f]]
  /\ UNCHANGED bridgeVars
  /\ Then(r, change[r].poll)
  /\ UNCHANGED <<keys, up, asked, outages, raced>>

\* The single poll of watchlist_refresh is answered.
Polled(r) ==
  /\ change[r].at = "poll"
  /\ IF change[r].venue \in Keyed /\ ~HasKey(keys, change[r].venue)
     THEN OnFailure ELSE Returned(change[r].venue)
  /\ SwitchEnds(r)
  /\ UNCHANGED <<chosen, feedVars, keys, up, asked, outages, raced>>

\* A venue goes away, or comes back.
Outage(venue) ==
  /\ outages < MaxOutages
  /\ outages' = outages + 1
  /\ up' = IF venue \in up THEN up \ {venue} ELSE up \cup {venue}
  /\ UNCHANGED <<bridgeVars, feedVars, keys, change, asked, raced>>

FeedStep(f) == FeedFetches(f) \/ FeedReturns(f) \/ FeedEnds(f)
PanelStep(r) == Probed(r) \/ Joined(r) \/ Polled(r)

VenueNext ==
  \/ \E f \in DOMAIN feeds : FeedStep(f)
  \/ \E r \in Switches : PanelStep(r)
  \/ \E r \in Switches, v \in Venues, trade \in BOOLEAN : AddConnection(r, v, trade)
  \/ \E r \in Switches, v \in Venues : Refresh(r, v)
  \/ \E v \in Venues : RemoveConnection(v) \/ Outage(v)

\* The event loop resumes what can go on; every change to a venue is answered or
\* times out.
VenueFairness ==
  /\ \A f \in 1..(MaxSwitches + 1) : WF_venueVars(f \in DOMAIN feeds /\ FeedStep(f))
  /\ \A r \in Switches : WF_venueVars(PanelStep(r))

VenueSpec == VenueInit /\ [][VenueNext]_venueVars /\ VenueFairness

--------------------------------------------------------------------------------

\* Fresh rows that stand beside each other came from one venue, whatever overlaps.
OneVenueOnScreen ==
  \A s, t \in DOMAIN watchlist :
    ~watchlist[s].stale /\ ~watchlist[t].stale => watchlist[s].venue = watchlist[t].venue

\* A venue that has come back for good is seen to be back, if it can quote what the
\* feed asks for.
FeedRecovers ==
  <>[](/\ ~raced /\ PanelQuiet /\ Answers(feeds[feedTask].venue) /\ Quotes[feeds[feedTask].venue] # {}
       /\ feeds[feedTask].venue \in Keyed => HasKey(keys, feeds[feedTask].venue))
    => <>[]connected

\* VIOLATED: A venue that is up, and has the key it needs, is quoted once it is followed:
\* "switching venue has to switch this too".
VenueIsQuoted ==
  <>[](/\ ~raced /\ PanelQuiet /\ feeds[feedTask].venue \in up
       /\ feeds[feedTask].venue \in Keyed => HasKey(keys, feeds[feedTask].venue))
    => <>[]connected

================================================================================
