-------------------------------- MODULE Feed --------------------------------
(***************************************************************************)
(* The feed module (src/src/modules/feed/feed.c): feeds that a timer       *)
(* fetches and records, and that an HTTP server of their own shows.        *)
(*                                                                         *)
(* What a fetch finds is a value for some of the feed's fields, or         *)
(* nothing: curl, the XML document and the XPath expressions are outside.  *)
(***************************************************************************)
EXTENDS HttpServer

CONSTANTS
  FeedNames, Fields, Values,
  FeedLimit,   \* FEED_LIMIT
  MaxMappings  \* bound: handlers on the feed server

ASSUME FeedAssumption == FeedLimit \in Nat

VARIABLES feeds   \* name -> the feed's fields, its content and whether it is enabled

NewFeed == [fields |-> {}, content |-> <<>>, enabled |-> FALSE]
FeedUri(name) == <<"/feeds/", name>>
Entries(fields) == UNION {[found -> Values] : found \in SUBSET fields}

\* The server of the feeds: an index, and a page for every feed.
FeedServer(order) ==
  LET pages == [i \in DOMAIN order |-> Mapping(FeedUri(order[i]), "feedHandler", order[i])]
  IN StartHttpServer([NewServer EXCEPT !.mappings =
                        <<Mapping(<<"[^/]*">>, "indexHandler", "none")>> \o pages])

\* MODULE_INIT creates the feeds of the configuration, adds their fields and
\* enables them.
LoadFeed ==
  /\ "feed" \notin loaded /\ server["feed"].state = "freed"
  /\ \E configured \in SUBSET FeedNames, fields \in SUBSET Fields :
       /\ feeds' = [n \in configured |-> [NewFeed EXCEPT !.fields = fields, !.enabled = TRUE]]
       /\ server' = [server EXCEPT !["feed"] = FeedServer(SetToSeq(configured))]
  /\ loaded' = loaded \cup {"feed"}
  /\ UNCHANGED <<connVars, modules>>

CreateFeed(name) ==
  /\ "feed" \in loaded /\ name \notin DOMAIN feeds
  /\ Len(server["feed"].mappings) < MaxMappings
  /\ feeds' = [n \in DOMAIN feeds \cup {name} |-> IF n = name THEN NewFeed ELSE feeds[n]]
  /\ server' = [server EXCEPT !["feed"] =
                  RegisterHandler(@, Mapping(FeedUri(name), "feedHandler", name))]
  /\ UNCHANGED <<connVars, modules, loaded>>

AddFeedField(name, field) ==
  /\ name \in DOMAIN feeds /\ ~ feeds[name].enabled /\ field \notin feeds[name].fields
  /\ feeds' = [feeds EXCEPT ![name].fields = @ \cup {field}]
  /\ UNCHANGED httpVars

DeleteFeedField(name, field) ==
  /\ name \in DOMAIN feeds /\ ~ feeds[name].enabled /\ field \in feeds[name].fields
  /\ feeds' = [feeds EXCEPT ![name].fields = @ \ {field}]
  /\ UNCHANGED httpVars

EnableFeed(name) ==
  /\ name \in DOMAIN feeds /\ ~ feeds[name].enabled
  /\ feeds' = [feeds EXCEPT ![name].enabled = TRUE]
  /\ UNCHANGED httpVars

\* deleteFeed and freeFeed.
DeleteFeed(name) ==
  /\ name \in DOMAIN feeds
  /\ feeds' = [n \in DOMAIN feeds \ {name} |-> feeds[n]]
  /\ server' = [server EXCEPT !["feed"] = UnregisterHandler(@, FeedUri(name), "feedHandler", name)]
  /\ UNCHANGED <<connVars, modules, loaded>>

\* compareFeedContentEntries goes through the fields of the first entry only.
SameEntry(first, second) ==
  \A f \in DOMAIN first : f \in DOMAIN second /\ second[f] = first[f]

\* mutant: an entry is always recorded
AlwaysRecorded(content, entry) ==
  SubSeq(<<entry>> \o content, 1, Min({FeedLimit, Len(content) + 1}))

\* One feed in feed_update: the newest entry is the first one.
Recorded(content, entry) ==
  IF content # <<>> /\ SameEntry(content[1], entry) THEN content
  ELSE SubSeq(<<entry>> \o content, 1, Min({FeedLimit, Len(content) + 1}))

\* feed_update; a feed that cannot be fetched or parsed is passed over.
FeedUpdate ==
  /\ "feed" \in loaded
  /\ \E fetched \in SUBSET {n \in DOMAIN feeds : feeds[n].enabled} :
       \E entry \in [fetched -> Entries(Fields)] :
         /\ \A n \in fetched : DOMAIN entry[n] \subseteq feeds[n].fields
         /\ feeds' = [n \in DOMAIN feeds |->
                        IF n \in fetched
                        THEN [feeds[n] EXCEPT !.content = Recorded(@, entry[n])] ELSE feeds[n]]
  /\ UNCHANGED httpVars

\* MODULE_FINALIZE frees the feeds; nobody destroys the server.
UnloadFeed ==
  /\ "feed" \in loaded /\ (Quiet("feed") \/ UnloadBusy)
  /\ feeds' = [n \in {} |-> NewFeed] /\ loaded' = loaded \ {"feed"}
  /\ UNCHANGED <<server, connVars, modules>>

FeedNext ==
  \/ LoadFeed \/ FeedUpdate \/ UnloadFeed
  \/ \E n \in FeedNames :
       \/ CreateFeed(n) \/ EnableFeed(n) \/ DeleteFeed(n)
       \/ \E f \in Fields : AddFeedField(n, f) \/ DeleteFeedField(n, f)

\* The history of a feed is bounded and an entry says something else than the
\* one before it (feed_update, compareFeedContentEntries).
FeedHistory ==
  \A n \in DOMAIN feeds :
    /\ Len(feeds[n].content) <= FeedLimit
    /\ \A i \in 1..(Len(feeds[n].content) - 1) : feeds[n].content[i] # feeds[n].content[i + 1]

=============================================================================
