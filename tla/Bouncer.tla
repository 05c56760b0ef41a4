------------------------------ MODULE Bouncer ------------------------------
(***************************************************************************)
(* The IRC bouncer: proxies with their clients (irc_proxy), plugins that   *)
(* are enabled per proxy (irc_proxy_plugin and the ircpp modules), tracked *)
(* channels (irc_channel) and the module that puts them together           *)
(* (irc_bouncer), all under src/src/modules.                               *)
(*                                                                         *)
(* All of it runs in callbacks of one thread; an action is the callback of *)
(* one socket or module event.  A client's chunk of lines is processed in  *)
(* one callback, line by line (chunk).  The connection to the IRC server   *)
(* is reduced to whether it is up; see Irc for the rest.                   *)
(*                                                                         *)
(* A listener of a client's "line" event is named after its plugin,        *)
(* "proxy" for that of irc_proxy itself.  Listeners of the same priority   *)
(* are called last attached first, as in Event.                            *)
(***************************************************************************)
EXTENDS Integers, Sequences, FiniteSets, SequencesExt, Selection

CONSTANTS
  Proxies, Clients, Channels,
  Pools,       \* sets of plugin modules that may be installed
  MaxLines,    \* lines that messagebuffer keeps for a target
  MaxEvents,   \* bound of what happens in channels, in all
  MaxPerform,  \* bound of the perform list
  Liberties    \* what else may happen

\* *plugin is told to unload itself; the list of plugins in the configuration
\* has an element that is not a string.
SelfUnload == "unload plugin"
BadEntry == "bad entry"

VARIABLES
  pool,        \* the plugin modules that are installed; never changes
  available,   \* irc_proxy_plugin: registered plugins
  loaded,      \* irc_bouncer is loaded
  alive,       \* the proxies
  handlers,    \* irc_proxy_plugin: proxies with a plugin handler
  enabled,     \* plugins enabled in the proxy's handler, first enabled first
  exceptions,  \* relay exceptions of a proxy, by plugin
  performs,    \* perform list of a proxy's name, in the configuration
  online,      \* the connection to the IRC server is registered
  ournick,     \* the proxy knows its nick on the IRC server
  joined,      \* channels we are in, as the IRC server knows
  tracked,     \* channels in the tracker
  client,      \* state of a client: see ClientStates
  owner,       \* proxy of an authenticated client
  up,          \* its socket is connected
  attached,    \* listeners of its "line" event, in calling order
  members,     \* queue of a proxy's clients
  events,      \* number of things that have happened in channels
  buffer,      \* messagebuffer: queue of a channel's messages
  since,       \* history: messages since the buffer was emptied
  chunk,       \* the client whose lines are being processed
  out          \* the lines that the last step wrote

plugs == <<available, handlers, enabled, exceptions>>
remote == <<online, ournick, joined, tracked>>
people == <<client, owner, up, attached, members>>
texts == <<events, buffer, since>>
modules == <<pool, loaded, alive>>
vars == <<modules, plugs, performs, remote, people, texts, chunk, out>>

\* What initPlugin of a plugin does and finiPlugin undoes: whether it listens to
\* the "line" event of clients, those there and those that authenticate later,
\* and whether it adds a relay exception for its virtual bot.
PluginPlugin == [lines |-> TRUE, bot |-> TRUE]
PerformPlugin == [lines |-> TRUE, bot |-> TRUE]
LuaPlugin == [lines |-> TRUE, bot |-> TRUE]
MessagebufferPlugin == [lines |-> TRUE, bot |-> FALSE]
MessagelogPlugin == [lines |-> TRUE, bot |-> FALSE]
AutoinvitePlugin == [lines |-> FALSE, bot |-> FALSE]
LogPlugin == [lines |-> FALSE, bot |-> FALSE]

Kind == [plugin |-> PluginPlugin, perform |-> PerformPlugin, lua |-> LuaPlugin,
         messagebuffer |-> MessagebufferPlugin, messagelog |-> MessagelogPlugin,
         autoinvite |-> AutoinvitePlugin, log |-> LogPlugin]
Plugins == DOMAIN Kind
LinePlugins == {x \in Plugins : Kind[x].lines}
BotPlugins == {x \in Plugins : Kind[x].bot}
ClientStates == {"none", "guest", "member"}
Nobody == "nobody"

\* Kinds of lines that are not relayed from an IRC server.
Words == {"welcome", "quit", "playback", "channels", "names", "notice", "reply", "own", "remote",
          "performed", "join", "log", "script"}

\* Who writes a line and what it is about can be told from each other.
ASSUME BouncerAssumption ==
  /\ IsFiniteSet(Proxies) /\ IsFiniteSet(Clients) /\ IsFiniteSet(Channels)
  /\ Pools # {} /\ MaxLines \in Nat \ {0} /\ MaxEvents \in Nat /\ MaxPerform \in Nat
  /\ Liberties \subseteq {SelfUnload, BadEntry}
  /\ \A pl \in Pools : pl \subseteq Plugins
  /\ Nobody \notin Proxies \cup Clients
  /\ \A p \in Proxies : p \notin Channels \cup Plugins \cup Words

TypeOK ==
  /\ pool \subseteq Plugins /\ available \subseteq pool /\ loaded \in BOOLEAN
  /\ alive \subseteq Proxies /\ handlers \subseteq Proxies
  /\ enabled \in [Proxies -> Seq(Plugins)] /\ exceptions \in [Proxies -> Seq(Plugins)]
  /\ performs \in [Proxies -> 0..MaxPerform]
  /\ online \in [Proxies -> BOOLEAN] /\ ournick \in [Proxies -> BOOLEAN]
  /\ joined \in [Proxies -> SUBSET Channels] /\ tracked \in [Proxies -> SUBSET Channels]
  /\ client \in [Clients -> ClientStates] /\ owner \in [Clients -> Proxies \cup {Nobody}]
  /\ up \in [Clients -> BOOLEAN] /\ attached \in [Clients -> Seq(Plugins \cup {"proxy"})]
  /\ members \in [Proxies -> Seq(Clients)] /\ events \in 0..MaxEvents
  /\ buffer \in [Proxies -> [Channels -> Seq(Nat)]]
  /\ chunk \in Clients \cup {Nobody}

Empty == [p \in Proxies |-> [ch \in Channels |-> <<>>]]

Init ==
  /\ pool \in Pools
  /\ available = {} /\ loaded = FALSE /\ alive = {} /\ handlers = {}
  /\ enabled = [p \in Proxies |-> <<>>] /\ exceptions = [p \in Proxies |-> <<>>]
  /\ performs = [p \in Proxies |-> 0]
  /\ online = [p \in Proxies |-> FALSE] /\ ournick = [p \in Proxies |-> TRUE]
  /\ joined = [p \in Proxies |-> {}] /\ tracked = [p \in Proxies |-> {}]
  /\ client = [c \in Clients |-> "none"] /\ owner = [c \in Clients |-> Nobody]
  /\ up = [c \in Clients |-> FALSE] /\ attached = [c \in Clients |-> <<>>]
  /\ members = [p \in Proxies |-> <<>>] /\ events = 0
  /\ buffer = Empty /\ since = Empty
  /\ chunk = Nobody /\ out = {}

Without(s, x) == Selected(s, {i \in DOMAIN s : s[i] # x})
To(dest, what) == [to |-> dest, what |-> what]
Quiet == out' = {}
Has(p, x) == x \in ToSet(enabled[p])
Only(s, S) == Selected(s, {i \in DOMAIN s : s[i] \in S})

-----------------------------------------------------------------------------
(* Plugins (irc_proxy_plugin.c, initPlugin and finiPlugin of the plugins). *)

\* Mutation: a plugin enabled later does not see the clients that are there.
AttachNobody(ps, x) == attached

\* The "line" listeners after initPlugin of x for the proxies ps.
AttachTo(ps, x) ==
  [c \in Clients |-> IF owner[c] \in ps /\ x \in LinePlugins
                     THEN <<x>> \o attached[c] ELSE attached[c]]

\* The "line" listeners after finiPlugin of x for the proxies ps.
DetachFrom(ps, x) ==
  [c \in Clients |-> IF owner[c] \in ps THEN Without(attached[c], x) ELSE attached[c]]

\* initPlugin and finiPlugin of messagebuffer create and free the buffer.
BuffersWithout(ps, x) ==
  [p \in Proxies |-> IF p \in ps /\ x = "messagebuffer" THEN Empty[p] ELSE buffer[p]]

\* enableIrcProxyPlugin.
Enable(p, x) ==
  /\ p \in handlers /\ x \in available /\ ~Has(p, x)
  /\ enabled' = [enabled EXCEPT ![p] = Append(@, x)]
  /\ exceptions' = [exceptions EXCEPT ![p] = IF x \in BotPlugins THEN Append(@, x) ELSE @]
  /\ attached' = AttachTo({p}, x)
  /\ UNCHANGED <<buffer, since>>

\* unloadIrcProxyPlugin for each of the proxies ps.
Disable(ps, x) ==
  /\ enabled' = [p \in Proxies |-> IF p \in ps THEN Without(enabled[p], x)
                                               ELSE enabled[p]]
  /\ exceptions' = [p \in Proxies |-> IF p \in ps THEN Without(exceptions[p], x)
                                                  ELSE exceptions[p]]
  /\ attached' = DetachFrom(ps, x)
  /\ buffer' = BuffersWithout(ps, x)
  /\ since' = IF x = "messagebuffer"
              THEN [p \in Proxies |-> IF p \in ps THEN Empty[p] ELSE since[p]] ELSE since

\* A plugin module is loaded: addIrcProxyPlugin.
AddIrcProxyPlugin(x) ==
  /\ chunk = Nobody /\ x \in pool \ available /\ available' = available \cup {x}
  /\ Quiet /\ UNCHANGED <<modules, handlers, enabled, exceptions, performs, remote, people, texts, chunk>>

\* A plugin module is unloaded: delIrcProxyPlugin.
DelIrcProxyPlugin(x) ==
  /\ chunk = Nobody /\ x \in available /\ available' = available \ {x}
  /\ Disable({p \in handlers : Has(p, x)}, x)
  /\ Quiet /\ UNCHANGED <<modules, handlers, performs, remote, client, owner, up, members,
                          events, chunk>>

-----------------------------------------------------------------------------
(* The bouncer (irc_bouncer.c).                                            *)

\* Lists of plugins in the configuration: plugins that are not registered are
\* skipped, an element that is not a string makes createIrcProxyByStore fail.
Lists ==
  {<<>>} \cup {<<x>> : x \in available} \cup {l \in available \X available : l[1] # l[2]}
    \cup IF BadEntry \in Liberties THEN {<<x, "bad">> : x \in available} ELSE {}
Bad(list) == list # <<>> /\ Last(list) = "bad"

\* createIrcProxyByStore: a proxy is created unless its handler was left behind
\* or its list is bad, and then it is freed, but for its handler.
CreatedProxies(config) == {p \in Proxies \ handlers : ~Bad(config[p])}

\* enableIrcProxyPlugins and enableIrcProxyPlugin for the elements of the lists.
EnableListed(config) ==
  /\ handlers' = Proxies
  /\ enabled' = [p \in Proxies |-> IF p \in handlers THEN enabled[p] ELSE Only(config[p], Plugins)]

\* createIrcProxy and the relay exceptions that the plugins add.
NewProxies(config) ==
  /\ alive' = CreatedProxies(config)
  /\ exceptions' = [p \in Proxies |-> IF p \in alive' THEN Only(config[p], BotPlugins) ELSE <<>>]

\* enableChannelTracking for new connections.
TrackChannels ==
  /\ joined' = [p \in Proxies |-> {}] /\ tracked' = [p \in Proxies |-> {}]

\* The module is loaded.
InitBouncer ==
  /\ chunk = Nobody /\ ~loaded /\ loaded' = TRUE
  /\ \E config \in [Proxies -> Lists] : NewProxies(config) /\ EnableListed(config)
  /\ online' = [p \in Proxies |-> FALSE] /\ ournick' = [p \in Proxies |-> TRUE]
  /\ TrackChannels
  /\ Quiet /\ UNCHANGED <<pool, available, performs, people, texts, chunk>>

\* freeIrcProxy frees the clients in the proxy's queue.
FreedWithProxy(c) == \E p \in alive : c \in ToSet(members[p])

\* The module is unloaded: the plugins of every proxy are disabled, then the
\* proxy with its clients and its connection are freed.
FiniBouncer ==
  /\ chunk = Nobody /\ loaded /\ loaded' = FALSE
  /\ alive' = {} /\ handlers' = handlers \ alive
  /\ enabled' = [p \in Proxies |-> IF p \in alive THEN <<>> ELSE enabled[p]]
  /\ exceptions' = [p \in Proxies |-> <<>>]
  /\ online' = [p \in Proxies |-> FALSE] /\ joined' = [p \in Proxies |-> {}]
  /\ client' = [c \in Clients |-> IF FreedWithProxy(c) THEN "none" ELSE client[c]]
  /\ owner' = [c \in Clients |-> IF FreedWithProxy(c) THEN Nobody ELSE owner[c]]
  /\ up' = [c \in Clients |-> IF FreedWithProxy(c) THEN FALSE ELSE up[c]]
  /\ attached' = [c \in Clients |-> IF FreedWithProxy(c) THEN <<>> ELSE attached[c]]
  /\ members' = [p \in Proxies |-> <<>>]
  /\ buffer' = Empty /\ since' = Empty
  /\ out' = {To(c, "quit") : c \in {d \in Clients : FreedWithProxy(d) /\ up[d]}}
  /\ UNCHANGED <<pool, available, performs, ournick, tracked, events, chunk>>

-----------------------------------------------------------------------------
(* Clients (irc_proxy.c).                                                  *)

\* listener_clientAccept.
Accept(c) ==
  /\ chunk = Nobody /\ client[c] = "none"
  /\ client' = [client EXCEPT ![c] = "guest"] /\ up' = [up EXCEPT ![c] = TRUE]
  /\ attached' = [attached EXCEPT ![c] = <<"proxy">>]
  /\ out' = {To(c, "welcome")}
  /\ UNCHANGED <<modules, plugs, performs, remote, owner, members, texts, chunk>>

\* The peer closes the connection, or a write fails with a broken pipe.
ClientGone(c) ==
  /\ chunk = Nobody /\ up[c] /\ up' = [up EXCEPT ![c] = FALSE]
  /\ Quiet /\ UNCHANGED <<modules, plugs, performs, remote, client, owner, attached, members,
                          texts, chunk>>

\* listener_clientDisconnect and freeIrcProxyClient, at the next poll.
ClientDisconnect(c) ==
  /\ chunk = Nobody /\ client[c] # "none" /\ ~up[c]
  /\ client' = [client EXCEPT ![c] = "none"] /\ owner' = [owner EXCEPT ![c] = Nobody]
  /\ attached' = [attached EXCEPT ![c] = <<>>]
  /\ members' = [p \in Proxies |-> Without(members[p], c)]
  /\ Quiet /\ UNCHANGED <<modules, plugs, performs, remote, up, texts, chunk>>

\* listener_clientRead: a chunk of lines has arrived.
ClientRead(c) ==
  /\ chunk = Nobody /\ up[c] /\ chunk' = c
  /\ Quiet /\ UNCHANGED <<modules, plugs, performs, remote, people, texts>>

\* checkForBufferLine: all complete lines have been processed.
ChunkDone ==
  /\ chunk # Nobody /\ chunk' = Nobody
  /\ Quiet /\ UNCHANGED <<modules, plugs, performs, remote, people, texts>>

\* messagebuffer, listener_clientReattached.
Playback(c, p) ==
  IF Has(p, "messagebuffer")
  THEN UNION {{To(c, "playback") : i \in DOMAIN buffer[p][ch]} : ch \in Channels} ELSE {}

\* irc_bouncer, listener_bouncerReattached: the JOINs of the tracked channels,
\* then the event "bouncer_reattached".
Reattached(c, p) ==
  Playback(c, p) \cup (IF tracked[p] # {} THEN {To(c, "channels")} ELSE {})
                 \cup (IF tracked[p] # {} /\ online[p] THEN {To(p, "names")} ELSE {})

\* PASS with the name of a proxy and its password.
ClientPass(p) ==
  LET c == chunk
  IN  /\ c # Nobody /\ client[c] = "guest" /\ p \in alive
      /\ client' = [client EXCEPT ![c] = "member"] /\ owner' = [owner EXCEPT ![c] = p]
      /\ members' = [members EXCEPT ![p] = <<c>> \o @]
      /\ attached' = [attached EXCEPT ![c] = Only(enabled[p], LinePlugins) \o @]
      /\ IF Has(p, "messagebuffer")
         THEN buffer' = [buffer EXCEPT ![p] = Empty[p]] /\ since' = [since EXCEPT ![p] = Empty[p]]
         ELSE UNCHANGED <<buffer, since>>
      /\ out' = {l \in Reattached(c, p) : l.to = c => up[c]}
      /\ UNCHANGED <<modules, plugs, performs, remote, up, events, chunk>>

\* Any other line of a guest, a wrong password included.
GuestLine ==
  /\ chunk # Nobody /\ client[chunk] = "guest"
  /\ out' = {To(chunk, "notice")}
  /\ UNCHANGED <<modules, plugs, performs, remote, people, texts, chunk>>

Member == chunk # Nobody /\ client[chunk] = "member"

\* QUIT: the rest of the chunk is still processed.
ClientQuit ==
  /\ Member /\ up' = [up EXCEPT ![chunk] = FALSE]
  /\ Quiet /\ UNCHANGED <<modules, plugs, performs, remote, client, owner, attached, members,
                          texts, chunk>>

Replies == IF up[chunk] THEN {To(chunk, "reply")} ELSE {}

\* PING, and USER, which is dropped.
ClientPing ==
  /\ Member /\ out' \in {{}, Replies}
  /\ UNCHANGED <<modules, plugs, performs, remote, people, texts, chunk>>

\* A message reaches the IRC server unless its target is a relay exception.
Relays(p, target, except) ==
  IF target \in ToSet(except) \/ ~online[p] THEN {} ELSE {To(p, target)}

Happens == events < MaxEvents /\ events' = events + 1

\* Mutation: the newest line is thrown away when the buffer is full.
KeepOldest(queue, m) == IF Len(queue) < MaxLines THEN Append(queue, m) ELSE queue

\* The lines kept for a target, after another one.
Keep(queue, m) ==
  LET all == Append(queue, m)
  IN  IF Len(all) > MaxLines THEN Tail(all) ELSE all

\* messagelog writes a client's message, or one of the server, to its file.
LogsOwn(p) == IF Has(p, "messagelog") THEN {To("file", "own")} ELSE {}
LogsRemote(p) == IF Has(p, "messagelog") THEN {To("file", "remote")} ELSE {}

\* messagebuffer, when a message to or from a channel passes.
Buffers(p, ch) ==
  /\ Happens
  /\ IF Has(p, "messagebuffer")
     THEN /\ buffer' = [buffer EXCEPT ![p][ch] = Keep(@, events + 1)]
          /\ since' = [since EXCEPT ![p][ch] = Append(@, events + 1)]
     ELSE UNCHANGED <<buffer, since>>

\* A client's message to a channel.
ClientMessage(ch) ==
  LET p == owner[chunk]
  IN  /\ Member /\ Buffers(p, ch)
      /\ out' = Relays(p, ch, exceptions[p]) \cup LogsOwn(p)
      /\ UNCHANGED <<modules, plugs, performs, remote, people, chunk>>

\* evaluateLua and its result or error message.
LuaReplies(p) == IF Has(p, "lua") THEN Replies ELSE {}

\* A message to one of the virtual bots, enabled or not, that is no command to
\* change anything: help, list, something else, or Lua code.
ClientAsks(bot) ==
  LET p == owner[chunk]
  IN  /\ Member
      /\ out' = Relays(p, bot, exceptions[p]) \cup
                  IF bot = "lua" THEN LuaReplies(p) ELSE IF Has(p, bot) THEN Replies ELSE {}
      /\ UNCHANGED <<modules, plugs, performs, remote, people, texts, chunk>>

\* "*plugin load x", when that succeeds.
ClientLoads(x) ==
  LET p == owner[chunk]
  IN  /\ Member /\ Has(p, "plugin") /\ Enable(p, x)
      /\ out' = Replies \cup Relays(p, "plugin", exceptions'[p])
      /\ UNCHANGED <<modules, available, handlers, performs, remote, client, owner, up, members,
                     events, chunk>>

\* The listener of x is called after that of plugin, in calls of this client's
\* event: its entry is freed while it waits (see NoFreedEntryCalled of Event).
Pending(x) ==
  LET order == attached[chunk]
  IN  \E i, j \in DOMAIN order : order[i] = "plugin" /\ order[j] = x /\ i < j

\* "*plugin unload x", when that succeeds; irc_proxy's listener comes last.
ClientUnloads(x) ==
  LET p == owner[chunk]
  IN  /\ Member /\ Has(p, "plugin") /\ Has(p, x) /\ ~Pending(x)
      /\ x = "plugin" => SelfUnload \in Liberties
      /\ Disable({p}, x)
      /\ out' = Replies \cup Relays(p, "plugin", exceptions'[p])
      /\ UNCHANGED <<modules, available, handlers, performs, remote, client, owner, up, members,
                     events, chunk>>

\* "*perform add", "delete" and "clear"; the configuration is saved.
ClientPerform ==
  LET p == owner[chunk]
  IN  /\ Member /\ Has(p, "perform")
      /\ performs' \in {[performs EXCEPT ![p] = n] :
           n \in {0, performs[p] + 1, performs[p] - 1} \cap (0..MaxPerform)}
      /\ out' = Replies \cup Relays(p, "perform", exceptions[p])
      /\ UNCHANGED <<modules, plugs, remote, people, texts, chunk>>

\* executePerformList.
Performed(p) ==
  IF Has(p, "perform") /\ performs[p] > 0 THEN {To(p, "performed")} ELSE {}

ClientExecutes ==
  LET p == owner[chunk]
  IN  /\ Member /\ Has(p, "perform")
      /\ out' = Replies \cup Relays(p, "perform", exceptions[p])
                  \cup (IF online[p] THEN Performed(p) ELSE {})
      /\ UNCHANGED <<modules, plugs, performs, remote, people, texts, chunk>>

-----------------------------------------------------------------------------
(* The IRC server.                                                         *)

Remote(p) == chunk = Nobody /\ p \in alive /\ online[p]
\* Mutation: lines of the server are relayed to everybody.
RelayAll(p) == {To(c, p) : c \in {d \in Clients : client[d] # "none" /\ up[d]}}

\* listener_remoteLine of irc_proxy: a line goes to the proxy's clients.
RelayLine(p) == {To(c, p) : c \in {d \in ToSet(members[p]) : up[d]}}

\* The connection is made and confirmed: the perform list is executed.
RemoteReconnect(p) ==
  /\ chunk = Nobody /\ p \in alive /\ ~online[p]
  /\ online' = [online EXCEPT ![p] = TRUE] /\ ournick' = [ournick EXCEPT ![p] = TRUE]
  /\ out' = RelayLine(p) \cup Performed(p)
  /\ UNCHANGED <<modules, plugs, performs, joined, tracked, people, texts, chunk>>

\* Mutation: the tracker is not told of the disconnect.
TrackedBefore(p) == tracked[p]

\* listener_ircDisconnect of irc_channel.
TrackedAfter(p) == {}

RemoteDisconnect(p) ==
  /\ Remote(p) /\ online' = [online EXCEPT ![p] = FALSE]
  /\ joined' = [joined EXCEPT ![p] = {}]
  /\ tracked' = [tracked EXCEPT ![p] = TrackedAfter(p)]
  /\ Quiet /\ UNCHANGED <<modules, plugs, performs, ournick, people, texts, chunk>>

\* JOIN and PART of ourselves: listener_ircLine of irc_channel.
RemoteJoin(p, ch) ==
  /\ Remote(p) /\ Happens /\ joined' = [joined EXCEPT ![p] = @ \cup {ch}]
  /\ tracked' = [tracked EXCEPT ![p] = IF ournick[p] THEN @ \cup {ch} ELSE @]
  /\ out' = RelayLine(p)
  /\ UNCHANGED <<modules, plugs, performs, online, ournick, people, buffer, since, chunk>>

RemotePart(p, ch) ==
  /\ Remote(p) /\ Happens /\ ch \in joined[p] /\ joined' = [joined EXCEPT ![p] = @ \ {ch}]
  /\ tracked' = [tracked EXCEPT ![p] = IF ournick[p] THEN @ \ {ch} ELSE @]
  /\ out' = RelayLine(p)
  /\ UNCHANGED <<modules, plugs, performs, online, ournick, people, buffer, since, chunk>>

\* We are kicked from a channel: nobody handles that.
RemoteKick(p, ch) ==
  /\ Remote(p) /\ Happens /\ ch \in joined[p] /\ joined' = [joined EXCEPT ![p] = @ \ {ch}]
  /\ out' = RelayLine(p)
  /\ UNCHANGED <<modules, plugs, performs, online, ournick, tracked, people, buffer, since, chunk>>

\* Our nick is changed: listener_ircLine of irc.c stores the one in the message's
\* prefix, which is that from before the change.
RemoteNick(p) ==
  /\ Remote(p) /\ Happens /\ ournick' = [ournick EXCEPT ![p] = FALSE] /\ out' = RelayLine(p)
  /\ UNCHANGED <<modules, plugs, performs, online, joined, tracked, people, buffer, since, chunk>>

\* A message to a channel, which messagebuffer and messagelog keep.
RemoteMessage(p, ch) ==
  /\ Remote(p) /\ ch \in joined[p] /\ Buffers(p, ch) /\ out' = RelayLine(p) \cup LogsRemote(p)
  /\ UNCHANGED <<modules, plugs, performs, remote, people, chunk>>

Invited(p) == IF Has(p, "autoinvite") THEN {To(p, "join")} ELSE {}

\* INVITE, answered by autoinvite; PING, not relayed; anything else.
RemoteInvite(p) ==
  /\ Remote(p)
  /\ out' = RelayLine(p) \cup Invited(p)
  /\ UNCHANGED <<modules, plugs, performs, remote, people, texts, chunk>>

\* A log message: listener_log relays it to the clients of every proxy that
\* has the plugin for its level.
LogMessage ==
  /\ chunk = Nobody
  /\ out' = {To(c, "log") : c \in UNION {{d \in ToSet(members[p]) : up[d]} :
                                          p \in {q \in alive : Has(q, "log")}}}
  /\ UNCHANGED <<modules, plugs, performs, remote, people, texts, chunk>>

\* xcall_proxyClientIrcSend: a script writes to a client.
ScriptSends(c) ==
  /\ chunk = Nobody /\ client[c] # "none" /\ up[c] /\ out' = {To(c, "script")}
  /\ UNCHANGED <<modules, plugs, performs, remote, people, texts, chunk>>

Next ==
  \/ \E x \in Plugins : \/ AddIrcProxyPlugin(x) \/ DelIrcProxyPlugin(x)
                        \/ ClientLoads(x) \/ ClientUnloads(x)
  \/ InitBouncer \/ FiniBouncer \/ ChunkDone \/ GuestLine \/ ClientQuit \/ ClientPing
  \/ ClientPerform \/ ClientExecutes \/ LogMessage
  \/ \E c \in Clients : \/ Accept(c) \/ ClientGone(c) \/ ClientDisconnect(c) \/ ClientRead(c)
                        \/ ScriptSends(c)
  \/ \E p \in Proxies : \/ ClientPass(p) \/ RemoteReconnect(p) \/ RemoteDisconnect(p)
                        \/ RemoteNick(p) \/ RemoteInvite(p)
  \/ \E p \in Proxies, ch \in Channels : \/ RemoteJoin(p, ch) \/ RemotePart(p, ch)
                                         \/ RemoteMessage(p, ch) \/ RemoteKick(p, ch)
  \/ \E ch \in Channels : ClientMessage(ch)
  \/ \E bot \in BotPlugins : ClientAsks(bot)

Spec == Init /\ [][Next]_vars

-----------------------------------------------------------------------------
(* Properties.                                                             *)

\* Whatever order plugins are registered, enabled, disabled and unloaded in
\* and clients come and go, every client of a proxy has exactly the listeners
\* of the proxy's plugins, each once and irc_proxy's own last, and the relay
\* exceptions are those of the enabled bots.
PluginsAgree ==
  /\ handlers = alive
  /\ \A p \in alive : /\ ToSet(enabled[p]) \subseteq available
                      /\ IsInjective(exceptions[p])
                      /\ ToSet(exceptions[p]) = ToSet(enabled[p]) \cap BotPlugins
  /\ \A c \in Clients : client[c] = "member" =>
       /\ IsInjective(attached[c]) /\ Last(attached[c]) = "proxy"
       /\ ToSet(attached[c]) \ {"proxy"} = ToSet(enabled[owner[c]]) \cap LinePlugins

\* A client has authenticated to a proxy that exists exactly when it is in the
\* queue of that proxy, once, so that no line is written to a client that was
\* freed and every client is freed with its proxy.
ClientsAccounted ==
  /\ \A p \in Proxies : /\ IsInjective(members[p])
                        /\ ToSet(members[p]) = {c \in Clients : owner[c] = p}
                        /\ p \notin alive => members[p] = <<>>
  /\ \A c \in Clients : (client[c] = "member") <=> (owner[c] # Nobody)

\* Whoever comes and goes, in whatever order: proxies, their plugins and their
\* clients know each other, and nobody else.
MembershipSound == PluginsAgree /\ ClientsAccounted

\* Lines of an IRC server go to the authenticated clients of its proxy and to
\* nobody else.
TrafficStays ==
  \A l \in out : l.what \in Proxies => client[l.to] = "member" /\ owner[l.to] = l.what

\* What messagebuffer plays back is the end of what was said since the last
\* playback, in order, and never more than MaxLines lines.
BufferIsRecent ==
  \A p \in Proxies, ch \in Channels :
    LET s == since[p][ch]
        n == Len(buffer[p][ch])
    IN  /\ n <= MaxLines /\ n <= Len(s)
        /\ buffer[p][ch] = SubSeq(s, Len(s) - n + 1, Len(s))
        /\ n < MaxLines => n = Len(s)

\* While it is connected and its nick was not changed, the tracker knows every
\* channel that we are in, and it forgets them all with the connection.
TrackedIsJoined ==
  \A p \in alive : /\ ournick[p] => joined[p] \subseteq tracked[p]
                   /\ ~online[p] => tracked[p] = {}

=============================================================================
