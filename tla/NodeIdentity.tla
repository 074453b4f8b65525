---------------------------- MODULE NodeIdentity ----------------------------
(***************************************************************************)
(* The identity of a Node: the key and its metadata on disk                *)
(* (src/src/identity.rs), the commands that create, enroll and rotate it   *)
(* (src/src/main.rs, src/src/control.rs), the Control Plane that records   *)
(* it (src/control-plane/src/enrollment.ts), and the daemon that loads it  *)
(* once and authenticates every session with what it loaded                *)
(* (src/src/daemon.rs, src/src/control.rs and node-channel.ts).            *)
(*                                                                         *)
(* One command runs at a time on the host.  What interleaves with it is    *)
(* the daemon starting and stopping, the handshake of its session, the     *)
(* Control Plane answering or the answer being lost, and a death of the    *)
(* command between two writes or in the middle of one: the files are       *)
(* truncated before they are written.  A key is a number, and so is the    *)
(* fingerprint that identifies it.                                         *)
(***************************************************************************)
EXTENDS Naturals, Sequences, FiniteSets

CONSTANTS
  MaxKeys,    \* bound: how many keys are drawn on this host
  MaxTokens,  \* bound: how many tokens are issued
  MaxCrashes, \* bound: how often a command dies
  MaxLost,    \* bound: how many answers and connections are lost
  MaxBoots,   \* bound: how often the daemon is started
  MaxRevokes, \* bound: how many Nodes are revoked
  Hazards     \* which of AllHazards the environment may show

\* crash     a command dies between two steps, or in the middle of a write
\* lost      a request, an answer or a connection is lost, and both ends notice
\* silent    the peer of a handshake vanishes, and the Node hears nothing of it
\* foreign   a person gives a rotation token that was issued for another Node
\* edited    a person edits config.toml to an address the channel refuses
AllHazards == {"crash", "lost", "silent", "foreign", "edited"}

ASSUME BoundsAssumption ==
  {MaxKeys, MaxTokens, MaxCrashes, MaxLost, MaxBoots, MaxRevokes} \subseteq Nat
ASSUME HazardsAssumption == Hazards \subseteq AllHazards

None == 0
Keys == 1 .. MaxKeys
OtherKey == MaxKeys + 1        \* the key of the Node that was there before
Torn == MaxKeys + 2            \* a file that was truncated and not written
NodeIds == 1 .. MaxTokens + 1
NoMeta == [fp |-> None, node |-> None]     \* what an absent metadata file reads as
TornMeta == [fp |-> Torn, node |-> None]

VARIABLES
  key,      \* node/identity.key: absent, a key, or torn
  meta,     \* node/identity.json
  cfg,      \* control_plane_url in node/config.toml: unset, set, refused by the
            \* channel for its scheme and host, or a file that cannot be read
  socket,   \* there is a file at the path of the control socket
  cli,      \* the command that is running, and what it has in memory
  drawn,    \* how many keys were drawn from OS randomness
  nodes,    \* rows of `nodes`, in the order of their ids
  tokens,   \* rows of `enrollment_tokens`
  request,  \* the request the Control Plane is working on, and its answer
  daemon,   \* the daemon: how far it has come, what it loaded, its channel
  hello,    \* the handshake the Control Plane has open for this Node's socket
  sess,     \* the live session the Control Plane has for each Node
  revoking, \* the Node whose revocation has still to close its session
  crashes, lost, boots, revokes,
  accepted, \* history: the pairs of Node and key the Control Plane recorded
  minted    \* history: how many identities `create` wrote

diskVars == <<key, meta, cfg, socket>>
cpVars == <<nodes, tokens, request, hello, sess, revoking, accepted>>
countVars == <<crashes, lost, boots, revokes>>
vars == <<diskVars, cli, drawn, cpVars, daemon, countVars, minted>>

Idle == [op |-> "none", pc |-> "idle", k |-> None, node |-> None, answer |-> None]
Down == [st |-> "down", url |-> "unset", k |-> None, node |-> None, ch |-> "none"]
NoHello == [st |-> "none", k |-> None, node |-> None, raced |-> FALSE]
NoRequest == [st |-> "none", k |-> None, token |-> None, answer |-> None]
NoSession == [k |-> None, raced |-> FALSE]

\* Every variable has the type its file, row or process gives it.
TypeOK ==
  /\ key \in Keys \union {None, Torn}
  /\ meta \in [fp : Keys \union {None, Torn}, node : NodeIds \union {None}]
  /\ cfg \in {"unset", "set", "refused", "torn"}
  /\ socket \in BOOLEAN
  /\ cli \in [op : {"none", "identity", "enroll", "rotate"},
              pc : {"idle", "create", "created", "loaded", "rotatable", "proposed", "posted", "answered",
                    "compare", "commit", "committed", "save"},
              k : Keys \union {None}, node : NodeIds \union {None}, answer : NodeIds \union {None}]
  /\ drawn \in 0 .. MaxKeys
  /\ nodes \in Seq([fp : Keys \union {OtherKey}, revoked : BOOLEAN])
  /\ tokens \in Seq([bound : NodeIds \union {None}, used : BOOLEAN])
  /\ request \in [st : {"none", "sent", "rotated", "answered"}, k : Keys \union {None},
                  token : 0 .. MaxTokens, answer : NodeIds \union {None}]
  /\ daemon \in [st : {"down", "starting", "listening", "running"}, url : {"unset", "set", "refused"},
                 k : Keys \union {None}, node : NodeIds \union {None},
                 ch : {"none", "disabled", "failed", "unenrolled", "backing_off", "connecting",
                       "authenticating", "signed", "stuck", "connected"}]
  /\ hello \in [st : {"none", "challenged", "verified"}, k : Keys \union {None},
                node : NodeIds \union {None}, raced : BOOLEAN]
  /\ sess \in [NodeIds -> [k : Keys \union {None}, raced : BOOLEAN]]
  /\ revoking \in NodeIds \union {None}
  /\ countVars \in Nat \X Nat \X Nat \X Nat
  /\ accepted \subseteq NodeIds \X (Keys \union {OtherKey})
  /\ minted \in Nat

\* A new host, and a Control Plane that knows one other Node.
Init ==
  /\ key = None /\ meta = NoMeta /\ cfg = "unset" /\ socket = FALSE
  /\ cli = Idle /\ drawn = 0
  /\ nodes = << [fp |-> OtherKey, revoked |-> FALSE] >>
  /\ tokens = << >> /\ request = NoRequest
  /\ daemon = Down /\ hello = NoHello
  /\ sess = [n \in NodeIds |-> NoSession] /\ revoking = None
  /\ crashes = 0 /\ lost = 0 /\ boots = 0 /\ revokes = 0
  /\ accepted = {<<1, OtherKey>>}
  /\ minted = 0

-----------------------------------------------------------------------------
(* The identity on disk.                                                   *)

is_missing == key = None
read_metadata_ok == meta # TornMeta

\* NodeConfig::load succeeds; a file that is not there reads as the default.
config_load_ok == cfg # "torn"

\* A fingerprint that disagrees with the key is refused; an absent one is not.
fingerprint_agrees == meta.fp \in {None, key}

\* NodeIdentity::load succeeds.
load_ok == key \in Keys /\ read_metadata_ok /\ fingerprint_agrees

is_enrolled(n) == n # None

\* Mutant: anything that cannot be loaded is replaced by a new identity.
create_on_any_error == ~load_ok

\* The errors after which load_or_create creates an identity.
creates_on == is_missing

write_key(k) == key' = k
save_metadata(k, n) == meta' = [fp |-> k, node |-> n]

At(ops, pc) == cli.op \in ops /\ cli.pc = pc
Go(pc) == cli' = [cli EXCEPT !.pc = pc]
Exit == cli' = Idle

-----------------------------------------------------------------------------
(* The commands.  An action is one effect on a file or on the network.     *)

\* `node identity` and `node enroll` resolve the home and load or create the
\* identity; enroll reads the configuration before, and stops when this Node
\* is enrolled already.
load_or_create(op) ==
  /\ cli = Idle
  /\ op = "enroll" => config_load_ok
  /\ \/ /\ load_ok
        /\ op = "enroll" /\ ~is_enrolled(meta.node)
        /\ cli' = [Idle EXCEPT !.op = op, !.pc = "loaded", !.k = key, !.node = meta.node]
     \/ /\ creates_on
        /\ cli' = [Idle EXCEPT !.op = op, !.pc = "create"]
  /\ UNCHANGED <<diskVars, drawn, cpVars, daemon, countVars, minted>>

\* NodeIdentity::create draws a key and writes it.
create ==
  /\ At({"identity", "enroll"}, "create")
  /\ drawn < MaxKeys
  /\ drawn' = drawn + 1
  /\ write_key(drawn + 1)
  /\ minted' = minted + 1
  /\ cli' = [cli EXCEPT !.pc = "created", !.k = drawn + 1]
  /\ UNCHANGED <<meta, cfg, socket, cpVars, daemon, countVars>>

\* It then writes the metadata; `node identity` is done with that.
create_metadata ==
  /\ At({"identity", "enroll"}, "created")
  /\ save_metadata(cli.k, None)
  /\ IF cli.op = "identity" THEN Exit ELSE Go("loaded")
  /\ UNCHANGED <<key, cfg, socket, drawn, cpVars, daemon, countVars, minted>>

\* `node rotate-identity` loads what is there and needs an enrolled Node.
rotate_load ==
  /\ cli = Idle
  /\ config_load_ok /\ load_ok /\ is_enrolled(meta.node)
  /\ cli' = [Idle EXCEPT !.op = "rotate", !.pc = "rotatable", !.k = key, !.node = meta.node]
  /\ UNCHANGED <<diskVars, drawn, cpVars, daemon, countVars, minted>>

\* The local socket answers a health request.
daemon_reachable == socket /\ daemon.st \in {"listening", "running"}

\* Mutant: the proposed key is written at once.
propose_and_write ==
  /\ At({"rotate"}, "rotatable")
  /\ ~daemon_reachable /\ drawn < MaxKeys
  /\ drawn' = drawn + 1
  /\ write_key(drawn + 1)
  /\ cli' = [cli EXCEPT !.pc = "proposed", !.k = drawn + 1]
  /\ UNCHANGED <<meta, cfg, socket, cpVars, daemon, countVars, minted>>

\* It refuses beside a daemon it can reach; otherwise a new key is proposed in
\* memory, with the rest of the metadata as it was.
propose_rotation ==
  /\ At({"rotate"}, "rotatable")
  /\ IF daemon_reachable
     THEN Exit /\ UNCHANGED drawn
     ELSE /\ drawn < MaxKeys
          /\ drawn' = drawn + 1
          /\ cli' = [cli EXCEPT !.pc = "proposed", !.k = drawn + 1]
  /\ UNCHANGED <<diskVars, cpVars, daemon, countVars, minted>>

\* The token a person types.  Without the hazard, it is one for this Node.
read_enrollment_token(t) ==
  /\ t \in DOMAIN tokens
  /\ tokens[t].bound \notin {None, cli.node} => "foreign" \in Hazards
  /\ cli.op = "rotate" => tokens[t].bound # None

\* The address a person gives: TLS, or plain text to this host or to another.
Urls == {"tls", "loopback", "remote"}

\* Plain text is for this host only, and only where it was allowed.
validate_control_plane_url(url, allow) == url = "tls" \/ (url = "loopback" /\ allow)

\* submit_identity posts the key with the token.
submit_identity(t) ==
  /\ \/ At({"enroll"}, "loaded")
     \/ At({"rotate"}, "proposed")
  /\ \E url \in Urls, allow \in BOOLEAN : validate_control_plane_url(url, allow)
  /\ read_enrollment_token(t)
  /\ request.st = "none"
  /\ request' = [NoRequest EXCEPT !.st = "sent", !.k = cli.k, !.token = t]
  /\ Go("posted")
  /\ UNCHANGED <<diskVars, revoking, drawn, nodes, tokens, hello, sess, accepted, daemon, countVars, minted>>

\* The answer: a refusal ends the command, a node id goes on.
submitted ==
  /\ At({"enroll", "rotate"}, "posted") /\ request.st = "answered"
  /\ request' = NoRequest
  /\ IF request.answer = None THEN Exit
     ELSE cli' = [cli EXCEPT !.pc = "answered", !.answer = request.answer]
  /\ UNCHANGED <<diskVars, revoking, drawn, nodes, tokens, hello, sess, accepted, daemon, countVars, minted>>

\* Before it returns, submit_identity records the enrollment of the identity it
\* was given: for a rotation, the proposed one.
record_enrollment ==
  /\ At({"enroll", "rotate"}, "answered")
  /\ save_metadata(cli.k, cli.answer)
  /\ Go(IF cli.op = "enroll" THEN "save" ELSE "compare")
  /\ UNCHANGED <<key, cfg, socket, drawn, cpVars, daemon, countVars, minted>>

\* A rotation goes no further under another node id.
compare_node_id ==
  /\ At({"rotate"}, "compare")
  /\ IF cli.answer = cli.node THEN Go("commit") ELSE Exit
  /\ UNCHANGED <<diskVars, drawn, cpVars, daemon, countVars, minted>>

\* commit_rotation writes the key, then the metadata.
commit_rotation ==
  /\ At({"rotate"}, "commit")
  /\ write_key(cli.k)
  /\ Go("committed")
  /\ UNCHANGED <<meta, cfg, socket, drawn, cpVars, daemon, countVars, minted>>

commit_metadata ==
  /\ At({"rotate"}, "committed")
  /\ save_metadata(cli.k, cli.node)
  /\ Go("save")
  /\ UNCHANGED <<key, cfg, socket, drawn, cpVars, daemon, countVars, minted>>

\* The configuration is saved with the Control Plane's address.
save_config ==
  /\ At({"enroll", "rotate"}, "save")
  /\ cfg' = "set"
  /\ Exit
  /\ UNCHANGED <<key, meta, socket, drawn, cpVars, daemon, countVars, minted>>

\* The request is not answered in 30 seconds, or the connection breaks; the
\* Control Plane may work on it all the same.
submit_fails ==
  /\ "lost" \in Hazards /\ lost < MaxLost
  /\ At({"enroll", "rotate"}, "posted")
  /\ lost' = lost + 1
  /\ request' = IF request.st = "rotated" THEN request ELSE NoRequest
  /\ Exit
  /\ UNCHANGED <<diskVars, revoking, drawn, nodes, tokens, hello, sess, accepted, daemon, crashes, boots, revokes,
                 minted>>

\* The command dies: between two steps, or with the file it was about to write
\* truncated.  An empty configuration reads as the default one.
Crash ==
  /\ "crash" \in Hazards /\ crashes < MaxCrashes
  /\ cli # Idle
  /\ crashes' = crashes + 1
  /\ \/ UNCHANGED diskVars
     \/ cli.pc \in {"create", "commit"} /\ key' = Torn /\ UNCHANGED <<meta, cfg, socket>>
     \/ cli.pc \in {"created", "answered", "committed"} /\ meta' = TornMeta /\ UNCHANGED <<key, cfg, socket>>
     \/ cli.pc = "save" /\ cfg' \in {"unset", "torn"} /\ UNCHANGED <<key, meta, socket>>
  /\ Exit
  /\ request' = IF request.st = "answered" THEN NoRequest ELSE request
  /\ UNCHANGED <<drawn, revoking, nodes, tokens, hello, sess, accepted, daemon, lost, boots, revokes, minted>>

-----------------------------------------------------------------------------
(* The Control Plane.                                                      *)

\* A person asks for a code for a new Node, or for a rotation of one that is
\* not revoked.
IssueToken(n) ==
  /\ Len(tokens) < MaxTokens
  /\ n # None => n \in DOMAIN nodes /\ ~nodes[n].revoked
  /\ tokens' = Append(tokens, [bound |-> n, used |-> FALSE])
  /\ UNCHANGED <<diskVars, revoking, cli, drawn, nodes, request, hello, sess, accepted, daemon, countVars, minted>>

active_with(k) == {n \in DOMAIN nodes : nodes[n].fp = k /\ ~nodes[n].revoked}

\* Mutant: an enrollment does not look for the key among the active Nodes.
may_enroll_anything(k) == TRUE

may_enroll(k) == active_with(k) = {}

\* The answer to the request: nobody hears it where the command has died.
reply(n) ==
  request' = IF cli.pc = "posted" THEN [request EXCEPT !.st = "answered", !.answer = n] ELSE NoRequest

\* A request the transaction refuses.
CpRefuse ==
  LET t == tokens[request.token] IN
  /\ request.st = "sent"
  /\ \/ t.used
     \/ t.bound = None /\ ~may_enroll(request.k)
     \/ t.bound # None /\ (nodes[t.bound].revoked \/ active_with(request.k) # {})
  /\ reply(None)
  /\ UNCHANGED <<diskVars, revoking, cli, drawn, nodes, tokens, hello, sess, accepted, daemon, countVars, minted>>

\* One transaction claims the token, creates the Node and consumes the token.
CpEnroll ==
  LET id == Len(nodes) + 1 IN
  /\ request.st = "sent"
  /\ ~tokens[request.token].used /\ tokens[request.token].bound = None
  /\ may_enroll(request.k)
  /\ nodes' = Append(nodes, [fp |-> request.k, revoked |-> FALSE])
  /\ tokens' = [tokens EXCEPT ![request.token].used = TRUE]
  /\ accepted' = accepted \union {<<id, request.k>>}
  /\ reply(id)
  /\ UNCHANGED <<diskVars, revoking, cli, drawn, hello, sess, daemon, countVars, minted>>

\* A handshake that has passed the check of the key goes on when the key changes.
overtaken(n) == [hello EXCEPT !.raced = @ \/ (hello.st = "verified" /\ hello.node = n)]

\* With a rotation token, the transaction replaces the key of the bound Node.
rotateIdentity ==
  LET n == tokens[request.token].bound IN
  /\ request.st = "sent"
  /\ ~tokens[request.token].used /\ n # None
  /\ ~nodes[n].revoked /\ active_with(request.k) = {}
  /\ nodes' = [nodes EXCEPT ![n].fp = request.k]
  /\ tokens' = [tokens EXCEPT ![request.token].used = TRUE]
  /\ accepted' = accepted \union {<<n, request.k>>}
  /\ hello' = overtaken(n)
  /\ request' = [request EXCEPT !.st = "rotated", !.answer = n]
  /\ UNCHANGED <<diskVars, revoking, cli, drawn, sess, daemon, countVars, minted>>

\* Mutant: the session of a rotated Node is left alone.
disconnect_nobody(n) == UNCHANGED sess

disconnect(n) == sess' = [sess EXCEPT ![n] = NoSession]

\* The live session is closed before the rotation is answered.
CpAnswerRotation ==
  /\ request.st = "rotated"
  /\ disconnect(request.answer)
  /\ reply(request.answer)
  /\ UNCHANGED <<diskVars, revoking, cli, drawn, nodes, tokens, hello, accepted, daemon, countVars, minted>>

\* A person revokes a Node.
CpRevoke(n) ==
  /\ revokes < MaxRevokes /\ revoking = None
  /\ n \in DOMAIN nodes /\ ~nodes[n].revoked
  /\ revokes' = revokes + 1
  /\ nodes' = [nodes EXCEPT ![n].revoked = TRUE]
  /\ revoking' = n
  /\ hello' = overtaken(n)
  /\ UNCHANGED <<diskVars, cli, drawn, tokens, request, sess, accepted, daemon, crashes, lost, boots, minted>>

\* Once that is in the audit log, the session of the Node is closed.
CpCloseRevoked ==
  /\ revoking # None
  /\ disconnect(revoking)
  /\ revoking' = None
  /\ UNCHANGED <<diskVars, cli, drawn, nodes, tokens, request, hello, accepted, daemon, countVars, minted>>

-----------------------------------------------------------------------------
(* The daemon and its session.                                             *)

\* The lock is free: nobody else serves this home.
acquire_singleton == daemon = Down

\* With the lock held, a socket file is a stale one, and is removed.
prepare_socket_path == socket' = FALSE

\* `node serve` reads the configuration and takes the singleton lock; its
\* socket is not there before it has reconciled.
serve ==
  /\ boots < MaxBoots
  /\ config_load_ok
  /\ acquire_singleton
  /\ prepare_socket_path
  /\ boots' = boots + 1
  /\ daemon' = [Down EXCEPT !.st = "starting", !.url = cfg]
  /\ UNCHANGED <<key, meta, cfg, cli, drawn, cpVars, crashes, lost, revokes, minted>>

\* The socket is bound, and answers from then on.
Listen ==
  /\ daemon.st = "starting"
  /\ socket' = TRUE
  /\ daemon' = [daemon EXCEPT !.st = "listening"]
  /\ UNCHANGED <<key, meta, cfg, cli, drawn, cpVars, countVars, minted>>

\* A person edits the address: plain text to another host, or the permission for
\* plain text to this one taken away.
EditConfig ==
  /\ "edited" \in Hazards
  /\ cfg = "set"
  /\ cfg' = "refused"
  /\ UNCHANGED <<key, meta, socket, cli, drawn, cpVars, daemon, countVars, minted>>

\* ControlChannel::run loads the identity once, for as long as the daemon runs,
\* and returns for good where there is nothing to connect to or to connect with.
run_channel ==
  /\ daemon.st = "listening"
  /\ LET loads == daemon.url # "unset" /\ load_ok IN
     daemon' = [daemon EXCEPT !.st = "running",
       !.k = IF loads THEN key ELSE None,
       !.node = IF loads THEN meta.node ELSE None,
       !.ch = CASE daemon.url = "unset" -> "disabled"
                [] daemon.url # "unset" /\ ~load_ok -> "failed"
                [] loads /\ ~is_enrolled(meta.node) -> "unenrolled"
                [] loads /\ is_enrolled(meta.node) /\ daemon.url = "refused" -> "failed"
                [] OTHER -> "backing_off"]
  /\ UNCHANGED <<diskVars, cli, drawn, cpVars, countVars, minted>>

\* The daemon stops, removing its socket, or is killed and leaves it.
Stop ==
  /\ daemon # Down
  /\ daemon' = Down
  /\ socket' \in {FALSE, socket}
  /\ hello' = IF hello.st = "challenged" THEN NoHello ELSE hello
  /\ UNCHANGED <<key, meta, cfg, revoking, cli, drawn, nodes, tokens, request, sess, accepted, countVars, minted>>

\* The state of the channel, as its status tells it.
Channel(c) == daemon' = [daemon EXCEPT !.ch = c]

\* Mutant: a session that ends is the last one.
give_up == Channel("failed")

\* However a session ends, the loop of ControlChannel::run waits and tries again.
back_off == Channel("backing_off")

\* A session begins with a hello, which names the Node and the fingerprint.
session ==
  /\ daemon.ch = "backing_off" /\ hello = NoHello
  /\ Channel("connecting")
  /\ UNCHANGED <<diskVars, cli, drawn, cpVars, countVars, minted>>

\* The Control Plane challenges whoever says hello.
CpChallenge ==
  /\ daemon.ch = "connecting" /\ hello = NoHello
  /\ hello' = [NoHello EXCEPT !.st = "challenged", !.k = daemon.k, !.node = daemon.node]
  /\ Channel("authenticating")
  /\ UNCHANGED <<diskVars, revoking, cli, drawn, nodes, tokens, request, sess, accepted, countVars, minted>>

\* What is signed: the fields both sides know of this handshake.
auth_transcript(n) == [domain |-> "asterism-node-auth/v1", node |-> n]
sign(k, message) == [by |-> k, on |-> message]
verify_signature(k, message, signature) == signature = sign(k, message)

\* The transcript of this challenge is signed with the key the daemon loaded.
authenticate ==
  /\ daemon.ch = "authenticating"
  /\ Channel("signed")
  /\ UNCHANGED <<diskVars, cli, drawn, cpVars, countVars, minted>>

\* The Node of the hello is there, active, and registered with this key: the
\* fingerprint is compared, and the signature verified with its public key.
verified(n, k) ==
  /\ n \in DOMAIN nodes /\ ~nodes[n].revoked
  /\ nodes[n].fp = k
  /\ verify_signature(nodes[n].fp, auth_transcript(n), sign(k, auth_transcript(n)))

\* completeAuthentication, up to the answer of its query for the Node.
CpVerify ==
  /\ daemon.ch = "signed" /\ hello.st = "challenged"
  /\ IF verified(hello.node, hello.k)
     THEN hello' = [hello EXCEPT !.st = "verified"] /\ UNCHANGED daemon
     ELSE hello' = NoHello /\ back_off
  /\ UNCHANGED <<diskVars, revoking, cli, drawn, nodes, tokens, request, sess, accepted, countVars, minted>>

\* The rest of completeAuthentication: the new session replaces the one there is.
CpActivate ==
  /\ hello.st = "verified"
  /\ sess' = [sess EXCEPT ![hello.node] = [k |-> hello.k, raced |-> hello.raced]]
  /\ hello' = NoHello
  /\ IF daemon.ch = "signed" THEN Channel("connected") ELSE UNCHANGED daemon
  /\ UNCHANGED <<diskVars, revoking, cli, drawn, nodes, tokens, request, accepted, countVars, minted>>

\* The connection breaks and the Node hears of it: an error, a close, or, once it
\* serves, heartbeats that stay away; the loop waits and tries again.
LinkDrops ==
  /\ "lost" \in Hazards /\ lost < MaxLost
  /\ daemon.ch \in {"connecting", "authenticating", "signed", "connected"}
  /\ lost' = lost + 1
  /\ back_off
  /\ hello' = IF hello.st = "challenged" THEN NoHello ELSE hello
  /\ UNCHANGED <<diskVars, revoking, cli, drawn, nodes, tokens, request, sess, accepted, crashes, boots, revokes,
                 minted>>

\* The peer vanishes in the middle of a handshake.  connect_async and
\* expect_message wait without a deadline, and no shutdown is looked at before
\* the session serves: the loop never gets its turn again.
expect_message_hangs ==
  /\ "silent" \in Hazards /\ lost < MaxLost
  /\ daemon.ch \in {"connecting", "authenticating", "signed"}
  /\ lost' = lost + 1
  /\ Channel("stuck")
  /\ hello' = IF hello.st = "challenged" THEN NoHello ELSE hello
  /\ UNCHANGED <<diskVars, revoking, cli, drawn, nodes, tokens, request, sess, accepted, crashes, boots, revokes,
                 minted>>

\* The Node notices that the Control Plane closed its session.
SessionEnds ==
  /\ daemon.ch = "connected" /\ sess[daemon.node].k # daemon.k
  /\ back_off
  /\ UNCHANGED <<diskVars, cli, drawn, cpVars, countVars, minted>>

\* The Control Plane closes a session nobody answers on.
CpHeartbeatTimeout(n) ==
  /\ sess[n] # NoSession
  /\ ~(daemon.ch = "connected" /\ daemon.node = n)
  /\ disconnect(n)
  /\ UNCHANGED <<diskVars, revoking, cli, drawn, nodes, tokens, request, hello, accepted, daemon, countVars, minted>>

-----------------------------------------------------------------------------
Commands ==
  \/ \E op \in {"identity", "enroll"} : load_or_create(op)
  \/ create \/ create_metadata
  \/ rotate_load \/ propose_rotation
  \/ \E t \in DOMAIN tokens : submit_identity(t)
  \/ submitted \/ record_enrollment \/ compare_node_id
  \/ commit_rotation \/ commit_metadata \/ save_config
  \/ submit_fails \/ Crash

ControlPlane ==
  \/ \E n \in NodeIds \union {None} : IssueToken(n)
  \/ CpRefuse \/ CpEnroll \/ rotateIdentity \/ CpAnswerRotation
  \/ \E n \in NodeIds : CpRevoke(n)
  \/ CpCloseRevoked

Handshake ==
  \/ session \/ CpChallenge \/ authenticate \/ CpVerify \/ CpActivate
  \/ LinkDrops \/ expect_message_hangs \/ SessionEnds
  \/ \E n \in NodeIds : CpHeartbeatTimeout(n)

Daemon == EditConfig \/ serve \/ Listen \/ run_channel \/ Stop

Next == Commands \/ ControlPlane \/ Daemon \/ Handshake

Spec == Init /\ [][Next]_vars

\* The loop of the channel and the event loop of the Control Plane do not stop
\* between two of their steps.  Of a handshake whose peer is silent nothing is
\* assumed: no step leaves the state `stuck` but the end of the daemon.
Fairness ==
  /\ WF_vars(Listen) /\ WF_vars(run_channel)
  /\ WF_vars(session) /\ WF_vars(CpChallenge) /\ WF_vars(authenticate)
  /\ WF_vars(CpCloseRevoked)
  /\ WF_vars(CpVerify) /\ WF_vars(CpActivate) /\ WF_vars(SessionEnds)

FairSpec == Spec /\ Fairness

-----------------------------------------------------------------------------
(* Properties.                                                             *)

\* A key on disk is replaced only by one the Control Plane has recorded for
\* this Node, whatever is lost and wherever a command dies: "the key on disk
\* stays valid until the Control Plane has accepted the replacement".
KeyKeptUntilAccepted ==
  [][(key \in Keys /\ key' \in Keys /\ key' # key) => <<meta.node, key'>> \in accepted]_vars

\* A host draws an identity of its own once: a key that is torn, unreadable or
\* at odds with its metadata is an error, never a reason for a new identity.
NeverMintsOver == minted <= 1

\* No two active Nodes are registered with one key, however often an enrollment
\* is repeated because its answer was lost.
OneNodePerKey ==
  \A m, n \in DOMAIN nodes :
     m # n /\ ~nodes[m].revoked /\ ~nodes[n].revoked => nodes[m].fp # nodes[n].fp

\* A session authenticated with a superseded key outlives the answer to the
\* rotation, and one of a revoked Node its revocation, only when the key was
\* replaced between the check of the handshake and its activation.
SupersededSessionRaced ==
  \A n \in DOMAIN nodes :
     \/ sess[n] = NoSession \/ verified(n, sess[n].k)
     \/ sess[n].raced
     \/ request.st = "rotated" /\ request.answer = n
     \/ revoking = n

\* A daemon that loaded the registered key of an active Node and an address it
\* accepts, and goes on running, is connected again and again, unless the peer of
\* one of its handshakes vanished without a word: "every failure is a reconnect"
\* is true of the failures it hears of.
RegisteredConnects ==
  <>[](daemon.st = "running" /\ daemon.k # None /\ daemon.node # None /\ daemon.url = "set"
       /\ verified(daemon.node, daemon.k) /\ daemon.ch # "stuck")
    => []<>(daemon.ch = "connected")
=============================================================================
