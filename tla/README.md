# NovaDesk: specifications in TLA+

NovaDesk is a remote desktop in Rust: two peers find each other through a
rendezvous server, open a QUIC connection (punched or relayed), encrypt it with
Noise, and share a screen, inputs, files, a clipboard, sound and TCP tunnels.
This directory models the parts of it whose correctness depends on the order of
things: threads, callbacks, cuts, reconnections, late answers.  Names are those
of the source, which is in French; the properties keep the language of the code
they are about.

`PROJECT.json` says which lines of the source each definition stands for, which
properties each run checks, and which theorems are proved.

## 1. Inventory

| Component | State it keeps | Operations | What is hard | What makes it correct |
|---|---|---|---|---|
| **Session engine** (`nd-core/session.rs`, `p2p.rs`) | pilot thread, stop signal, a `GardeEpoque` per connection (flags `lien_coupe`, `arret_epoque`, bridge thread), statistics | `start`, epochs, `se_reconnecter`, `stop`, drop of the handle | four threads, a callback of the runtime, an application and a network write shared flags in any order | nothing of an epoch outlives it; a cut is noticed; a stop ends the session; announced states make sense; a reconnection finds the same peer |
| **Reconnection pacing** (`nd-features/reconnect.rs`) | `ReconnectState`, armed delay | `on_disconnect`, `next_delay`, `reset` | off-by-one on attempts, redundant signals | exactly `max_attempts` attempts |
| **Unattended host** (`nd-core/unattended.rs`, admission in `session.rs`) | service thread, counters, current caller | wait, admission (trust, password, invitation, dialogue), serve, stop | proofs that come late, callers that leave, a stop anywhere | media only after a proof; callers counted once; the service perseveres |
| **Invitations** (`nd-features/invite.rs`) | map from codes to entries | `register`, `redeem`, `purge_expired` | one-time codes that come back, expiry, purge | one session per one-time code, no code burnt for nothing |
| **File transfer** (`nd-files/session.rs`, `transfer.rs`; slot in `nd-core`) | sender or receiver per peer, files on disk | `Offer`/`Resume`/`Start`/`Chunk`/`End`/`Done`, `pause`, `cancel` | one slot for both directions shared by two threads; cuts lose frames while the slot survives; replaced batches | completed files are the source; what is written is in its place; undisturbed batches arrive |
| **Remote listing and download** (`nd-core`, `nd-files`) | tables of answers, waits with a deadline | `lister`, `telecharger` | late answers, full tables | an answer belongs to its request, or was on its way before it |
| **Features of a session** (`nd-core/session.rs`) | permissions, clipboard, region, privacy, quality, recording | commands and `Control` frames | two threads per peer, concurrent changes on both sides | clipboards, curtain, frame and quality converge; recordings are not lost |
| **Input gate** (`nd-core`, `nd-input`, `hotkeys.rs`) | keys swallowed, read-only mode, live permissions | `traiter`, `filtrer`, hotkeys | permission withdrawn while a key is down | no key left down, no hidden key injected |
| **Tunnels** (`nd-core/tunnel.rs`) | bridges per stream, outgoing queue | open, data, close | stream numbers reused, epochs | bytes of a stream in order, to that stream |
| **Transport** (`nd-transport`) | QUIC connection, datagram reassembly, reconnecting wrapper | send, poll, reconnect | loss, reordering, eviction | frames once, channels stay valid |
| **Signaling** (`nd-signaling`, `server/nd-rendezvous`) | registry with ttl, punch requests | register, heartbeat, punch, sweep | expiry against requests, bounded queues | a request reaches a live target or is refused |
| **Relay** (`server/nd-relay`) | waiting table, pair count, quotas per address | pair, copy, sweep | races on the table, dead first peer | pairs of one ticket, quotas given back once |
| **Accounts service** (`server/nd-accounts`) | accounts, secrets of the second factor, links of the provider's subjects, failed attempts, transactions of the provider | sign up, log in, second factor, return from the provider | a thread per request, a lock taken and dropped several times, a write that fails, a stop | no session without the factor, one account per subject, guesses bounded |
| **Administration API** (`server/nd-api`) | stores of groups, roles, addresses, shares, counter of identifiers; one file | requests, each followed by a save of everything | pictures older than the file they replace, failed saves, stops | what was answered is on the disk; an identifier is never issued twice |
| **Windows service** (`nd-service`) | the current bridge, its two pipes, reading thread and queue of frames; the two threads of the assistant | hand out the ends of a bridge, capture, inject, stop | the assistant dies at any step, a pipe blocks, a process outlives its use | one assistant at a time, the one filmed; no key left down; nothing runs after the stop |
| Codec, audio, capture, input back-ends, FFI, web client, UI, packaging | - | - | numeric code, system calls, bindings | not modelled |

How they interact: `nd-ffi` and `nd-service` call `SessionEngine::start` or
`UnattendedHost::start`.  The pilot thread resolves the peer through
`nd-signaling`, gets a QUIC connection, wraps it with Noise and lives *epochs* on
it: the pilot streams or decodes, an auxiliary thread handles inputs, and in the
extended mode one thread receives and one emits the frames of all the features.
`QuicTransport::on_disconnect` calls back when the connection closes; the bridge
thread turns that, or a stop, into the flag every loop of the epoch watches.

## 2. Modules

| Module | Models |
|---|---|
| `ReconnectController` | operators: the pacing of reconnections |
| `SessionLifecycle` | abstract: the states announced to the application, one peer, numbered epochs |
| `SessionEngine` | one session, every thread of it, with the network and the application |
| `Invitations` | operators: the invitation store |
| `UnattendedHost` | the service loop, admission, accounting, the clock and the callers |
| `TransferSession` | operators: sender, receiver and their frames |
| `FileTransfer` | two peers, their slots, channels, disks, permissions, cuts |
| `SessionEtendue` | what the features of an extended session share: link, epochs, queue of commands, two threads per peer, live permissions |
| `DistantFs` | listing and download of remote files: requests, tables of answers, deadlines |
| `PressePapiers` | the clipboard and its echo suppression at both peers |
| `Guichet` | inputs from the keyboard of the controller to the system of the host |
| `FluxHote` | the streaming loop of the host and what both peers ask of it: curtain, frame, quality, recording |
| `Tunnels` | TCP connections through the session |
| `SessionFeatures` | the composition: one session, all features |
| `Bancs` | the benches of the network and the mode of the session |
| `Datagrammes` | reassembly of datagrams, the merge with the reliable stream, the nonces |
| `TransportRepris` | a transparent reconnection shared by two threads |
| `Relais` | the relay server |
| `Rendezvous` | registry, presence, demands and the punch itself |
| `ApiDurable` | the administration API: stores, pictures, the file |
| `Comptes` | the accounts service: passwords, second factor, provider, blocks |
| `PontAssistant` | the bridges of the Windows service and the assistants they lead to |
| `Reseau` | the composition of the seven benches |
| `SessionEngine_proofs`, `UnattendedHost_proofs`, `FileTransfer_proofs`, `SessionFeatures_proofs`, `Reseau_proofs` | theorems of the five compositions |
| `DistantFs_proofs` | the lemmas about the link of an extended session, the listings and the downloads, on which `SessionFeatures_proofs` rests |
| `Comptes_proofs`, `ApiDurable_proofs` | the lemmas about two benches that `Reseau_proofs` combines with its own about the five others |
| `MC*` | small instances |

### SessionEngine

`pc` walks the pilot thread through `derouler_session`, `vivre_epoque_*`,
`executer_*`, `conclure` and `se_reconnecter`; each read or write of a flag that
another thread touches is a step of its own (`Conclure`, `JoindrePont`,
`LireStop`, `Classer` are the four lines of `conclure`).  `Pont` is the thread
`nd-session-garde`, `Rappeler` the task of `on_disconnect`, `Injecter` and
`FinirAux` the auxiliary thread, `RaccourciDeconnexion` the host hotkey,
`DemanderArret` the application.  The link is `ouvert`, `muet` (dead but nobody
knows), or `ferme`.  A late callback of an earlier epoch writes flags nobody reads
any more (they are allocated per epoch), so only the current one is modelled.

The errors a body may meet are one action, `Echouer`, which remembers whether
the link was alive.  Establishment fails or succeeds as it likes; only its bounds
matter (`AttenteBornee`).

### UnattendedHost

`pc` walks the service thread; `Preuve` says what each caller sends, `Menteurs`
which declare an identifier that is not theirs, `Arriver` when it reaches the
host, `ExpirerDemande` that the window closed first.  `admission` chooses between
the two modes.  The epoch's guard is reduced to `Pont`, which `SessionEngine`
details; what `conclure` makes of a cut is the choice of `Conclure(coupe)`.  The
store is that of the application: it issues and purges at any time, under a clock.
An invitation code is drawn at random and taken never to repeat.

### TransferSession and FileTransfer

Lengths are counted in chunks and a chunk is a pair of a file and an index, so
contents can be compared; comparing them is what the BLAKE3 root hash does.  A
file of `Inegaux` ends with a shorter chunk, which is not kept by a resumption
(`offset_reprise` rounds down).  `TransferSession` has one operator per function
of `nd-files`; `FileTransfer` puts a slot at each peer, two FIFO channels, the
live permissions, and lets the user send, the link cut and come back.  `pompe` is
the lock `pomper_transfert` holds while it emits: the receiving thread waits.
Directories start with any content (`Restes`): `reste` remembers it, so that the properties
can tell what a transfer kept of it from what it wrote.  Sources do not change during a run.
`Piloter` and `Reprendre` are `cancel`, `pause` and `resume`, which `nd-files`
offers and `nd-core` does not call yet.

### SessionEtendue, its features, SessionFeatures

The five feature modules extend `SessionEtendue`, so they share one link, one
queue of commands and one set of permissions, and live through the same cuts;
`SessionFeatures` joins them.  What the users do (`usage`) is drawn at the start:
features whose state does not touch would only multiply each other's states.  The
link loses what is on its way when it is cut; each peer's threads end when they
notice; a new epoch starts when all have.  What belongs to an epoch (the gate of
inputs, the local variables of the streaming loop, the last announced curtain)
starts afresh; what belongs to the session (tables, tunnels, remembered clipboard,
shared settings) stays.

`DistantFs`: the disk of the host is a version number, so that the age of an answer
is visible; a call remembers the `versions` it may be given, those of the disk since it
began and those on their way by then.  A call of the application registers, sends, waits, and may run out of
time at any moment; its answer may come later.  `PressePapiers`: two threads of a
peer hold the clipboard's lock and that of `dernier` one after the other, so
applying and remembering, capturing and comparing are separate steps.  `Guichet`:
a frame passes permission, shortcuts, read-only mode, injection, in that order, in
one step (one thread, one lock).  `FluxHote`: a request is one or several relaxed
stores, each a step; the loop reads them one by one.  Relaxed stores become visible
in program order (x86).  `Tunnels`: a block is named after the connection it comes
from and its rank, and the identifier on the wire is separate from the connection,
so that bytes given to the wrong connection can be seen.

### Bancs, the benches, Reseau

The layers below the session interact with it only through their results, so each
is checked alone on a *bench* drawn at the start.  `Datagrammes`: a message is its
nonce and a set of fragments; the network loses (never absorbs) and reorders.
`TransportRepris`: two threads call one transport behind a mutex; whichever finds
the connection dead makes it anew with the mutex held, as often as `politique` allows: a
number of attempts, or no limit, the default.  A handle is a rank among
the channels of a connection.  `Relais`: one thread per connection, with the places
of the addresses, the table of waiting peers and the pairs.  `Rendezvous`: a host,
its registry entry, two callers and the punch; a socket is the rank of the attempt
it was opened for, and probes are sent again all along a punch, so the probes on
their way are a function of who is punching.  A restricted NAT lets in only answers.

`ApiDurable`: a thread per request changes its stores one lock after the other, takes a
picture of all of them (`instantane`, one lock after the other again) and only then takes
the lock of the file, so pictures may be written in another order than they were taken.
A store is the set of requests whose change it holds; the counter of identifiers is the
size of its set.  `RedemarrerApi` loses the memory and the requests under way.  `Comptes`: a
request is a walk through the takings of the lock of `Etat`; the password is verified
between two of them.  `Persister` is `durable ou rien`: the database first, then the
memory, under one lock.  A secret is named after the request that made it and a code after
its secret.  What the requests may ask is drawn at the start (`profil`).  The clock moves
only when a block or a transaction depends on it: before that, moving it shifts every date.

`PontAssistant`: `pilote` is the host thread through an epoch, which asks for the injector
and then for the capturer (`executer_hote`), each from `assurer_pont`.  A bridge is a rank;
its pipes are absent, waiting for the assistant, open, or cut by the service.  `Lire` is its
reading thread, `Capturer`, `LireEntree` and `FinTube` the two threads of the assistant,
`Tuer` the end of its process.  A pipe that is full blocks its writer; one that is cut loses
what it holds.

## 3. What the runs check

| Run | Bounds | Result |
|---|---|---|
| `session` | 2 peers, `max_attempts` in {0, 2, none}, 3 connections, unlimited policies stop counting at 2 | 9 properties hold |
| `session_erreur` | policies {1, none}, 2 connections | a documented claim is violated |
| `hote` | 6 callers of different kinds, 1 code, 2 connections, clock to 2 | 7 properties hold |
| `transferts` | files of 2 and 1 chunks, 2 queues, 2 batches, 1 incident | 5 properties hold |
| `transferts_coupure`, `transferts_retour`, `transferts_reste` | same; one batch and no incident for the third, no incident for the second | a documented claim is violated |
| `fonctions` | 10 usages, 2 connections, see below | 9 properties hold |
| `reseau` | 7 benches, see below | 10 properties hold |
| `reprise_arret` | bench of the transparent reconnection | a documented claim is violated |
| `chiffrement` | bench of datagrams, session without extended features | a documented claim is violated |
| `api_identifiants` | bench of the administration API | a documented claim is violated |

Why these bounds are enough: a session needs a first epoch, a reconnection, and a
second reconnection after the attempts were reset, hence 3 connections; two
attempts show the first, the last and the one too many.  The host needs a caller
and the next one (or the same one again), hence 2 connections, and a clock that
passes an expiry.  A transfer needs a file of more than one chunk and a second
file, two batches (one that replaces or follows the other, in either direction) and
one cut in the middle, over directories that hold nothing, a beginning of the source, a longer
content, or another one that is not longer.

`fonctions`: a cut and what follows it need 2 epochs (`MaxEpoques`), and one change of
permissions (`MaxChangements`) at any moment.  Two threads of the application make 2
calls in all (`MaxAppels`: one that ran out of time and its retry, or two at once)
into a table of one place (`REPONSES_MAX`, so that it overflows); the file of the
host has two slices, then one, then two (`Longueurs`).  Two copies (`MaxCopies`) of two
contents, two of them on their way to a peer (`MaxEnvoyes`: the races of its two threads can
make a peer send two contents for one received, for ever).  Three keys, one of them a modifier, a button and two shortcuts, 4 events
(`MaxEvenements`: a modifier, a key, and their releases), one waiting (`MaxFile`).  Three
requests to the stream (`MaxDemandes`: one undone by another, and a recording ordered again
after one that ended it), three frames of which
one is rejected, two presets.  Two connections through the tunnel (`MaxConnexions`),
one at a time at the controller (`MaxSimultanees`: the second comes after the first,
whose identifier must not return), two blocks per end and 3 connections and blocks
together (`MaxBlocs`, `MaxActes`).

`reseau`: frames of one or two fragments plus one of parity, three messages
(`MaxTrames`) and a reassembler of two (`EnVol`, so that it evicts); two attempts or
no limit (`Politiques`) and two cuts (`MaxCoupures`); four connections to the relay from one address
with one ticket (`MaxConnexionsRelais`: a pair, a peer too many, one refused by the
quota `MaxParIp` or by `MaxPaires`); two callers, a file of one demand
(`MaxDemandesCible`), two turns of the host, two attempts of a caller, one failure
(`MaxTours`, `MaxEssais`, `MaxPannes`), under three settings of the NAT and the relay;
three requests to the administration API that change one store or two
(`MaxRequetesApi`: two whose saves cross and one that comes after) and one stop
(`MaxRedemarragesApi`); four profiles of requests to the accounts service (`MaxDemandes`: 4
passwords, so that a block of `Seuil` 2 is set and refuses; 3 with the second factor; 2
returns from the provider over 2 transactions, with accounts or signing up first), two
under way at a time (`MaxSimultanees`), blocks of 2 ticks under a clock of 3 (`MaxHeure`) so
that one is lifted, and one stop (`MaxRedemarrages`); three bridges of the Windows service
(`MaxPonts`: two epochs, one of which replaces its bridge half-way), pipes and a queue of
one message (`TailleTube`, `FileTrames`: both overflow) and one assistant killed (`MaxMorts`).

Bounds in guards: `MaxEpoques` (`EtablirQuic`), `MaxConnexions` (`Entrer`,
`RefuserAuPunch`), `MaxHeure` (`Avancer`), `MaxEnvois` (`Envoyer`), `MaxIncidents`
(`MajPermissions`, `Couper`, `Piloter`), `Plafond` (an unlimited policy stops
counting).  In the features and the benches every bound named above is a guard of the
action of the user, the network or the clock that it limits, never of a thread's, but for
`MaxEnvoyes`, which makes the thread that captures the clipboard wait until the peer has
read: the other threads go on, and a capture that waits captures what is there later.
`FileTransfer`, `SessionFeatures` and `Reseau` run without the deadlock check: when the
users do nothing more and all is delivered, nothing need happen.

### The session

- `EpoqueIsolee`: between two epochs no thread, held key or open connection of the
  last one remains.
- `FinJustifiee`, `TentativesBornees`: the policy is used up exactly.
- `ArretUneEpoque`: after a stop, one more connection at most.
- `RefineLifecycle`: the engine implements `SessionLifecycle`; a connection counts
  from the announcement of `Handshaking`.
- `ArretHonore`, `CoupureSignalee`, `RepriseConclue`: liveness.

### The unattended host

`AdmissionFondee` (with `ProfilLocal`, the profile in force), `UsageUnique`,
`CodeNonBrule`, `ComptesJustes` (safety); `ArretHonore`, `RetourAttente` (liveness).

### The transfers

- `Reprenable`: whatever was on a disk is untouched, or what a resumption keeps of it is
  followed by the chunks of the source in their places; the next transfer keeps that
  without reading it again.
- `Integre`: a file reported complete is the source, when its name was free, or held a
  beginning of the source or a longer content (`Fiable`).  For another content that is not
  longer the code fails, which is `FichierVerifie` (section 4).
- `ProgressionBornee`: the progress shown never exceeds its total.
- `TransfertAboutit`: a batch that nothing disturbs is delivered.

The first three hold as long as no `Offer` was lost (`offrePerdue`).  The condition
is not a convenience: a `Resume` that answers a replaced batch makes the sender
stream its new file; if the `Offer` of that file is lost in a cut (or dropped by
the permission guard) the receiver takes `Start` for the file before, because
`accepter_start` does not compare names, and writes the content under that name.

### The features

- `ListingFrais`, `TelechargementFidele`: what a call returns was read since it began, or
  was on its way by then, although an earlier call of the same path may have left its
  answer in the table.  The code does take an answer that was on its way, against its
  comments: a download may then be a mixture of two versions (section 4).
- `ClavierFidele`: no key stays held, the host never sees the key of a
  shortcut.  The code leaves two cases open, named in the comments (`orphelines`): a
  permission withdrawn while a key is down, and a key that completes a shortcut by
  repeating itself.
- `OctetsEnOrdre`, `TunnelFerme`: bytes of a connection in order and only to its other
  end; a connection that ends ends at both sides.  `devancees` names the case the code
  leaves open: `OUVRIR` leaves before the bridge of the controller exists, and an answer
  that arrives first is lost.
- `PressePapiersConverge`, `FluxConverge`: once the users are quiet, both ends agree on
  the clipboard, and on the curtain, the quality and the frame of the stream, whatever the
  interleaving and whatever a cut lost.  A copy is disturbed, for the clipboard, by a content
  captured before it was applied and compared after (`Perime`): see section 4.
- `EnregistrementSauf`: the recording of the start is never truncated once it can be read,
  and that of an order not before the epoch that closed it is over, but by a new order.  The
  epoch after does truncate it (section 4).

### The network

- `LivraisonExacte`: a frame is delivered once if enough of its fragments arrive, in any
  order, until the reassembler is full.
- `PoigneesStables`: channel handles keep their meaning across reconnections.
- `ArretTransparent`: a stop ends both threads, even during a reconnection, when the policy
  limits the attempts or the host comes back.  When neither is so it does not:
  `ArretAnnulable` (section 4).
- `RelaisSeVide`: once its clients have left the relay holds nothing.
- `PercementAboutit`: two ends that can hear each other confirm the same path.
- `PersistanceSuivie`: the file always holds what had been answered before the request
  that wrote it was received, and an identifier comes back only after a stop lost it.
- `SessionsFondees`: once the second factor is on no later request logs in without it or
  replaces it, and a subject of the provider is of one account.
- `EchecsBornes`: attempts run together pass the threshold by no more than their number.
- `PontFidele`: one bridge is open at most, an epoch films through it and drives no other
  assistant; an epoch whose capture ended ends, the keys of an epoch that is over come up
  unless the assistant was killed, and a stopped service leaves no assistant.

## 4. Where the code and its documentation disagree

Each of these is a run whose property quotes a sentence of the source
(`PROJECT.json`, `findings`):

1. `ErreurReelleFatale`: `conclure` reads `lien_coupe` after the body has dropped
   the transport, so a real error on a live link may be taken for a lost link.
2. `FileTransferee`: after a cut, `Finished` is announced for a batch that is not
   on the disk.
3. `EnvoiAboutit`: a batch sent to a peer that has itself sent one never starts.
4. `FichierVerifie`: a file announced as verified begins with the chunks of an older
   content that lay under its name and was not longer.
5. `ArretAnnulable`: under the default policy, which sets no limit, a stopped session does
   not end while the host stays away: the thread that reconnects holds the transport and
   reads no stop.
6. `NonceSynchrone`: without the extended features the video travels as datagrams
   under the same nonces as the reliable stream; a lost or overtaken frame ends the
   epoch.
7. `IdJamaisReattribue`: a save of an older picture takes an identifier that was answered
   off the file; after a stop the counter gives it again.

Met while modelling, without a run of their own:

- the window of a reconnection does not bound the wait for the QUIC connection, which has no
  deadline and reads no stop, against the doc of `accepter_par_rendezvous`
  (`nd-core/src/p2p.rs`, 223-227 against 273): the liveness of a stop is conditional on it;
- a caller admitted by a one-time invitation is refused when it reconnects with the same code,
  against the doc of `demande_admission` (`nd-core/src/session.rs`, 2339-2340);
- an answer of a call that ran out of time, still on its way when the call is made again, is
  taken for the answer of the new one, against "la réponse rendue est celle de CETTE demande"
  (`nd-core/src/session.rs`, 981-983, 1052-1053, 1108-1110, 1223-1224): a download may mix two
  versions of a file and end well;
- a content captured before the clipboard of the peer is applied, and compared after it is
  remembered, is sent although the clipboard no longer holds it (`session.rs`, 3637-3655
  against 3048): the two clipboards end with each other's content, or swap them for ever;
- a recording ordered during a session is opened again and truncated by the next epoch
  (`nd-core/src/lib.rs`, 562-577, 784-793, 905-910), against "un muxeur MP4 clos ne se rouvre
  pas" (`session.rs`, 346-348), which only the recording of the start heeds;
- a datagram frame that is evicted after it was delivered is delivered again when a late
  fragment completes it, against "exactement une livraison par trame"
  (`nd-transport/src/datagram.rs`, 232-233);
- without the extended features the receiver opens no channel of its own, so the first
  video frame takes a rank of which `rouvrir_canaux` knows nothing: a handle of the
  emitting thread may then designate another kind after a reconnection, against the
  doc of `ReconnectingTransport` (`nd-transport/src/reconnect.rs`, 229-231).
  `PoigneesStables` is therefore stated for extended sessions;
- an assistant that dies between the two calls of an epoch is replaced for the capturer only:
  the session shows the screen and its inputs reach nobody, against "capteur et injecteur
  parlent ainsi au même assistant" (`nd-service/src/pont.rs`, 294-297);
- an assistant that dies before it connects is waited for without a deadline, and the
  service then cannot stop, against the errors `demarrer` announces (`pont.rs`, 118-121);
- a failed first registration does not stop the unattended service, against the doc of
  `UnattendedHost::start` (`nd-core/src/unattended.rs`, 102-103 against 533-545);
- two overlapping `activer_2fa_reseau` are both answered and the second secret replaces
  the first, against its doc (`nd-accounts/src/main.rs`, 578-583); an activation whose
  answer is lost leaves an account that only its administrator can open again;
- `CreateGroup` writes the group and its first role under two locks: a picture or a stop
  between them keeps a group without an administrator (`nd-api`);
- a toggle of a permission reads the live set, which an earlier toggle still in the
  queue has not reached (`nd-ffi/src/flux.rs`, 520-533): the second undoes the first;
- `Request::Punch` leaves a demand even when there are no candidates to give in
  exchange; the host may then punch for `DEFAULT_PUNCH_TIMEOUT` towards a caller that
  has gone, and behind a restricted NAT miss the one that calls.

## 5. Fairness

Threads and tasks are scheduled (weak fairness of each step they can take).  Every
wait the code bounds ends: handshake, QUIC client, admission window, dialogue,
rendezvous loop with a deadline.  Waits the code does not bound are *not* fair: a
host that waits for its first caller, and `accept_quic_over_socket`; the two
`ArretHonore` are therefore conditional on that wait coming to an end
(`[]<>(pc # "accepterQuic")`), as the documentation of `SessionHandle::stop`
admits.  Nothing promises that a link comes back, that a user answers, or that a
media loop ends by itself: media loops end because `arret_epoque` is raised or
because a send is refused.  In `FileTransfer` the two threads of each peer keep
pumping and receiving; nothing else is fair.

In the features the emitting and receiving threads of both peers and the streaming
loop run, a connection attempt to the target of a tunnel ends one way or the other, and
the screen changes from time to time (the loop reads its settings when there is a fresh
image).  Nobody has to act, to close or to reconnect.  On the benches the threads run;
a burst of messages ends (`run_streaming` drains it before it looks at the stop); tickets
expire and the relay sweeps; a packet that can get through a NAT arrives before the
punch times out, since it is sent again every 100 ms for 5 s.  A probe does not outlive
its punch (5 s against the life of a packet).  The threads of the Windows service and of its
assistants run; nobody has to call or to stop, and an assistant need not connect.

The models assume that the rendezvous server answers or refuses: its client sets
no timeout (listed among the hazards).

## 6. What is proved

TLAPS proves every invariant the runs check, and the action properties and the refinement
among their other properties, for every set of peers, callers, codes, policies, files,
accounts and every bound:

- `SessionEngine_proofs`: `TypeCorrect`, `Isolation` (`EpoqueIsolee`), `Bornees`
  (`TentativesBornees`), `ArretBorne` (`ArretUneEpoque`), `FinToujoursJustifiee`
  (`FinJustifiee`) and `Refinement` (the engine implements `SessionLifecycle`).
- `UnattendedHost_proofs`: `TypeCorrect`, `ComptesExacts` (`ComptesJustes`),
  `UnSeulUsage` (`UsageUnique`), `JamaisBrule` (`CodeNonBrule`), `AdmissionSure`
  (`AdmissionFondee`).
- `FileTransfer_proofs`: `TypeCorrect`, `ToujoursReprenable` (`Reprenable`),
  `ToujoursIntegre` (`Integre`), `ProgressionToujoursBornee` (`ProgressionBornee`), for any
  files, lengths, queues and directories.
- `SessionFeatures_proofs`: `TypesToujours` (`TypeOK`), `OctetsToujoursEnOrdre`
  (`OctetsEnOrdre`), `ClavierToujoursFidele` (`ClavierFidele`), `ListingToujoursFrais`
  (`ListingFrais`), `TelechargementToujoursFidele` (`TelechargementFidele`),
  `EnregistrementToujoursSauf` (`EnregistrementSauf`), and the safety halves of the two
  convergence properties: `CopieToujoursPartagee` (once all is calm, a copy that nothing
  disturbed is in both clipboards), `IndicateurToujoursFidele` (once the last announcement has
  come, the indicator shows the curtain), `QualiteToujoursAppliquee` and
  `CadreToujoursApplique` (once the loop has nothing to do, it streams with the last preset
  and the last accepted frame).
- `Reseau_proofs`: `TypesToujours` (`TypeOK`), `LivraisonToujoursExacte`
  (`LivraisonExacte`), `PoigneesToujoursStables` (`PoigneesStables`),
  `SessionsToujoursFondees` (`SessionsFondees`), `EchecsToujoursBornes` (`EchecsBornes`),
  `PersistanceToujoursSuivie` (`PersistanceSuivie`), and two that no run states on its own:
  `ComptesToujoursJustes` (the relay's quotas and its count of pairs are exactly what its
  connections hold) and `UnPontOuvertToujours` (the safety half of `PontFidele`).

Assumptions used: the named `ASSUME`s of the modules, which TLC evaluates on the instances.
Besides the bounds being numbers: a peer is not `Aucun`, policies are numbers or `Illimite`,
codes are not other kinds of proof; each bench of `Reseau` that is proved about has something
to draw (a mode, a subject, a profile, writes that name each store at most once); the
directories `Restes` hold a sequence of chunks for each file, whatever they are; `Rien`
is not a frame; what a peer may toggle is among what its usage has permissions for
(`EtendueAssumption`); a remote file has at least one version, and the table of answers at least one
place (`DistantFsAssumption`); a shortcut is not named as one of the two outcomes of the
filter (`RaccourcisAssumption`); the default quality and frame are a quality and a frame, and
`Aucun` is neither the state of a file nor that of a curtain (`FluxAssumption`); an empty
clipboard is not something that may be copied (`PresseAssumption`).

Argument for the session.  `EpoqueIsolee` is not inductive: it says what holds
outside an epoch, and is true because of what holds inside one, in `EpoqueInd`: a
bridge can only run from `Armer` to `JoindrePont`, an auxiliary thread from
`Preparer` to `AttendreAux`, a key is down only while that thread runs, and the
connection is closed from `Lacher` on.  `TentativesBornees` needs the number of
attempts tied to the controller (`RepriseInd`: the waiting attempt, armed or not,
is the number of attempts made, plus one until it starts).  `FinJustifiee` follows
from it together with `FinInd`, which says where a pilot that is about to end comes
from.  `ArretUneEpoque` needs that once the stop is read no new attempt begins
(`ArretInd`).  The refinement uses `EtatInd` (the announced state as a function of
`pc`) and `PairInd` (a candidate of a reconnection is the peer of the session);
every action is then one step of `SessionLifecycle` or a stutter.

Argument for the host.  `ComptesJustes` fails while a caller is being examined:
`ComptesInd` adds that caller to the balance (`EnExamen`).  `UsageUnique` and
`CodeNonBrule` are about the history of codes: `CodesInd` ties the store to what
has been issued and to what has opened a session, through purges.
`AdmissionFondee` needs that the proof examined is that of the caller being served
(`AdmissionInd`).

Its part `ProfilLocal` needs that no profile but that of the service is in force before a
decision (the same `AdmissionInd`).

Argument for the transfers.  Nothing in the frames `Start` and `Chunk` of `nd-files` is
compared with the file the receiver has open, so `Reprenable` and `Integre` rest on the
order of the channel.  `DisqueInd` says, of each peer that missed no `Offer`: each `Start`
and `Chunk` on its way, and what the other side will emit next, is about the last file
offered before it, or about the file already current at the receiver when no offer is
ahead (`Fil`); each destination is what was there at the start or what a transfer may make of
it (`Sain`); an open reception is of the file announced and within its length (`Ouvert`); the files reported
complete have their length (`Complets`).  A frame handled removes the head of `Fil`, a frame emitted extends it
(`Depiler`, `Empiler`), a cut that drops no offer leaves it true of the empty channel
(`Vider`).  The hypothesis that no offer was lost is needed, and is in the properties themselves
(`offrePerdue`): after a lost `Offer`, the `Start` that follows is taken for the file
current before it, one of the hazards.

`ProgressionBornee` needs what the numbers shown are made of, `AvanceInd`: a sender has counted
the files before its current one (`Compte`, with `Cumul` of the queue), a receiver has
room in its total for the file it receives (`Reserve`), and what it counts of that file is
what the offer found in the destination, then the length of the destination: this rests on
`Ouvert`, hence on `DisqueInd`.

Argument for the features.  What a session is used for is drawn once, so `SessionInd` is one
inductive invariant per usage; the variables of the other features keep their initial values,
or their types when the link changes them.  Each extends `LienInd`: the threads, the
permissions and the queues have their types, and nothing is on its way while the link is down.
Listings and downloads describe a frame on its way, an answer to be sent and an answer in the
table by sets that depend on the state (`TramesL`, `ReponsesL`, `RecuesL`, `TramesD`...): a
call has the `versions` it may be given, and whatever may still answer a call that waits was read
in one of them.  A
step keeps its queues in these sets, and shows that those of the next state hold what they
carry (`Portent`).  `TunnelInd`: on the way to a side, channel and emitting queue
together, blocks of a connection are newer than those received and in order (`Fil`,
`Ordonnes`), and in the first epoch a side that has the bridge, or will have it before the
blocks, misses none (`Couvert`).  `ClavierInd`: a key the host holds is held by the user or
its release is on its way (`Suivies`), unless it is one of the `orphelines`; the state of the
filter and what was injected exclude each other.  `FluxInd`: the file of an epoch to come is not a
complete recording, the one that is open is not complete yet, and without an order to record
it is the epoch's own (`Enregistres`); a file that was closed was closed in an epoch that has
begun, and one closed in this epoch is not the file still ordered (`Clotures`).

What a quiet session shows needs an invariant of the way to quiet.  `CopieInd`: after an
undisturbed copy every frame, application and capture is of it, and a side that does not hold
it has nothing of its own to send while the other holds it and has sent it or will capture
it (`Retard`).  `AnnonceInd`: the last announcement in the channel, or what the last one
received left, is what the host announced last in this epoch.  `QualiteInd`: a thread that
stores a preset has a known suffix of its three stores left, the generation last, so that
values read before it are read again (`Lue`).  `CadreInd` needs the auxiliary `croisee`: only
the undoing of a rejected frame can overwrite an accepted one.

Argument for the network.  `DatInd`: a frame opened less than `EnVol` openings ago is still
held, at the rank its opening gave it, with exactly the fragments that arrived (`Tenue`); an
older one is none of the property's business.  `RepInd`: in an extended session the channels
of the connection are what opening again those of the list gives (`inner = OuvrirTous(canaux)`),
so a new connection gives every kind the same rank, and no kind is left for a message to open.
`RelInd`: the quota of an address counts the connections that hold one of its places, the
count of pairs counts the pairs that are copied or not yet given back, one ticket waits at
most once and the two sides of a pair name each other.  `RvInd` is the types of the meeting.
`PontInd`: bridges are made in order, the open one is the current one, an awaited one is the
last; there is always a bridge left for each end an epoch has still to ask for; the ends of an
epoch are on the current bridge or on one that was cut.

Argument for the accounts.  `ComptesInd` says what a request may still rely on between
two takings of the lock.  `AvantInd`: the activations answered before a request came are
of its account, and a request that goes on without the second factor, or replaces it,
had none; this needs that an answered activation leaves a secret that is never taken
back (`ActiveesInd`).  `OidcInd`: a request that consumed its transaction is alone to
have done so, and the subject it lets in is linked to the account it opens.
`EchecsBornes` is not inductive: `EchecsInd` adds to the failures counted the requests
past the check of the block, and bounds their sum once the threshold is reached.

Argument for the administration API.  `ApiInd`: the memory holds the change of every
request that has made it, unless a stop lost it (`MemoireInd`); a picture is taken after
its request came, so it holds what was answered before, and so do the temporary file and
the file written from it, the latter through the lock of the file (`ImageInd`); in the
memory, a picture or a file, the identifiers drawn are the first ranks, each once
(`IdentifiantInd`), so that two requests share one only after a stop.

Recursive definitions.  `Cumul`, `Purger` and `OuvrirTous` are recursive functions on the
ranks of a sequence.  That they exist, and what they compute, is proved from the principle of
the least number (`MoindreEntier`, from `WFMin` and `NatLessThanWellFounded`, which need no operator as
a parameter): the least rank at which the claim fails has one before it at which it holds.

Only model-checked: the liveness properties, which are outside TLAPS (`ArretHonore`,
`CoupureSignalee`, `RepriseConclue`, `RetourAttente`, `TransfertAboutit`, `TunnelFerme`,
`PressePapiersConverge`, `FluxConverge`, `ArretTransparent`, `RelaisSeVide`,
`PercementAboutit`, the second half of `PontFidele`).  No invariant is left to TLC alone.

## 7. Not modelled

- The media pipelines themselves, codecs, rate control and audio: numeric code on one
  thread.
- The panic of a thread, disk errors, the byte encoding of frames, cryptography and the
  handshake (its outcome is a choice), Reed-Solomon arithmetic, QUIC (its effects are
  modelled).
- Chat, annotations, announcements of monitors: forwarded without state.
- The FFI (a third of the repository, partly generated) and the web client: bindings.
- Of the accounts service: what a session is used for afterwards, refresh tokens,
  licences, the cache of the provider's keys.  Of the administration API: reads, the guards of
  authorisation, audit, policies and updates.
- Of the Windows service: the framing of its pipes, monitors, regions and desktop switches
  (forwarded), its configuration file, installation and calls of the operating system.
- Capture and input back-ends: calls of the operating system.

`PROJECT.json` lists each with the reason.

## 8. What is left

1. Remote listing as the refinement of a one-request specification.
2. The signed registration of `nd-rendezvous` and the choice of a relay by a client.
3. A run of its own for a lost `Offer` (`transfer.rs`, 506).
4. Abstract specifications of a transfer and of the relay, and the proofs that `FileTransfer`
   and `Relais` implement them.
