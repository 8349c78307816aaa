# Quipu: a TLA+ model of the system

This directory holds specifications of Quipu (the Rust workspace in this
repository), the TLC configurations that check them on small instances, and
proofs for every instance. Paths below are relative to the repository root.

## 1. The system

Quipu turns a message and a secret phrase into text (dictionary words, a
sheet of paper, a file) and back. Around that library stand a *hardening
service*, which makes guessing the phrase need a key held by a server, and
the network, storage and self-test code a real deployment needs.

| component | source | state it keeps | operations | what is hard | what must hold |
|---|---|---|---|---|---|
| OPRF service, HTTP | `crates/quipu-oprf-server/src/http.rs` | the request being served, a limiter | `evaluate`, `admin_issue`, `admin_action` | several statements per request, discarded errors, crash, one thread | a charge per answer, quota, no stuck thread |
| OPRF service, store | `.../store.rs` | tables customer, api_key, usage | `verify`, `record_usage`, `create_customer`, `issue_key`, `set_active`, `revoke` | shared with CLI processes; check and charge are separate; the period turns | quota never overcharged, revocation final |
| burst limiter, plans | `.../ratelimit.rs`, `plans.rs` | a token bucket per key, in memory | `allow` | fractions of a token, change of plan, restart | bound in any interval, no unjust denial |
| OPRF CLI and start-up | `.../main.rs` | the server's key | `issue`, `activate`, `deactivate`, `revoke`, `load_server_key` | another process over the same file; a seed absent or badly copied | as for the store; never another seed's key |
| API keys | `.../apikey.rs` | none | `generate`, parse, hash | | only the holder of the secret evaluates |
| seed custody | `.../custodia.rs`, `bin/custodia-seed.rs` | shares kept apart | split, restore | shares lost, damaged, of another seed | enough restore; never another key |
| secret sharing | `src/shamir.rs` | none | `split`, `combine` | thresholds, any indices in any order | fewer tell nothing, a damaged one does not pass |
| demo OPRF daemon | `examples/oprf_server.rs`, `src/oprf_net.rs` | queue, 8 workers, mutexes | accept, handle, answer | threads, timeouts, slow clients, admission long before the answer | bounded hold of a worker, every connection ends, evaluations bounded |
| network limiter | `src/netlimit.rs` | hits per address | `allow_at` | window edges, full table | bound in any interval, bounded memory |
| streaming encryption | `src/stream.rs` | chunk counter, look-ahead buffer | encrypt, decrypt | truncation, reordering, output before the end is verified | what is released is a prefix of what was sealed |
| randomness | `src/aleatorio.rs` | the buffer being filled | `llenar` | transient faults, retries, failed health test | never returns unfit bytes |
| self tests | `src/selftest.rs` | a once-only report | `ensure`, each check | re-entrancy, first use by several threads, a panic inside | nothing runs before the report, no call hangs |
| signer | `src/firmante/` | a PKCS#11 session | `por_etiqueta`, `firmar` | a token that fails at any call; objects that do not belong together | what is signed verifies, or an error |
| sealing pipelines | `src/api.rs`, `src/{kdf,cipher,pqhybrid,pqsign}.rs`, `crates/quipu-cnsa` | none | seal and open: passphrase, OPRF, recipient, signed | order of layers, headers bound to keys, two suites | only the owner opens, what is made opens |
| deniable container | `src/negacion.rs` | two regions of one file | `crear`, `abrir` | two volumes, sizes, work that shows | the hidden volume leaves no trace |
| honey, anti-guessing | `src/honey.rs`, `src/antihacker.rs` | none | `encrypt`, `decrypt` | modular digits, errors that tell | every phrase opens to something |
| service clients | `integrations/django`, `.../client.rs` | a memoised client | `encode`, `verify` | outages, changed keys | an outage is not a wrong password |
| paper | `crates/quipu-nucleo/src/papel.rs`, `ecc.rs` | symbols, typed text, words | print, read back, repair | which symbols can be lost, slips | repaired means equal |
| framing and codecs | `crates/padme-frame`, `crates/quipu-nucleo/src/{codec,container,dictionary,prelayers}.rs` | none | pad and unpad, encode and decode | boundaries | decode of encode is the identity |
| primitives | `crates/quipu-voprf`, vendored ciphers, `src/oprf.rs` | keys | | algebra | blinded and direct evaluation agree, a proof is for one key |
| laboratory, tools | `src/lab`, `src/hackerbot.rs`, `src/python.rs`, `herramientas`, `fuzz`, `examples/*` | | measurement, bindings | | not part of the product's logic |

How they interact: a client (Django hasher, `client.rs`, `src/api.rs`) sends a
blinded point to the service; `http.rs` asks `store.rs` whether the key may
evaluate, asks `ratelimit.rs` with the limits of the plan, evaluates, asks
`store.rs` to record the use and answers. Operators change the same database
from other processes. The service's key comes from a seed that `custodia.rs`
splits with `shamir.rs`. In the library, `api.rs` composes kdf, cipher, container
and codecs; `papel.rs` sits on `ecc.rs`; everything takes bytes from
`aleatorio.rs` and waits for `selftest.rs`.

## 2. The modules

| module | models | extends |
|---|---|---|
| `TokenBucket` | `ratelimit.rs` with the limits of `plans.rs` | |
| `BurstWindow` | the bucket seen through a window that opens at any moment | `TokenBucket` |
| `Store` | `store.rs`, one operator per SQL statement | `TokenBucket` |
| `Calendar` | the arithmetic of billing periods of `store.rs` | |
| `OprfService` | `http.rs` and `main.rs`: the processes that run those statements | `Store` |
| `KeyLedger` | abstract: what the service promises about a key | |
| `NetLimit` | `netlimit.rs`: the table of queries per address, seen through an interval that begins at any moment | |
| `LimitedDaemon` | the pool of the daemon around its limiter | `NetLimit` |
| `OprfDaemon` | `examples/oprf_server.rs` and the exchange of `oprf_net.rs`: acceptor, channel, workers, timeouts | |
| `StreamAead` | `stream.rs`: writers of several files, the storage, one reader | |
| `Entropy` | `aleatorio.rs`: one attempt, what is tried again, the health test | |
| `SelfTest` | `selftest.rs` and the operations that wait for it, in threads | `Entropy` |
| `Shamir` | `shamir.rs` over a field of any width | |
| `SeedCustody` | `custodia.rs`, `custodia-seed.rs`, `load_server_key` | `Shamir` |
| `Ecc` | `ecc.rs` over any block code that tells words apart as Reed-Solomon does | `Codec` |
| `Codec` | `codec.rs` and `dictionary.rs`: a change of base | |
| `Tecleable` | the forms of paper that are typed: Base32 and words | `Ecc` |
| `PaperBackup` | `papel.rs`: printings, cameras and typists | `Tecleable` |
| `Voprf` | `rfc9497.rs` over any group of prime order | |
| `Sealing` | `kdf.rs`, `padme-frame`, `container.rs` and the pipelines of a passphrase | `Voprf` |
| `Hybrid` | `pqhybrid.rs`, `pqsign.rs`, the pipelines of recipients and signatures, quipu-cnsa's | `Sealing` |
| `Signer` | `src/firmante`: keys in memory and in a PKCS#11 token | `Hybrid` |
| `Honey` | `honey.rs` | `Sealing` |
| `Negacion` | `negacion.rs` | `Sealing` |
| `Vault` | all that is sealed, kept for years, with the service and a Django site | `Signer`, `Honey`, `Negacion` |
| `*Proofs` | theorems | the module of that name |
| `MC*` | the instances TLC checks | |

Pure algorithms (`Shamir`, `Ecc`, `Codec`, `Voprf`, `Sealing` and those over
it) are operators; a module with variables puts them to use. An operator named
after a bug (with a comment `Bug:` or `defect`) is used by nothing: it is what
its neighbour would be with that bug, and `PROJECT.json` names the property that
tells the two apart.

### Token bucket

`bucket[k]` is the map entry `(tokens, last)`. The code's tokens are an `f64`;
here a token is `Scale` units and time is a tick, so fractions of a token exist
and rounding does not. `Entry`, `Topped`, `Admits` and `Spend` are the lines of
`allow` in order; a denied call writes the bucket too, as in the code.
`BurstWindow` adds per key a window (plan, start, calls admitted, restarts
inside it) that may be reopened at any moment, so an invariant about the window
is a statement about every interval.

### Store and service

`Store` has the three tables as functions over keys, customers and periods, and
one operator per SQL statement, each of them atomic and durable. `OprfService`
sequences them. The server is one thread (`http.rs` `serve`), so it has one
program counter:

    idle -> row -> usage -> limit -> record -> stamp -> reply -> idle
            \_______ verify ______/  |        \ record_usage /
                                     allow, then blind_evaluate

A refusal or an error leads back to `idle`. `verify` is two SELECTs,
`record_usage` two writes, and a sale two INSERTs (`key` is the state between
them when it comes over HTTP) with the quota in `granting`, which is looked up from
the plan asked for before the first. `Operators` are CLI processes, which take the
same statements at any moment. With `Faults`, any statement may fail. `Crash`
loses the buckets, the request and a half-made sale; `Restart` is systemd's
`Restart=on-failure`. `HandRaise` and `HandExpire` are what an operator may
write into a row with SQL: no shipped caller sets an expiry date, yet `verify`
reads it.

`served`, `undelivered`, `lost` and `late` are observers: they count answers and
change nothing.

Left out because it changes no state: requests refused before the store is
touched, read-only routes, wording. A key is its random prefix and `genuine`
says whether the presented secret hashes to the stored value; a collision of
two random ids is not modelled. `last_used_at` is written and never read.

`Store` needs of the billing period only that it does not go back with the
clock. `Calendar` is `civil_from_days` and `period_of`, and its assumption
`CalendarFollows` walks 400 years, day after day, with the calendar's own rules;
the runs take their periods from it.

### Network limiter

`hits` is the map, `NoEntry` an address it does not hold. One call of `allow` is
one action, `Admit` or `Deny`, because the daemon calls it under a mutex; a
denial keeps what the purge removed. `Purged`, `NoRoom`, `Fresh`, `Used` and
`Start` are the steps of `allow_at`. `since`, `count`, `last` and `denied` are
observers.

`LimitedDaemon` puts the pool around it. A worker asks the limiter at `Serve`,
before it reads anything; `Answer` comes when the client has sent its request,
any time later, and `Abandon` when it leaves. `evaluated` observes what reaches
an address in the same interval.

### Streaming encryption

The cipher is ideal: a block opens only under the key and the nonce it was
sealed with. A byte of ciphertext is its block and its place in it, a byte of
plaintext its file and place, so a container is a plain sequence of bytes that
the storage may cut anywhere. `enc[f]` is a run of `encrypt_stream`, one action
per iteration of its loop; its second buffer is the look-ahead, which
`LastChunk` states as what is left of the file. When the writers have stopped,
`Deliver` (external) builds a container out of any header and a few pieces of
blocks, each cut at any byte, and `decrypt_stream` reads it, again one action
per iteration: `OpenChunk` releases a chunk before the end of the container has
been seen. A wrong passphrase or an altered header derives another key or other
associated data: that is the `Foreign` header. Every read and write may fail,
a write after any part of the chunk.

### Network daemon

The acceptor appends to `queue`, the channel. A worker goes

    idle -> receive -> limit -> talk -> idle

taking `rxLock` at `Lock` and dropping it when `recv` returns (`Receive`), as
the code's temporary guard does. In `talk` it reads the request and writes the
reply; a step of `Read` or `Write` is one system call and moves one or more
bytes, and the wait for the next has the whole timeout again (`left`). `End` is
the return from `serve`, which drops the connection. Computing takes no time, so
`Tick` happens when every worker waits for a client, the queue or another
worker. `held` is an observer. What the limiter answers and the bytes
themselves are left out: neither changes what a worker does next.

### Randomness and self-test

`Entropy` says which errors of the system are tried again and how often, and
which buffer is stuck. In `SelfTest` a thread that calls an operation finds a
report, waits for the thread that is in `get_or_init`, or runs the checks
itself. Each draw of a check or an operation is a step of its own, so the system
may fail at any of them. `Check` records how many buffers each draws and whether
it reports or panics when it gets none: the panic leaves the `OnceLock` empty
and the next caller begins again. Generating keys inside the checks calls the
inner functions, which do not ask for the self-test; that is why the model's
checks never go back to `ensure`. What a machine gets wrong (`broken`) is chosen
at the start. The vectors themselves are data.

### Seed custody

`split` and `combine` are polynomials over GF(2^Width), whose elements are
numbers. `Rounds` is the loop of `gf_mul` from any round on, with what is left of
the second factor (with none left, no round changes the result); `Raised` that of
`gf_inv`; `Horner` a step of `split`'s inner loop; `Lagrange` the two products over
all other points, which stand as 1 at the point itself. A restoration takes any
set of shares kept (of two splits, perhaps of another service's seed, one
perhaps damaged) in any order, and compares the public key of what comes out.
`env` is the service's configuration, which is lost or badly copied by
`Misconfigure`, and `Start` is `load_server_key` with its three outcomes: the
seed's key, no start, or an ephemeral key.

### Paper

Bytes are numbers below `Radix`, of data and of parity alike. The block code of the
library is the constant `Check`, the parity bytes of some data; all that is assumed of
it is `IsCode`: words of one length differ in more bytes than they have of parity. The
decoder (`Corrected`) answers with the word within half the parity of what it is
given, whether or not it is the one that was written, or fails. The instance TLC runs
is a real Reed-Solomon code: `Rest` in `MCPaperBackup` is the division by the
generator polynomial over GF(8), in the field of `Shamir`. A letter is `SymbolBits`
bits and those of a stream are regrouped, so a letter may lie in two bytes and one
left out shifts what follows. Everything around (blocks, header, interleaving over
symbols, ceilings on lengths, who is coherent with whom) is the code's. A camera reads
any set of symbols, the same twice, one of another printing or of none (`ScanStray`).
A typist makes any of six slips, up to `MaxSlips`, with any letter for any other, in
Base32 with or without error correction or in the symbols of a dictionary, and cuts,
swaps and replaces words. `leer_palabras` finds words by prefix and compares the
checksum.

### Vault

Ciphers, derivations and hashes are ideal: a key is the tuple of what it was
derived from, and a body opens only with the key, nonce and associated data it
was sealed with. What remains is what the pipelines do: which header is bound,
what enters which key, in which order things are refused, which suite's labels
are used. An artifact of the shelf carries its `promises`, what it owes to which
credentials. `Damage` changes one field of a header, a body or half a signature,
to garbage or to another artifact's, and `Open` opens anything as anything. A
signature promises each half by itself, and the whole key only if whoever signed
has all its halves: a token may have two keys of different pairs under one label
(`SoundHalves`). The
OPRF is algebra: an element is its discrete logarithm, and the service may be
down, deny, change its key, answer with what another asked (`crossed`) or with
what is no element. `Draws` are the client's random scalars, zero among them.
The token of `Signer` holds labelled objects of any pairing and may fail at any
of its eight calls. The Django site reads its settings when its client is first
needed and keeps that client until `reset_client`.

A deniable container is kept with its twin without a hidden volume, made of the
same inputs, so that "leaves no trace" compares two containers. Work is counted in
encryptions: `WorkOfMaking` reads off the frames `crear` makes, for the decoy and for
the hidden volume or what stands in its place, which of them it stretches a passphrase
for and seals; `WorkOfOpening` is what `abrir` spends on each profile it tries, which
depends on nothing but the hint.

## 3. What the runs check

| run | instance | shows |
|---|---|---|
| `burst` | one key, two plans, a token of 3 units, 6 ticks, 2 restarts | the limiter's bound in every interval and that no denial is unjust |
| `service` | one key of either plan, its customer, server and one CLI process, faults, expiry, three seconds around the New Year that begins 2025, under fairness | quota never overcharged, at most one late answer, accounts balance, a key grants what was sold, only issued keys take memory, refinement of `KeyLedger`, the server always comes back to `idle` |
| `netlimit` | two addresses and a table for one, two queries a window of one tick, 4 ticks, two workers | what any interval admits and evaluates, that denials are explained |
| `stream` | chunks and tags of 2 bytes, counters 0 and 1, a file of 0 to 7 bytes and one of 3, containers of up to 3 pieces | nonces, prefixes, truncation, intact files |
| `daemon` | two workers, three clients that come back for ever, a request of 2 bytes, a reply of 2, a timeout of 2 ticks | no connection lost or served twice, how long a worker is held, every connection ends |
| `selftest` | two threads, two attempts, buffers of three bytes, machines that fail no check, the first or a late one | nothing before a passed report, nothing made of stuck bytes, no call hangs |
| `seed` | the field of four elements, thresholds 1 to 3 of three shares, two splits, one damage, one ephemeral start | enough shares restore, fewer tell nothing, never another seed's key |
| `vault` | two artifacts of one of eight formats, one damage, a group of order 101 | only the owner opens, what is sane opens, no trace of a hidden volume, honey tells nothing, an outage is no wrong password |
| `vault_params` | as `vault`, one artifact | **violated**: what is sealed with costs Argon2 takes and the reader refuses never opens |
| `paper` | Reed-Solomon over GF(8), blocks of 5 bytes of 3 bits, a header of 7, documents of up to 3, two printings, two slips, letters of 2 bits, dictionaries of three symbols and a machine word of 16 | the promised loss reads, parts are coherent, what is mistyped is corrected as far as the code corrects, only spacing is free, phrases are canonical |
| `paper_invented` | as `paper`, one printing | **violated**: missing symbols become zeros, zeros are a word of the code, and a document of zeros is returned |
| `paper_mistyped` | as `paper`, text under error correction and one slip | **violated**: with the least parity one wrong letter turns a document into another, without an error |

Where TLAPS proves a module's type invariant (`TypeCorrect`), no run repeats it,
but for `SelfTest` and `Vault`.

Bounds, and why they are enough:

* `MaxTime` bounds the clock. In `service` the period, the year's end, turns
  between the second and the third second, at any point of a request, and time
  passes within a period too.
* A quota of 1 or 2 and a burst of 2 or 3 let each limit be reached while the
  other still has room.
* `MaxLost` bounds failed usage records per key and period; one is enough to
  deliver past a quota, and only that count is bounded, not when it happens.
* `KeyRemains` starts a sale only while an unissued key is left for it. In the
  code the supply of 256-bit keys does not end.
* `MaxBoots` bounds restarts inside one window of the limiter.
* One key suffices in `service`: a handler touches only the rows and the bucket of
  its own key, and its customer is made for it. It may be of either plan, and the
  server or the CLI may sell it, fail or crash between the two statements, and the
  other works on meanwhile. That two keys of two customers are never
  mixed is the theorem `SalesMatch`; no run has two keys.
* `netlimit`: the table is full with one address outside it; four ticks hold
  complete windows of one address, for a window to expire, be purged and start
  again while a worker still holds what the one before admitted. Addresses and
  workers are interchangeable.
* `stream`: 0 to 7 bytes are an empty file, a short chunk, exactly one chunk,
  exactly two (the counter's last value) and more than the counter can number.
  Both files have a block with the same counter and flag, so that only the key
  tells them apart. Three pieces hold the longest complete container and one
  block more, or its blocks in any other order.
* `daemon`: one client more than workers, so that a connection waits while all
  are busy. Two bytes each way are the least that can be trickled. Clients
  reconnect without limit, so the queue is never at rest.
* `selftest`: one thread runs the checks while the other waits; two attempts are
  a first and a last one. Calls repeat without limit.
* `seed`: two splits are the service's and another's, or two of the service's;
  `MaxGiven` shares may be of both. The field has an element that is no index.
  `Values` bounds the coefficients drawn for what is delivered; `FewerTellNothing`
  counts over all of them. A restoration is tried when the machine is lost.
* `vault`: whatever is mixed needs two artifacts, and those of different formats
  differ in their magic, which `Damage` sets to every other format's. `SameOwners`
  gives two containers of a passphrase the same credentials: other credentials
  are tried at every opening anyway. What never asks the service is done while it
  is at rest (`Quiet`, `SiteAtRest`), because no such call reads its state. What
  was hardened online and what a site keeps is one artifact, not damaged: its
  container is that of `Encode`. A call answers before the next (`Answer`), since
  calls of the library share nothing. `LengthWrap` is 2 so that a signed message
  exceeds it.
* `paper`: a capacity of the heading alone, which is refused, of one byte more (seven
  symbols of one byte, the header of the empty document; longer ones need more
  symbols than there may be, and are refused) and of four more, so that symbols are
  as many as the header has bytes and fewer; parity below the least there is, odd,
  the most there is, and more than is allowed; documents of no block, of part of one and of two.
  `MaxAgain` bounds readings
  in which a stray or a second reading takes part. Reading order is one list and
  its reverse: everything is compared with the first read. `MaxTwice` is the
  longest text with a second slip: the guarded text of one byte with the most parity, so that two wrong
  letters, or one and a shift, meet in one block.
* `paper_invented` and `paper_mistyped` have the least parity, two bytes. The header's
  code and the blocks' are of the same field as in `paper`.
Fairness: `WF(Handle)` because the one thread runs its handler without waiting
for anybody (a locked database is a failed statement after the driver's busy
timeout), and `WF(Restart)` because the unit file says `Restart=on-failure`.
Nothing else is fair: crashes, operators, time and clients may stop or never
act. Reading a request's body has no timeout in the code, so the property
starts at requests that were read.

In `OprfDaemon` threads run (`WF` of each worker's steps), but `Lock` is fair
only to the workers together, because the mutex promises no order among them.
`SF(Tick)`: the clock is not a thread that traffic can starve. With weak
fairness clients that connect and leave for ever without time passing keep a
silent one from its timeout, which is an artefact of the model and not a
behaviour of the program.

In `SelfTest` every thread runs (`WF(Step(t))`); nobody has to call. Which of
the waiting threads a released `OnceLock` lets in is left open, so a waiter is
only promised its turn once there is a report.

`CHECK_DEADLOCK FALSE` is said of `stream` (writers and reader end) and `paper`
(everything read and typed, with no slip left).

Assumed and not checked: the wall clock does not go backwards, one server
process uses the database, SQLite statements are atomic and durable, and what
the modules say of the ideal primitives.

### What the checks found

`vault_params`, `paper_invented` and `paper_mistyped` are in `PROJECT.json` as
findings. Of the last: parity 0, 1 and 2 all mean two bytes per block (`ecc.rs:125`),
whose words differ in three. A letter's five bits may lie in two bytes, and two wrong
bytes may leave a block one byte from the word of another document, which `recover`
(`ecc.rs:186`) takes and nothing checks. `GuardedTextIsCorrected` states what does
hold: from parity 3 on one wrong letter is never read as something else, from 4 on
it is corrected, and whatever was typed is read right while the wrong bytes are no
more than the code corrects. Beyond that another document may come out at any parity.

Other places where the code and what is written of it differ, or that a caller should
know; each was seen while modelling and none has a run of its own:

* The quota is hard only while `record_usage` succeeds: its error is discarded
  (`http.rs:178`, `plans.rs:23`). The model counts such answers in `lost`.
* 409 "revoked" is also the answer for a key that never existed (`http.rs:261`).
* A restored backup of the database brings a revoked key back (`store.rs:203`).
* The limiter's window is fixed, not sliding: two allowances fit in one window's
  length (`netlimit.rs:29`, `:60`). `IntervalBound` states what does hold.
* The daemon's timeout is for each read and write, so a client that trickles
  holds a worker longer (`examples/oprf_server.rs:62`). `HeldAtMostPerByte`
  states how long.
* The self-test panics where a machine has no randomness (`pqsign.rs:101`),
  though `selftest.rs:330` would report it.
* A seed that is set but is not Unicode counts as absent (`main.rs:43`): the service
  starts with an ephemeral key, though `main.rs:55` says that a seed that does not
  serve must stop it. No client that pinned the key accepts what it answers, which
  is why `NeverAnotherKey` is about keys of seeds.
* A clock set back charges an earlier billing period (`store.rs:69`).
* `harden` blinds the passphrase as it was typed, not its normal form
  (`api.rs:256`), so with the OPRF another keyboard's spelling does not open.
* A client of `evaluate_remote_verified` waits without a timeout
  (`oprf_net.rs:94`).
* Objects of two pairs under one PKCS#11 label sign what nobody can verify: only
  lengths are checked. `EncodeSignedConCustodio` promises nothing for them.
* `decode_base_n` drops the first byte without looking whether it is the marker.
* `load_or_create_seed` of the demo daemon writes a new seed over a file it
  cannot read as one (`examples/oprf_server.rs:38`).
* Symbols of two printings of one length are accepted as one (`papel.rs:290`).

## 4. What is proved

All with TLAPS, for every value of the constants allowed by the named
assumptions of the modules: `BucketAssumption`, `WindowAssumption`,
`StoreAssumption`, `ServiceAssumption`, `NoRequestAssumption`,
`NetLimitAssumption`, `PoolAssumption`, `StreamAssumption`, `DaemonAssumption`,
`ShamirAssumption`, `FieldAssumption`, `CustodyAssumption`, `EntropyAssumption`,
`SelfTestAssumption`, and under `Vault` also `VoprfAssumption`,
`SealingAssumption`, `HybridAssumption`, `HoneyAssumption`,
`NegacionAssumption`, `VaultAssumption`, `SizesAssumption`, `KeysAssumption`
and `SoundnessAssumption`, under `PaperBackup` `EccAssumption`,
`TecleableAssumption`, `CodecAssumption` and `PaperAssumption`, and
`CalendarFollows` for the calendar. The runs check these assumptions of their instances, and
those of the other modules. Most say what sort of thing a constant is. Those that
say more:

* `SoundnessAssumption`: a proof of the OPRF service that verifies under the
  pinned key is of what was asked and was made with that key. It is what the
  soundness of a DLEQ proof means in an ideal model, where the challenge is a
  hash that could hit the right value by chance; in a group of order 101 it can,
  and the instance TLC checks has no such collision.
* `KeysAssumption`: no service has the key zero (`main.rs` does not start with
  one: `derive_key_pair` ends in an error).
* `VoprfAssumption`: the order has no zero divisors, which is all that is used
  of its being prime.
* `NegacionAssumption`: the ladder's profiles are sane, and the least size has
  room for the salt and two regions with a tag and a length each; both are facts
  about constants of `negacion.rs`. And a frame of no more than its length field is
  not padded (`padded_len` of 4 bytes is 4).
* `EccAssumption`: `IsCode`, of the header and of every block: words differ in more
  bytes than the parity has, as those of a Reed-Solomon code do (they differ in one
  more). The header's parity corrects two bytes at least (5 in `ecc.rs`), and a
  parity fits in a byte.
* `TecleableAssumption`: a byte is what `ByteBits` bits write, and a symbol of Base32
  has fewer (5 and 8), so that less than a byte is padding; the list has as many words as `WordBits` bits can
  number, told apart by their first `Enough` letters (the test
  `cuatro_letras_bastan` of `papel.rs` says it of the list and four letters);
  and secrets of two sizes never have phrases of one length (`TAMANOS`: 12 to 24
  words).
* `PaperAssumption`: documents are bytes, and a dictionary is a list with fewer
  symbols than a machine word counts (`codec.rs` counts them in a `u64`).
* `FieldAssumption`: every element but 0 has the inverse that `gf_inv` computes.
  It depends on the polynomial, and the code's own test
  `gf_inv_invierte_todo_elemento_no_nulo` says it of 0x11B. TLC evaluates it for
  the field of four elements of `seed` and, in `MCSelfTest`, for the bytes with
  0x11B, together with the products of the test
  `gf_mul_coincide_con_el_vector_conocido_de_aes`. So what is proved holds of the
  field the code uses.
* `CustodyAssumption`: all seeds have one length (32 bytes in the code), and
  thresholds and numbers of shares are elements of the field (a `u8` each).
* `CalendarFollows`: the calendar is right for four hundred years, which TLC
  evaluates for this very calendar: it has no constants.

`OprfServiceProofs`, of the burst limiter (`BurstWindow`): `WindowTypeCorrect`,
`BurstBounded`, `NoUnjustifiedDenial`. The
bound is not inductive by itself. The invariant adds that calls admitted plus
the tokens still in the bucket, topped up to now, are within the bound, and
that a denial leaves less than a token together with everything credited since
the last admitted call.

Of the calendar: `PeriodsNeverGoBack`, in any year, which is what
`StoreAssumption` asks of `PeriodOf`. From one cycle of `CalendarFollows` every month
is one of twelve and the next day is not of an earlier month; four centuries
later a day is of the same month, 400 years on (`FourCenturiesOn`).

Of the service: `TypeCorrect`, `NeverOvercharged`, `AccountsBalance`,
`OneLateAnswer`, `SalesMatch`, `BucketsOfIssuedKeys`, and `ImplementsLedger`
(the refinement of `KeyLedger`). The inductive invariant `IInv` adds to those:

* `RoomToCharge`: between the quota check and the charge the checked room is
  still there, in whatever period the charge will fall. When the period turns
  it needs `FutureUncharged` (nothing is charged to a period that has not
  begun), `RowsAreWhole` (a row has a quota above zero) and `ServesIssuedKeys`.
* `LateMeansClosed`: a key that had its late answer is neither usable nor in
  the server. Hence there is no second one.
* `MintingIsPrivate`: a customer whose key is not issued yet belongs to one
  process and to no key.
* `BucketsPast`: no bucket was stamped in the future.

`LimitedDaemonProofs`, of the limiter: `TypeCorrect`, `IntervalsBounded`,
`TableBounded`, `DenialsExplained`. The bound needs `EntryAccounts`: an entry
older than the interval has counted everything in it; a younger one has counted
all but whole allowances, one for each window's length before it; an address
without an entry has only those behind it. `FreshPaid` is the heart: when a
window is over, the interval has grown by more than a window, which pays for the
allowance used. Of the pool: `DaemonUsesLimiter` (the pool is a user of the
limiter and of nothing else, so all of that holds of it) and
`EvaluationsAreBounded`. The invariant `Owed` says that what was evaluated in the
interval, and what workers still read with leave, was admitted in it or was in a
worker's hands when it began.

`StreamAeadProofs`: `TypeCorrect`, `NoNonceTwice`, `OnlyPrefixes`,
`OkOnlyForWholeFiles`. The invariant says that a block's counter fixes its place
in the file and its flag its size (`BlocksInPlace`), which needs writers never to
pass the counter's limit (`WritersInPlace`), and that the reader has released
exactly the chunks its counter has passed (`ReaderInPlace`). It says nothing of
the container's bytes, so it holds for whatever the storage returns.
`IntactIsNotRefused` is the converse and does speak of the bytes: it needs
`IntactReads`, which follows the reader through a container that is what a writer
wrote, block by block, up to the one flagged last.

`OprfDaemonProofs`: `TypeCorrect`, `WorkersReleased`, `QueueServed`, `OnePlace`.
The invariant says that the bytes moved have paid for the time a worker was held,
with the wait under way paid by the byte it waits for (`PaidByBytes`), and that
the mutex is held exactly by the worker in `receive` (`LockHeldToReceive`).
`OnePlace` rests on an invariant of its own, `Placed`: the queue has no
repetitions, and who is in it or with a worker is what `conn` says.

`SeedCustodyProofs`: `TypeCorrect`, `OwnKeyOnly`,
`EnoughAlwaysRestore`, `FewerAlwaysTellNothing`, and of the sharing alone
`FieldIsARing`, `CombineRestores`, `OneDealOfAnySecret`, for any width of the field.
The algebra, in the order of the module:

* *The ring.* `gf_mul` is a loop of shifts. `RoundOut` turns the loop inside out
  (the shift of the first factor becomes one of the product), from which both
  factors are linear, may change places and be grouped at will. That the reduction
  is right is `ModulusIsZero`: the polynomial itself, as second factor, gives 0.
  It needs no property of the polynomial. Where the definitions recur
  (`Power`, `Xor`, `Rounds`, `Raised`, `Joined`), `Recursion` proves
  that they have values: a falling rank defines one function. Induction is by the
  least element of a set of numbers (`Induction`).
* *The field.* `FieldAssumption` adds inverses, and so no product of elements is 0
  but of 0 (`Cancel`).
* *Interpolation.* `WeightWithout`: one point less changes Lagrange's coefficient by
  one factor. `TimesVariable`: hence x times some values interpolates to one
  of the points times the sum of what the values do with and without that point;
  where the two agree, as for a polynomial of low degree, that is 0. `OnesAtZero`: the coefficients
  add up to 1. `ConstantTerms` follows Horner's rule with that, coefficient
  by coefficient: what `combine` sums up is the constant term.
* *Secrecy.* Polynomials that agree at as many points as they have coefficients
  are the same (`SameCoefficients`); there are as many lists of coefficients as
  lists of values, so some coefficients fit any values with any secret (`OneFits`).

Of the service, the inductive invariant is

    IInv == KeyInv /\ Delivered /\ EnoughSharesRestore

`OnlyOwn`, in `KeyInv`, adds to the key served the configuration and the last
restoration: only the service's own seed is ever in either. `Delivered` says
of each split that there is one deal, of the field's coefficients, of which all
its undamaged shares are: damage takes shares away from it, another split has
another number. `EnoughSharesRestore` alone says nothing of shares that are not yet
brought. That `cmd_repartir` delivers nothing before it has restored the seed once
is not used: the check there guards against faults the model has not.

`SelfTestProofs`: `TypeCorrect`, `NoWorkBeforeThePass`, `NoStuckBytes`. The
invariant says that the checks a run has passed are none of those this machine
fails, as long as the run has not failed (`ChecksSoFar`), that one thread at most
is inside `get_or_init`, and that all buffers in a thread's hands were tested
(`HealthyDraws`). `HealthyNeverStuck` is of the health test alone: a buffer
that passes is not one byte repeated. It is by induction on how far a run of
equal bytes is counted.

`VaultProofs`: `TypeCorrect`, `OwnersOnly`, `OutagesAreNotWrongPasswords`,
`HoneyKeepsItsSecret`, `NoTraceOfTheHidden`, `NothingOrphaned`, for any number of
artifacts and of damages. The inductive invariant is

    IInv == TypeOK /\ OneFormat /\ Provenance /\ Twins /\ Logins

* `Provenance` is the heart: whatever was damaged and mixed up, each body (each
  half of a signature, each region, each field) is noise or was made by an
  operation, from inputs for which there is a promise on the shelf. It says
  nothing of which header it stands under. So damage, which only moves what
  there is, preserves it, and `OwnersOnly` has to show of every reader that what
  opens under any header is a body with one origin, for the credentials tried.
* `Twins`: a deniable container nobody touched is what `crear` made, and so its
  twin. `NoTraceOfTheHidden` then compares the two openings profile by profile:
  who lacks the hidden passphrase gets the same from `intentar` at each, because
  neither region of one opens where that of the other does not.
* `Logins`: a record holds what the pinned key makes of its passphrase. With
  `SoundnessAssumption` an answer that `harden` accepts is that value again; the
  blind cancels because blinding is multiplication by a unit (`Unblinded`).
* `OneFormat` says that a shelf holds artifacts of one format, as `Room` has it.

`NothingOrphaned` is the converse of `OwnersOnly`, the theorem of
`WhatIsSaneOpens`: what nobody damaged opens. It needs a second invariant, `Made`:
every intact artifact is what its operation made of some inputs, and promises
exactly those (of a signature, the whole key only if each half is that key's:
`CustodianHalves`, `SignedFor`). Then one lemma for each format says that the reader
undoes the writer (`SealedPays`, `RecipientPays`, `CnsaPays`, `SignedPays`,
`HoneyPays`, `DeniablePays`, `LoginPays`). A frame comes out whole because
`PaddingNeverShrinks`; a honey token because adding a digit modulo the alphabet and
taking it away is nothing (`TokenReturns`); a deniable container because no other
profile of the ladder opens it before its own does (`IntentarPays`); a login, and
what the service hardened, because of `SoundnessAssumption`. Where the property
says `Readable`, the proof does need it: costs outside `is_sane` lose the data, as
the run `vault_params` shows, and a signed message longer than its length field can
count is refused by `decode_verified`.

`CanonicalSize` is of `tamano_canonico`: it holds what was asked and two volumes,
is a power of two and tells what was asked to within a factor of two.
`PaddingNeverShrinks` is of `padded_len`, for every length: the property test of
`padme-frame` with the same name, which samples lengths. Its induction, over the
powers of two, is done by the least element of a set of numbers.

`PaperBackupProofs`: `TypeCorrect`, `PartsOfOneCohere`, `ToleratedLossReads`,
`PhrasesAlwaysCanonical`, `OnlySpacingIsAlwaysFree`, for any document, capacity,
parity, size of block, word list and dictionary, any loss, any strays and any number
of slips; and `GuardedTextAlwaysCorrected`, for any of those, any number of slips
and any code that `EccAssumption` allows. Of the operators alone:
`ErrorsWithinParityCostNothing` (`ecc.rs`), `DecodingUndoesEncoding` (`codec.rs`)
and `Base32Recodes` (`papel.rs`).
The inductive invariant of symbols is

    IInv == Printings /\ Hands /\ Readings

that every printing is all the parts of the stream of one document, that the hand
is finite and holds parts of printings and strays, and that the last reading was of
what is in hand. The argument for `ToleratedLossReads` has three parts:

* `AssembledIsHoled`: in any order of reading, what is assembled from parts of one
  printing is its stream with a zero wherever a part is missing.
* `LostInWindow`, `ToleratedIsEnough`: a printing of `total` symbols deals its stream
  out in turn, so a missing symbol takes at most `ceil(n / total)` of any `n` cells
  in a row. The number told to whoever prints keeps this within what the header
  and every block correct.
* `Recovers`: with that few errors in each, `recover` finds the one header near
  enough, cuts the stream as `protect` laid it, and gets each block's one word.
  Lengths, offsets and the last, shorter block are where this could go wrong.

What is typed has three invariants of its own,

    WordsInv == Slipped /\ Typed /\ WordsAreRead
    TextInv  == Origin /\ Kept /\ Doubtful /\ TextIsRead
    GuardedInv == text # NoText /\ text.frame.kind = "guarded" => InChars /\ OneWrong

of which the first says that as long as words were only cut, each is the beginning
of the word written, with enough letters; the second that as long as only spacing was
added, the letters and digits are those written. Both end with the last reading
being of what is typed now. The third, of text under error correction, says that
after any slips it is still a text of characters, and after one wrong letter the text
written with that one letter replaced. It says nothing of the bytes: how far those are
from a word is in the property itself.

* *Words.* A beginning with enough letters is of one word of the list, because the
  list is told apart by them; the word's place gives back its bits (`Power`: a
  number below it has one writing in so many bits). Phrases of two sizes have
  two lengths, so the length tells the secret from its checksum. A phrase that is
  read has the checksum of the secret it spells, and so is that secret's own
  phrase, whatever the digest (`OnlyPhrasesAreRead`).
* *Bases.* `encode_base_n` divides by as much of the base at a time as a machine
  word holds. `WritesMore`, `DigitsWrite`: the digits that come out, chunk by chunk,
  write the number of the bytes, without a zero in front; `decode_base_n` raises
  that number again, and the one in front of it keeps the zeros the data begins with.
* *Base32.* `a_cinco_bits` lays the bits of all bytes in a row and cuts it in
  symbols; flattened again, it is that row with padding, less than a symbol and
  so less than a byte, and `de_cinco_bits` drops what does not fill a byte
  (`Base32Recodes`).
* *Spacing.* A skipped character joins as nothing wherever it was put
  (`SkippedIsFree`). In the symbols of a dictionary a space is no symbol
  (`UnclearIsRefused`).
* *Mistakes.* What lies within half the parity of a word, or of the odd byte more,
  lies within half the parity of no other (`BothNear`), so the decoder's answer there
  is the word written or none (`BlockFound`). `Within`, the damage the property
  allows, is carried over header and blocks (`HeaderDamage`, `BlockDamage`), and there
  `recover` finds the header, the same cuts and each block's word (`Recovers`), or
  fails (`RecoversNoOther`); together, `WithinReads`. One wrong symbol changes only
  the bytes its bits lie in (`WrongCells`), which are two at most (`TwoAtMost`,
  `TouchingCells`), so that every block with four bytes of parity, and the header,
  corrects them, and with three cannot mistake them (`WrongIsWithin`).

From there a document without a guard is what the decoding returns, and one with
error correction is what `Recovers` makes of it.

What the attempts to prove this corrected: the damage counter's conjunct of
`Vault.TypeOK` was true of one damage only. `OnlyTheOwnerOpens` was false of two
tokens each with one unsound half: what both signed can be put together from the
sound halves, and verifies, though no token had promised it; a signature now
promises each half by itself. That no proof of the service verifies by chance had
been a property of the instance; now it is an assumption that says so.

Only model-checked:

* `ServerComesBack`, `EveryConnectionEnds` and `EveryCallEnds`: liveness under
  fairness is out of the prover's reach.
* That the Reed-Solomon code of the library is a code in the sense of `IsCode`. TLC
  evaluates it for the code of the instance, with its real arithmetic.

## 5. Not modelled, and the plan

The map covers about 17% of the lines of the repository and about 43% of its
code without unit tests, `tests/`, the laboratory, examples and bindings, which
are most of the rest. Of that code, what remains is mostly `Display` of errors,
the reading and writing of keys and headers byte by byte, constructors and
configuration.

Not modelled, with the reason:

* `src/oprf.rs`: deprecated in favour of `quipu-voprf`.
* `prelayers.rs`, the dictionaries' alphabets and the known-answer vectors:
  constants. `encode_grupos`: no code of the product calls it.
* The ciphers, hashes, Argon2, ML-KEM, ML-DSA and curves, and Reed-Solomon
  itself: ideal functions. Whether random bytes look like sealed ones is
  assumed of the cipher.
* `antihacker.rs`: clears memory and compares in constant time, of which a
  state machine has no notion.
* Serialisation of keys, QR drawing, dictionary files: conversions of layout.
* `firmar_con_comparticiones`: `combine` and then `firmar`, each modelled.
* `load_or_create_seed` of the demo daemon: one process, one file, before any
  thread exists.
* How long a client waits, and the reading of an HTTP body: no timeout is
  configured, so there is nothing to promise.
* The laboratory, `hackerbot.rs`, bindings, fuzzing, `herramientas`: measure or
  wrap the product and are not its logic.

Nothing of the plan is left but what section 4 lists as only model-checked.
