------------------------------ MODULE KnownHosts ------------------------------
(***************************************************************************)
(* Trust on first use (internal/ssh/service.go): the fingerprints every    *)
(* dial of the process shares, and the file they outlive it in.  A dial    *)
(* looks its host up and, on first use, remembers the key, takes a copy of *)
(* the map and rewrites the file; the mutex covers each of these alone and *)
(* the rewriting not at all.  The file lies in the directory of the key    *)
(* store (cmd/api/main.go), where "known_hosts" is a name a key may have:  *)
(* a request can remove the file, or put a key in its place.               *)
(***************************************************************************)
EXTENDS Naturals

CONSTANTS
  Hosts,        \* "host:port" of the registered servers
  Keys,         \* fingerprints
  Dialers,      \* dials that may be under way together
  MaxTroubles   \* bound on failing writes, changes of a host's key and restarts

VARIABLES
  presents,     \* host -> the key its server has now
  knownHosts,   \* Service.knownHosts, Nothing without an entry
  file,         \* known_hosts, line by line: a key, Nothing or Torn
  onDisk,       \* whether there is a file of that name
  adding,       \* a key is being added under that name: no, looked, opened
  pc, host,     \* dialer -> where it stands, whom it dials
  offered,      \* dialer -> the key it was shown
  hosts,        \* dialer -> the copy it writes to the file
  accepted,     \* history: host -> keys accepted from it
  disturbed,    \* history: first uses overlapped, or one was cut short
  wiped,        \* history: the key store took lines from the file, or a
                \* restart has taken them from memory since
  troubles

dialer == <<pc, host, offered, hosts>>
disk == <<file, onDisk, adding>>
history == <<accepted, disturbed, wiped>>
vars == <<presents, knownHosts, disk, dialer, history, troubles>>

Nothing == "nothing"
Torn == "torn"
Empty == [h \in Hosts |-> Nothing]
FirstUse(d) == pc[d] \in {"unknown", "remembered", "copied", "truncated", "unlinked"}
Trouble == troubles < MaxTroubles /\ troubles' = troubles + 1

Goto(d, from, to) == pc[d] = from /\ pc' = [pc EXCEPT ![d] = to]

Init ==
  /\ presents \in [Hosts -> Keys]
  /\ knownHosts = Empty /\ file = Empty /\ onDisk = "absent" /\ adding = "no"
  /\ pc = [d \in Dialers |-> "idle"] /\ host = [d \in Dialers |-> Nothing]
  /\ offered = [d \in Dialers |-> Nothing] /\ hosts = [d \in Dialers |-> Empty]
  /\ accepted = [h \in Hosts |-> {}] /\ disturbed = FALSE /\ wiped = "no"
  /\ troubles = 0

-----------------------------------------------------------------------------
\* dial, DialClient, NewTerminalSession: the handshake shows the host's key.
Dial(d, h) ==
  /\ Goto(d, "idle", "shown")
  /\ host' = [host EXCEPT ![d] = h]
  /\ offered' = [offered EXCEPT ![d] = presents[h]]
  /\ UNCHANGED <<presents, knownHosts, disk, hosts, history, troubles>>

Settle(d) ==
  /\ pc' = [pc EXCEPT ![d] = "idle"]
  /\ host' = [host EXCEPT ![d] = Nothing]
  /\ offered' = [offered EXCEPT ![d] = Nothing]
  /\ hosts' = [hosts EXCEPT ![d] = Empty]

Accept(d) == Settle(d) /\ accepted' = [accepted EXCEPT ![host[d]] = @ \union {offered[d]}]

\* Slip: the key is remembered in memory alone.
LookupTrusts(d) ==
  /\ pc[d] = "shown"
  /\ IF knownHosts[host[d]] = Nothing
     THEN knownHosts' = [knownHosts EXCEPT ![host[d]] = offered[d]] /\ Accept(d)
     ELSE /\ IF knownHosts[host[d]] = offered[d] THEN Accept(d)
                                                 ELSE Settle(d) /\ UNCHANGED accepted
          /\ UNCHANGED knownHosts
  /\ UNCHANGED <<presents, disk, disturbed, wiped, troubles>>

\* hostKeyCallback: the lookup, under the mutex.
Lookup(d) ==
  /\ pc[d] = "shown"
  /\ IF knownHosts[host[d]] = Nothing
     THEN /\ Goto(d, "shown", "unknown")
          /\ disturbed' = (disturbed \/ \E e \in Dialers : FirstUse(e))
          /\ UNCHANGED <<host, offered, hosts, accepted>>
     ELSE /\ IF knownHosts[host[d]] = offered[d] THEN Accept(d)
                                                 ELSE Settle(d) /\ UNCHANGED accepted
          /\ UNCHANGED disturbed
  /\ UNCHANGED <<presents, knownHosts, disk, wiped, troubles>>

\* hostKeyCallback: the mutex again, for the new entry.
Remember(d) ==
  /\ Goto(d, "unknown", "remembered")
  /\ knownHosts' = [knownHosts EXCEPT ![host[d]] = offered[d]]
  /\ UNCHANGED <<presents, disk, host, offered, hosts, history, troubles>>

\* saveKnownHosts: a copy of the map, under the mutex ...
Copy(d) ==
  /\ Goto(d, "remembered", "copied")
  /\ hosts' = [hosts EXCEPT ![d] = knownHosts]
  /\ UNCHANGED <<presents, knownHosts, disk, host, offered, history, troubles>>

\* ... os.WriteFile without it: the file is emptied ...
Truncate(d) ==
  /\ Goto(d, "copied", "truncated")
  /\ file' = Empty /\ onDisk' = "present"
  /\ UNCHANGED <<presents, knownHosts, adding, host, offered, hosts, history, troubles>>

\* ... and filled, over what another may have written in between.
Fill(d) ==
  /\ pc[d] = "truncated" /\ Accept(d)
  /\ file' \in {[h \in Hosts |-> IF h \in mixed THEN Torn
                                 ELSE IF h \in left THEN file[h] ELSE hosts[d][h]] :
                  mixed \in {{}} \union {{h} : h \in {g \in Hosts : file[g] # Nothing}},
                  left \in SUBSET {h \in Hosts : file[h] # Nothing /\ hosts[d][h] = Nothing}}
  /\ wiped' = IF wiped = "file" /\ adding # "opened" THEN "no" ELSE wiped
  /\ UNCHANGED <<presents, knownHosts, onDisk, adding, disturbed, troubles>>

\* What is written to a file that was removed since it was opened is lost.
FillUnlinked(d) ==
  /\ pc[d] = "unlinked" /\ Accept(d)
  /\ UNCHANGED <<presents, knownHosts, disk, disturbed, wiped, troubles>>

\* An error of the write is dropped; the connection stands.
SaveFails(d) ==
  /\ pc[d] \in {"copied", "truncated", "unlinked"} /\ Trouble /\ Accept(d)
  /\ disturbed' = TRUE
  /\ UNCHANGED <<presents, knownHosts, disk, wiped>>

\* A server is installed anew, or another answers in its place.
Rekey(h, k) ==
  /\ Trouble
  /\ presents' = [presents EXCEPT ![h] = k]
  /\ UNCHANGED <<knownHosts, disk, dialer, history>>

-----------------------------------------------------------------------------
(* The key store at this name, under a mutex of its own.                   *)

Wipe == wiped' = IF wiped = "memory" THEN "memory" ELSE "file"

\* KeyStore.Add, Generate: the name is refused while its file exists ...
LookForFile ==
  /\ adding = "no" /\ onDisk = "absent" /\ adding' = "looked"
  /\ UNCHANGED <<presents, knownHosts, file, onDisk, dialer, history, troubles>>

\* ... else os.WriteFile empties what may be there by now ...
OpenForKey ==
  /\ adding = "looked" /\ adding' = "opened"
  /\ file' = Empty /\ onDisk' = "present" /\ Wipe
  /\ UNCHANGED <<presents, knownHosts, dialer, accepted, disturbed, troubles>>

\* The lines of a key are no host's: of the lines it is written over some are
\* left.
UnderKey == {[h \in Hosts |-> IF h \in left THEN file[h] ELSE Nothing] : left \in SUBSET Hosts}

\* ... and writes the key, or a part of it.
WriteKey ==
  /\ adding = "opened" /\ adding' = "no"
  /\ file' \in UnderKey /\ Wipe
  /\ UNCHANGED <<presents, knownHosts, onDisk, dialer, accepted, disturbed, troubles>>

\* KeyStore.Remove: a dial that has the file open writes to it unlinked.
RemoveKey ==
  /\ adding = "no" /\ onDisk = "present" /\ onDisk' = "absent"
  /\ file' = Empty /\ Wipe
  /\ pc' = [d \in Dialers |-> IF pc[d] = "truncated" THEN "unlinked" ELSE pc[d]]
  /\ UNCHANGED <<presents, knownHosts, adding, host, offered, hosts, accepted,
                 disturbed, troubles>>

-----------------------------------------------------------------------------
\* What a write to the file leaves that the end of the process cuts short.
CutShort(d) == {[h \in Hosts |-> IF h \in whole THEN hosts[d][h]
                                 ELSE IF h = last THEN Torn ELSE Nothing] :
                  whole \in SUBSET Hosts, last \in Hosts}

\* What the process may leave of the file.
Leftovers ==
  {file} \union (IF adding = "opened" THEN UnderKey ELSE {})
         \union UNION {CutShort(d) : d \in {e \in Dialers : pc[e] = "truncated"}}

\* The process ends, perhaps in the middle of a write, and loadKnownHosts reads
\* what is there.
Restart ==
  /\ Trouble
  /\ \E written \in Leftovers :
       file' = written /\ knownHosts' = written
  /\ disturbed' = (disturbed \/ \E d \in Dialers : FirstUse(d))
  /\ pc' = [d \in Dialers |-> "idle"] /\ host' = [d \in Dialers |-> Nothing]
  /\ offered' = [d \in Dialers |-> Nothing] /\ hosts' = [d \in Dialers |-> Empty]
  /\ wiped' = IF wiped = "file" THEN "memory" ELSE wiped
  /\ adding' = "no"
  /\ UNCHANGED <<presents, onDisk, accepted>>

Next ==
  \/ \E d \in Dialers :
       \/ \E h \in Hosts : Dial(d, h)
       \/ Lookup(d) \/ Remember(d) \/ Copy(d) \/ Truncate(d) \/ Fill(d)
       \/ FillUnlinked(d) \/ SaveFails(d)
  \/ \E h \in Hosts, k \in Keys : Rekey(h, k)
  \/ LookForFile \/ OpenForKey \/ WriteKey \/ RemoveKey
  \/ Restart

Spec == Init /\ [][Next]_vars

-----------------------------------------------------------------------------
(* Properties.                                                             *)

\* Every variable has its type.
TypeOK ==
  /\ presents \in [Hosts -> Keys]
  /\ knownHosts \in [Hosts -> Keys \union {Nothing, Torn}]
  /\ file \in [Hosts -> Keys \union {Nothing, Torn}]
  /\ onDisk \in {"absent", "present"} /\ adding \in {"no", "looked", "opened"}
  /\ pc \in [Dialers -> {"idle", "shown", "unknown", "remembered", "copied", "truncated",
                         "unlinked"}]
  /\ host \in [Dialers -> Hosts \union {Nothing}] /\ offered \in [Dialers -> Keys \union {Nothing}]
  /\ hosts \in [Dialers -> [Hosts -> Keys \union {Nothing, Torn}]]
  /\ accepted \in [Hosts -> SUBSET Keys]
  /\ disturbed \in BOOLEAN /\ wiped \in {"no", "file", "memory"}
  /\ troubles \in 0..MaxTroubles

\* service.go: "on the first connection the fingerprint is remembered and
\* persisted to disk; later connections must present the same key, otherwise
\* ErrHostKeyChanged": no host is ever trusted with two keys.
OneKeyPerHost == \A h \in Hosts : \A j, k \in accepted[h] : j = k

\* cmd/api/main.go: "Persist TOFU host keys to disk so they survive restarts":
\* the same across restarts, where no first use was disturbed.  A key request
\* that names the file takes the keys with it.
HostKeysSurvive == disturbed \/ OneKeyPerHost

\* What stands: one key for each host across changes of keys and restarts,
\* where no two first uses overlapped, no write failed, no restart cut one
\* short, and none came between a key request that took lines from the file
\* and the next first use, which writes them all again.
OneKeyUnlessDisturbed == wiped = "memory" \/ HostKeysSurvive

\* A host that was trusted is not locked out by the file: where nothing was
\* disturbed every line is whole and says what memory says once the writers
\* are through, and after a key request once a first use is.
FileIsMemory ==
  disturbed \/ wiped # "no" \/ (\E d \in Dialers : FirstUse(d)) \/ file = knownHosts

\* The two together, of states that have their types.
OneKeyTrusted == TypeOK /\ OneKeyUnlessDisturbed /\ FileIsMemory

=============================================================================
