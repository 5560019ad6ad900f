------------------------------- MODULE KeyStore -------------------------------
(***************************************************************************)
(* The private keys of the server registry (internal/ssh/keystore.go) and  *)
(* the handlers that add, generate, list and delete them (handlers/ssh.go) *)
(* A key is a file.  Adding and removing hold the mutex, reading does not, *)
(* so a listing may meet a file that is being written, or one that a full  *)
(* disk or the end of the process left cut short.  One name of the         *)
(* directory is known_hosts (cmd/api/main.go), which every first use of a  *)
(* server rewrites without the mutex: it has the form of a key's name.     *)
(***************************************************************************)
EXTENDS Naturals, FiniteSets

CONSTANTS
  Names,        \* names a key may be given
  TrustFile,    \* the one of them known_hosts has
  Keys,         \* private keys, each with its fingerprint
  Callers,      \* requests that may be under way together
  MaxTroubles   \* bound on failing writes and restarts

VARIABLES
  files,        \* name -> the key in its file, Torn, or Nothing without a file
  mu,           \* KeyStore.mu: who holds it
  pc, name, key,   \* caller -> where it stands, the name and the key it adds
  entries, out,    \* caller -> what its listing has yet to read, has read
  stored,       \* history: name -> the key a 201 was answered for, since deleted or not
  standing,     \* history: caller -> the names stored since its listing began
  troubles

request == <<pc, name, key>>
listing == <<entries, out, standing>>
vars == <<files, mu, request, listing, stored, troubles>>

Nothing == "nothing"
Torn == "torn"
None == [n \in Names |-> Nothing]
Trouble == troubles < MaxTroubles /\ troubles' = troubles + 1
Goto(c, from, to) == pc[c] = from /\ pc' = [pc EXCEPT ![c] = to]

Init ==
  /\ files = None /\ mu = Nothing
  /\ pc = [c \in Callers |-> "idle"] /\ name = [c \in Callers |-> Nothing]
  /\ key = [c \in Callers |-> Nothing]
  /\ entries = [c \in Callers |-> {}] /\ out = [c \in Callers |-> None]
  /\ stored = None /\ standing = [c \in Callers |-> {}] /\ troubles = 0

Settle(c) ==
  /\ pc' = [pc EXCEPT ![c] = "idle"] /\ name' = [name EXCEPT ![c] = Nothing]
  /\ key' = [key EXCEPT ![c] = Nothing]

-----------------------------------------------------------------------------
\* A request to add a key, before the mutex is asked for.
Request(c, n, k) ==
  /\ Goto(c, "idle", "adding")
  /\ name' = [name EXCEPT ![c] = n] /\ key' = [key EXCEPT ![c] = k]
  /\ UNCHANGED <<files, mu, listing, stored, troubles>>

\* KeyStore.Add: a key that parses.  One that does not is refused and changes
\* nothing.
AddKey(c, n, k) == Request(c, n, k)

\* KeyStore.Generate: a key nobody has.
GenerateKey(c, n, k) ==
  /\ \A m \in Names : files[m] # k /\ \A d \in Callers : key[d] # k
  /\ Request(c, n, k)

\* Slip: the file is looked for before the mutex is taken.
CheckUnlocked(c) ==
  /\ pc[c] = "adding"
  /\ IF files[name[c]] # Nothing THEN Settle(c)
     ELSE Goto(c, "adding", "checked") /\ UNCHANGED <<name, key>>
  /\ UNCHANGED <<files, mu, listing, stored, troubles>>

\* The mutex is taken; a name whose file exists is refused, whole or not.
Check(c) ==
  /\ pc[c] = "adding" /\ mu = Nothing
  /\ IF files[name[c]] # Nothing THEN Settle(c) /\ UNCHANGED mu
     ELSE Goto(c, "adding", "checked") /\ mu' = c /\ UNCHANGED <<name, key>>
  /\ UNCHANGED <<files, listing, stored, troubles>>

\* os.WriteFile creates the file ...
Create(c) ==
  /\ Goto(c, "checked", "writing")
  /\ files' = [files EXCEPT ![name[c]] = Torn]
  /\ UNCHANGED <<mu, name, key, listing, stored, troubles>>

\* ... and fills it; the handler records the fingerprint and answers 201.
Fill(c) ==
  /\ pc[c] = "writing" /\ Settle(c) /\ mu' = Nothing
  /\ files' = [files EXCEPT ![name[c]] = key[c]]
  /\ stored' = [stored EXCEPT ![name[c]] = key[c]]
  /\ UNCHANGED <<listing, troubles>>

\* A write that fails leaves what it wrote.
WriteFails(c) ==
  /\ pc[c] \in {"checked", "writing"} /\ Trouble /\ Settle(c) /\ mu' = Nothing
  /\ UNCHANGED <<files, listing, stored>>

\* KeyStore.Remove, under the mutex.
Remove(n) == mu = Nothing /\ files' = [files EXCEPT ![n] = Nothing]

\* deleteKey; without a file it answers 404.
DeleteKey(c, n) ==
  /\ pc[c] = "idle" /\ Remove(n)
  /\ stored' = [stored EXCEPT ![n] = Nothing]
  /\ standing' = [d \in Callers |-> standing[d] \ {n}]
  /\ UNCHANGED <<mu, request, entries, out, troubles>>

\* saveKnownHosts, which empties the file of that name and then fills it with
\* lines that are no key: after each of the two it cannot be parsed.
SaveKnownHosts ==
  /\ files' = [files EXCEPT ![TrustFile] = Torn]
  /\ UNCHANGED <<mu, request, listing, stored, troubles>>

-----------------------------------------------------------------------------
\* List: the directory is read, without the mutex ...
ReadDir(c) ==
  /\ Goto(c, "idle", "listing")
  /\ entries' = [entries EXCEPT ![c] = {n \in Names : files[n] # Nothing}]
  /\ out' = [out EXCEPT ![c] = None]
  /\ standing' = [standing EXCEPT ![c] = {n \in Names : stored[n] # Nothing}]
  /\ UNCHANGED <<files, mu, name, key, stored, troubles>>

Parses(n) == files[n] \in Keys

\* Slip: the first file that cannot be parsed ends the listing.
ReadFileStops(c, n) ==
  /\ pc[c] = "listing" /\ n \in entries[c]
  /\ entries' = [entries EXCEPT ![c] = IF Parses(n) THEN @ \ {n} ELSE {}]
  /\ out' = [out EXCEPT ![c][n] = IF Parses(n) THEN files[n] ELSE Nothing]
  /\ UNCHANGED <<files, mu, request, standing, stored, troubles>>

\* ... then file by file; one that is gone or cannot be parsed is left out.
ReadFile(c, n) ==
  /\ pc[c] = "listing" /\ n \in entries[c]
  /\ entries' = [entries EXCEPT ![c] = @ \ {n}]
  /\ out' = [out EXCEPT ![c][n] = IF Parses(n) THEN files[n] ELSE Nothing]
  /\ UNCHANGED <<files, mu, request, standing, stored, troubles>>

Answer(c) ==
  /\ pc[c] = "listing" /\ entries[c] = {} /\ Settle(c)
  /\ out' = [out EXCEPT ![c] = None] /\ standing' = [standing EXCEPT ![c] = {}]
  /\ UNCHANGED <<files, mu, entries, stored, troubles>>

\* The process ends in the middle of whatever it does; the files stay.
Restart ==
  /\ Trouble /\ mu' = Nothing
  /\ pc' = [c \in Callers |-> "idle"] /\ name' = [c \in Callers |-> Nothing]
  /\ key' = [c \in Callers |-> Nothing]
  /\ entries' = [c \in Callers |-> {}] /\ out' = [c \in Callers |-> None]
  /\ standing' = [c \in Callers |-> {}]
  /\ UNCHANGED <<files, stored>>

Next ==
  \/ \E c \in Callers :
       \/ \E n \in Names, k \in Keys : AddKey(c, n, k) \/ GenerateKey(c, n, k)
       \/ Check(c) \/ Create(c) \/ Fill(c) \/ WriteFails(c)
       \/ \E n \in Names : DeleteKey(c, n) \/ ReadFile(c, n)
       \/ ReadDir(c) \/ Answer(c)
  \/ SaveKnownHosts
  \/ Restart

Spec == Init /\ [][Next]_vars

-----------------------------------------------------------------------------
(* Properties.                                                             *)

\* Every variable has its type.
TypeOK ==
  /\ files \in [Names -> Keys \union {Nothing, Torn}] /\ mu \in Callers \union {Nothing}
  /\ pc \in [Callers -> {"idle", "adding", "checked", "writing", "listing"}]
  /\ name \in [Callers -> Names \union {Nothing}] /\ key \in [Callers -> Keys \union {Nothing}]
  /\ entries \in [Callers -> SUBSET Names] /\ standing \in [Callers -> SUBSET Names]
  /\ out \in [Callers -> [Names -> Keys \union {Nothing}]]
  /\ stored \in [Names -> Keys \union {Nothing}] /\ troubles \in 0..MaxTroubles

\* A key an answer reported as stored is the one in its file until it is
\* deleted: no other upload, failing write or restart replaces or damages it.
\* Of a key called known_hosts it is not so: the next first use writes over it.
KeyKept == \A n \in Names \ {TrustFile} : stored[n] # Nothing => files[n] = stored[n]

\* keystore.go: "a corrupt file must not take the whole listing down": a key
\* that was stored throughout a listing is in its answer, with its fingerprint,
\* whatever has become of known_hosts beside it.
ListingIsComplete ==
  \A c \in Callers :
    (pc[c] = "listing" /\ entries[c] = {}) =>
      \A n \in standing[c] \ {TrustFile} : out[c][n] = stored[n]

=============================================================================
