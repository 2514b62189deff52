------------------------------ MODULE DecryptCLI ------------------------------
(***************************************************************************)
(* The commands of packages/cli-decrypt: each runs in a process of its own *)
(* and shares with the others the credentials, the prompt cache of earlier *)
(* versions and update-state.json.  A prompt is fetched, decrypted with    *)
(* the stored credentials, checked against the signed manifest, compared   *)
(* with the signature of the last run, and only then printed.              *)
(*                                                                         *)
(* A prompt's content is its version; the manifest names one version of    *)
(* each prompt it lists.  Credentials are the number of their issue: what  *)
(* the server encrypts for one is not decrypted with another.              *)
(***************************************************************************)
EXTENDS Naturals, FiniteSets

CONSTANTS
  Process,    \* commands that may run at once
  Prompt,     \* names of prompts
  MaxVersion, \* bound on the versions of a prompt
  MaxIssue,   \* bound on the credentials issued
  MaxRuns     \* bound on the commands

Absent == 0     \* no credentials, no signature, a prompt the manifest does not list

VARIABLES
  content,   \* server: the version of each prompt it serves
  manifest,  \* server: the version of each prompt in the signed manifest
  issue,     \* server: the credentials in force
  revoked,   \* server: the key is revoked
  stored,    \* credentials.enc
  cached,    \* prompts an earlier version of the program left in prompt-cache
  sigs,      \* promptSignatures in update-state.json: one set of them, none while torn
  cmd,       \* each command: the step, the prompt, what it holds
  printed,   \* history: what was printed, with the manifest's version
  noticed,   \* history: update notices, numbered
  overlap,   \* history: a command was killed, or met another that had a manifest
  runs

server == <<content, manifest, issue, revoked>>
history == <<printed, noticed, overlap>>
vars == <<server, stored, cached, sigs, cmd, history, runs>>

NoSigs == [k \in Prompt |-> Absent]

\* No command: credentials, text and signatures are held in memory only.
Off == [step |-> "off", name |-> CHOOSE k \in Prompt : TRUE, cred |-> Absent, text |-> Absent,
        listed |-> Absent, seen |-> NoSigs]

Init ==
  /\ content = [k \in Prompt |-> 1] /\ manifest \in [Prompt -> {Absent, 1}]
  /\ issue = 1 /\ revoked = FALSE
  /\ stored \in {Absent, issue} /\ cached \in {{}, Prompt} /\ sigs = {NoSigs}
  /\ cmd = [p \in Process |-> Off]
  /\ printed = {} /\ noticed = {} /\ overlap = FALSE /\ runs = 0

At(p, step) == cmd[p].step = step
Goto(p, step) == cmd' = [cmd EXCEPT ![p].step = step]
Ends(p) == cmd' = [cmd EXCEPT ![p] = Off]

\* deriveKey and decrypt: credentials open what was encrypted for the same ones.
Opens(c) == c = issue

\* verifyPromptHash: text t against the version v of the manifest.
Agrees(t, v) == v \in {Absent, t}

\* readUpdateState: a file that is not there or torn counts as empty.
Loaded == IF sigs = {} THEN NoSigs ELSE CHOOSE s \in sigs : TRUE

\* detectPromptChange: prompt k, now of version v, against the signatures old.
Changed(old, k, v) == v # Absent /\ old[k] \notin {Absent, v}

-----------------------------------------------------------------------------
(* The server.                                                             *)

Publish(k) ==
  /\ content[k] < MaxVersion
  /\ content' = [content EXCEPT ![k] = @ + 1]
  /\ UNCHANGED <<manifest, issue, revoked>>

Sign(k) ==
  /\ manifest' = [manifest EXCEPT ![k] = content[k]]
  /\ UNCHANGED <<content, issue, revoked>>

Rotate == issue < MaxIssue /\ issue' = issue + 1 /\ UNCHANGED <<content, manifest, revoked>>
Revoke == revoked' = TRUE /\ UNCHANGED <<content, manifest, issue>>

Server ==
  /\ (\E k \in Prompt : Publish(k) \/ Sign(k)) \/ Rotate \/ Revoke
  /\ UNCHANGED <<stored, cached, sigs, cmd, history, runs>>

-----------------------------------------------------------------------------
(* The commands.                                                           *)

\* runCli: one more command; help, the version, the check and the list of the
\* manifest show something and change nothing.
RunCli(p) ==
  /\ At(p, "off") /\ runs < MaxRuns
  /\ runs' = runs + 1
  /\ UNCHANGED <<server, stored, sigs, history>>

Shows(p) == RunCli(p) /\ UNCHANGED <<cached, cmd>>

\* clearAll, by --clear-cache and before setup asks for credentials.
ClearAll(p) == RunCli(p) /\ cached' = {} /\ (UNCHANGED cmd \/ Goto(p, "setup"))

\* retrieveCredentials: without any the command ends at once.
HasCredentials == stored # Absent

\* decryptCommand begins with the credentials, for a prompt or a custom command.
Decrypt(p) ==
  /\ RunCli(p) /\ HasCredentials
  /\ \E k \in Prompt, step \in {"fetch", "custom"} :
       cmd' = [cmd EXCEPT ![p] = [Off EXCEPT !.step = step, !.name = k, !.cred = stored]]
  /\ UNCHANGED cached

\* An error answer may carry the directive to clear the cache.
Refused(p) == Ends(p) /\ cached' \in {cached, {}} /\ UNCHANGED stored

\* fetchEncryptedPrompt: a key that is not revoked gets the prompt as it is now.
Answered(p, step) ==
  /\ ~revoked
  /\ cmd' = [cmd EXCEPT ![p].text = content[cmd[p].name], ![p].step = step]
  /\ UNCHANGED <<stored, cached>>

\* storeCredentials: the credentials in force, over the old ones.
StoreCredentials == stored' = issue

\* setupCommand.
Setup(p) ==
  /\ At(p, "setup")
  /\ \/ Refused(p)
     \/ ~revoked /\ StoreCredentials /\ Ends(p) /\ UNCHANGED cached
  /\ UNCHANGED <<server, sigs, history, runs>>

\* fetchEncryptedPrompt and decrypt: what was encrypted for other credentials fails.
Fetch(p) ==
  /\ At(p, "fetch")
  /\ \/ Refused(p)
     \/ ~revoked /\ ~Opens(cmd[p].cred) /\ Ends(p) /\ UNCHANGED <<stored, cached>>
     \/ Opens(cmd[p].cred) /\ Answered(p, "verify")
  /\ UNCHANGED <<server, sigs, history, runs>>

\* fetchCustomPrompt: a command of the team is not encrypted, and printed as it is.
FetchCustom(p) ==
  /\ At(p, "custom")
  /\ Refused(p) \/ Answered(p, "print")
  /\ UNCHANGED <<server, sigs, history, runs>>

\* The manifest, or none, is at hand: v is the version it lists.
Holds(p, v) ==
  /\ cmd' = [cmd EXCEPT ![p].listed = v, ![p].step = "read"]
  /\ UNCHANGED <<server, stored, cached, sigs, history, runs>>

\* Mutant: the hash is compared and the result not looked at.
VerifiesLoosely(p) == At(p, "verify") /\ Holds(p, manifest[cmd[p].name])

\* fetchManifest answers in time: a manifest with a wrong signature, and one that
\* lists another version of the prompt, end the command.
Verify(p) ==
  LET v == manifest[cmd[p].name]
  IN /\ At(p, "verify")
     /\ \/ Ends(p) /\ UNCHANGED <<server, stored, cached, sigs, history, runs>>
        \/ Agrees(cmd[p].text, v) /\ Holds(p, v)

\* No manifest within three seconds: the check is skipped.
Timeout(p) == At(p, "verify") /\ Holds(p, Absent)

\* Another command has the manifest, and has not written its signatures yet.
Meets(p) == \E q \in Process \ {p} : cmd[q].step \in {"read", "truncate", "write"}

\* Mutant: only the first signature of a prompt is written.
ReadsFirst(p) ==
  LET old == Loaded
      k == cmd[p].name
      v == cmd[p].listed
  IN /\ At(p, "read")
     /\ cmd' = [cmd EXCEPT ![p].seen = IF v = Absent \/ old[k] # Absent THEN old ELSE [old EXCEPT ![k] = v],
                           ![p].step = IF v = Absent THEN "print" ELSE "truncate"]
     /\ noticed' = IF Changed(old, k, v) THEN noticed \cup {<<k, v, Cardinality(noticed)>>} ELSE noticed
     /\ overlap' = (overlap \/ Meets(p))
     /\ UNCHANGED <<server, stored, cached, sigs, printed, runs>>

\* The signatures are read, and a new version is noticed.
Read(p) ==
  LET old == Loaded
      k == cmd[p].name
      v == cmd[p].listed
  IN /\ At(p, "read")
     /\ cmd' = [cmd EXCEPT ![p].seen = IF v = Absent THEN old ELSE [old EXCEPT ![k] = v],
                           ![p].step = IF v = Absent THEN "print" ELSE "truncate"]
     /\ noticed' = IF Changed(old, k, v) THEN noticed \cup {<<k, v, Cardinality(noticed)>>} ELSE noticed
     /\ overlap' = (overlap \/ Meets(p))
     /\ UNCHANGED <<server, stored, cached, sigs, printed, runs>>

\* writeUpdateState truncates the file and writes all signatures.
Truncate(p) ==
  /\ At(p, "truncate")
  /\ sigs' = {} /\ Goto(p, "write")
  /\ UNCHANGED <<server, stored, cached, history, runs>>

Write(p) ==
  /\ At(p, "write")
  /\ sigs' = {cmd[p].seen} /\ Goto(p, "print")
  /\ UNCHANGED <<server, stored, cached, history, runs>>

Show(p) ==
  /\ At(p, "print")
  /\ printed' = printed \cup {<<cmd[p].name, cmd[p].text, cmd[p].listed>>}
  /\ Ends(p)
  /\ UNCHANGED <<server, stored, cached, sigs, noticed, overlap, runs>>

\* The process is killed.
Kill(p) ==
  /\ ~At(p, "off") /\ Ends(p)
  /\ overlap' = TRUE
  /\ UNCHANGED <<server, stored, cached, sigs, printed, noticed, runs>>

Step(p) ==
  Setup(p) \/ Fetch(p) \/ FetchCustom(p) \/ Verify(p) \/ Timeout(p) \/ Read(p) \/ Truncate(p) \/ Write(p) \/ Show(p)

Next == Server \/ \E p \in Process : Shows(p) \/ ClearAll(p) \/ Decrypt(p) \/ Step(p) \/ Kill(p)

Spec == Init /\ [][Next]_vars

-----------------------------------------------------------------------------
(* Properties.                                                             *)

\* What is printed is what the signed manifest lists, unless no manifest came in
\* time or it does not list the prompt, however the server changes meanwhile.
PrintedIsListed == \A r \in printed : r[3] \in {Absent, r[2]}

\* A command is told of a new version of a prompt once, while no command is killed and
\* none meets another between the manifest and update-state.json: one that still has an
\* older manifest would write the older version back.
NoticedOnce ==
  ~overlap => \A a, b \in noticed : a[1] = b[1] /\ a[2] = b[2] => a = b
=============================================================================
