------------------------------- MODULE Viewer -------------------------------
(***************************************************************************)
(* The two files of the web viewer: the URL token that servers share       *)
(* (execkit-mcp/src/watch/web.rs) and the display metadata that pages post *)
(* (watch/meta.rs). Both are written by truncating the file first. A body  *)
(* is [id, len, ok]: len blocks, which parse as a whole if ok.             *)
(***************************************************************************)
EXTENDS Integers, Sequences, FiniteSets

CONSTANTS
  Starts,         \* starts of a server with the viewer on
  Posters,        \* pages that post
  Bodies,         \* bodies they post
  MaxStateBytes   \* MAX_STATE_BYTES, in blocks

ASSUME ViewerAssumption ==
  /\ {"absent", "empty"} \cap Starts = {}
  /\ \A body \in Bodies :
       /\ body.len \in Nat \ {0}
       /\ \A other \in Bodies : body.id = other.id => body = other

VARIABLES
  tokenFile,  \* the token in the file, "absent" or "empty"
  starting,   \* per start: how far load_or_create_token is
  url,        \* per start: the token it serves with
  settled,    \* history: it read a token while none was being made
  stateFile,  \* blocks of viewer-state.json
  posting,    \* per page: its request
  last,       \* the body saved last
  overlap,    \* history: the last save began while another was under way
  torn        \* history: a save was cut off, and none has begun alone since

tokenVars == <<tokenFile, starting, url, settled>>
stateVars == <<stateFile, posting, last, overlap, torn>>
viewerVars == <<tokenVars, stateVars>>

NoToken == "none"
Default == [id |-> 0, len |-> 0, ok |-> TRUE]
Quiet == [at |-> "idle", body |-> Default]

ViewerInit ==
  /\ tokenFile = "absent"
  /\ starting = [s \in Starts |-> "begin"] /\ url = [s \in Starts |-> NoToken]
  /\ settled = [s \in Starts |-> FALSE]
  /\ stateFile = <<>> /\ posting = [p \in Posters |-> Quiet]
  /\ last = Default /\ overlap = FALSE /\ torn = FALSE
-----------------------------------------------------------------------------
(***************************************************************************)
(* load_or_create_token. A start names the token it generates.             *)
(***************************************************************************)
Settled == tokenFile \in Starts /\ \A s \in Starts : starting[s] \notin {"missing", "truncated"}

\* Mutant: every start makes a token of its own.
TokenReadFresh(s) ==
  /\ starting[s] = "begin"
  /\ settled' = [settled EXCEPT ![s] = Settled]
  /\ starting' = [starting EXCEPT ![s] = "missing"]
  /\ UNCHANGED <<tokenFile, url, stateVars>>

TokenRead(s) ==
  /\ starting[s] = "begin"
  /\ settled' = [settled EXCEPT ![s] = Settled]
  /\ IF tokenFile \in {"absent", "empty"}
     THEN starting' = [starting EXCEPT ![s] = "missing"] /\ UNCHANGED url
     ELSE /\ starting' = [starting EXCEPT ![s] = "serving"]
          /\ url' = [url EXCEPT ![s] = tokenFile]
  /\ UNCHANGED <<tokenFile, stateVars>>

TokenTruncate(s) ==
  /\ starting[s] = "missing"
  /\ tokenFile' = "empty"
  /\ starting' = [starting EXCEPT ![s] = "truncated"]
  /\ UNCHANGED <<url, settled, stateVars>>

TokenWrite(s) ==
  /\ starting[s] = "truncated"
  /\ tokenFile' = s
  /\ url' = [url EXCEPT ![s] = s]
  /\ starting' = [starting EXCEPT ![s] = "serving"]
  /\ UNCHANGED <<settled, stateVars>>

\* The process ends, perhaps before it has written.
ServerEnds(s) ==
  /\ starting[s] # "begin" /\ starting[s] # "ended"
  /\ starting' = [starting EXCEPT ![s] = "ended"]
  /\ UNCHANGED <<tokenFile, url, settled, stateVars>>
-----------------------------------------------------------------------------
(***************************************************************************)
(* POST /state: handle_post_state, parse_validated and save; a page that   *)
(* lacks the token gets no further than handle_conn.                       *)
(***************************************************************************)
Blocks(body) == [i \in 1..body.len |-> <<body.id, i>>]

\* The blocks that are read of those that arrive: as many as claimed, and what
\* comes in one chunk with the last of them.
Reads(claimed, arrived) == IF arrived <= claimed THEN {arrived} ELSE claimed..arrived

Accepted(body, n) == n <= MaxStateBytes /\ n = body.len /\ body.ok

Request(p, body, claimed, arrived) ==
  /\ posting[p].at = "idle" /\ claimed <= MaxStateBytes
  /\ \E n \in Reads(claimed, arrived) : Accepted(body, n)
  /\ posting' = [posting EXCEPT ![p] = [at |-> "parsed", body |-> body]]
  /\ UNCHANGED <<tokenVars, stateFile, last, overlap, torn>>

Saving == {p \in Posters : posting[p].at = "truncated"}

\* Mutant: the file is not truncated.
SaveOpenKeeping(p) ==
  /\ posting[p].at = "parsed"
  /\ posting' = [posting EXCEPT ![p].at = "truncated"]
  /\ overlap' = (Saving # {}) /\ torn' = (torn /\ Saving # {})
  /\ UNCHANGED <<tokenVars, stateFile, last>>

SaveOpen(p) ==
  /\ posting[p].at = "parsed"
  /\ stateFile' = <<>>
  /\ posting' = [posting EXCEPT ![p].at = "truncated"]
  /\ overlap' = (Saving # {}) /\ torn' = (torn /\ Saving # {})
  /\ UNCHANGED <<tokenVars, last>>

\* A write at the start of the file leaves what lies behind it.
SaveWrite(p) ==
  LET body == posting[p].body
  IN /\ posting[p].at = "truncated"
     /\ stateFile' = Blocks(body) \o SubSeq(stateFile, body.len + 1, Len(stateFile))
     /\ posting' = [posting EXCEPT ![p] = Quiet]
     /\ last' = body
     /\ UNCHANGED <<tokenVars, overlap, torn>>

\* The viewer's process ends with its requests.
ViewerEnds ==
  /\ \E p \in Posters : posting[p].at # "idle"
  /\ posting' = [p \in Posters |-> Quiet]
  /\ torn' = (torn \/ Saving # {})
  /\ UNCHANGED <<tokenVars, stateFile, last, overlap>>

\* load: what GET /state answers; a file that does not parse counts as none.
Load ==
  LET whole == {body \in Bodies : Blocks(body) = stateFile}
  IN IF whole = {} THEN Default ELSE CHOOSE body \in whole : TRUE
-----------------------------------------------------------------------------
ViewerNext ==
  \/ \E s \in Starts : TokenRead(s) \/ TokenTruncate(s) \/ TokenWrite(s) \/ ServerEnds(s)
  \/ \E p \in Posters :
       \/ \E body \in Bodies : \E claimed \in 0..(body.len + 1), arrived \in 0..body.len :
            Request(p, body, claimed, arrived)
       \/ SaveOpen(p) \/ SaveWrite(p)
  \/ ViewerEnds

ViewerSpec == ViewerInit /\ [][ViewerNext]_viewerVars
-----------------------------------------------------------------------------
(***************************************************************************)
(* Properties.                                                             *)
(***************************************************************************)

\* load_or_create_token: once a token is in its file and no server is making one,
\* every later start serves with that token, so an open tab reconnects. Servers
\* that start together before that may each use a token of their own.
RestartsKeepUrl ==
  \A s, t \in Starts :
    settled[s] /\ settled[t] /\ {starting[s], starting[t]} \subseteq {"serving", "ended"}
      => url[s] = url[t]

\* save and load: unless two saves overlapped or one was cut off, and none has
\* begun alone since, a page reads the body that was saved last, whole.
StateSaved ==
  Saving = {} /\ ~overlap /\ ~torn => Load = last

\* The inductive invariants behind them. A token that was there when a start read it
\* stays; and a save that is alone finds the file as it has left it.
TokenInv ==
  /\ starting \in [Starts -> {"begin", "missing", "truncated", "serving", "ended"}]
  /\ url = [s \in Starts |-> url[s]] /\ settled \in [Starts -> BOOLEAN]
  /\ \A s \in Starts :
       settled[s] => Settled /\ starting[s] \in {"serving", "ended"} /\ url[s] = tokenFile

StateInv ==
  /\ posting \in [Posters -> [at : {"idle", "parsed", "truncated"}, body : Bodies \cup {Default}]]
  /\ \A p \in Posters : posting[p].at # "idle" => posting[p].body \in Bodies
  /\ last \in Bodies \cup {Default}
  /\ overlap \in BOOLEAN /\ torn \in BOOLEAN
  /\ ~overlap =>
       /\ \A p, q \in Saving : p = q
       /\ ~torn => stateFile = IF Saving = {} THEN Blocks(last) ELSE <<>>
=============================================================================
