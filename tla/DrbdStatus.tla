----------------------------- MODULE DrbdStatus -----------------------------
(***************************************************************************)
(* parse_drbd (collectors/drbd.py), the one parser the RDQM and the        *)
(* Pacemaker collector share, line by line over what `drbdsetup status     *)
(* --verbose --statistics` prints for a list of resources.                 *)
(*                                                                         *)
(* A line is the word it starts with at column 0, or Indent, and the dict  *)
(* of its key:value tokens.  The printer follows the captures under        *)
(* tests/fixtures: the resource, its volume, then each peer with a line    *)
(* for its connection and, while connected, for its volume.                *)
(***************************************************************************)
EXTENDS Naturals, Sequences, SequencesExt

CONSTANTS ResourceNames,  \* the resources of the node, in the order printed
          MaxPeers,       \* bound: peers of one resource
          NoToken,        \* the line has no such token
          Garbled,        \* a token float() or int() raises on
          Indent,         \* the line does not start at column 0
          NoResource      \* no block has been opened yet

ASSUME DrbdAssumption ==
  /\ ResourceNames \in Seq(STRING)
  /\ \A i, j \in DOMAIN ResourceNames : ResourceNames[i] = ResourceNames[j] => i = j
  /\ \A i \in DOMAIN ResourceNames : ResourceNames[i] \notin {"#", Indent, NoResource}
  /\ Indent # "#"
  /\ MaxPeers \in Nat

VARIABLES report,   \* what DRBD knows: the resources and their peers
          text,     \* what drbdsetup prints of it
          pos,      \* the line parse_drbd looks at next
          cur,      \* the name of the block `cur` refers to
          out,      \* the dict being built
          stage     \* "parse", "returned" or "raised"

parseVars == <<report, text, pos, cur, out, stage>>

Peers == {[conn |-> "Connected", done |-> NoToken, lag |-> 0],
          [conn |-> "Connected", done |-> 42, lag |-> 7],
          [conn |-> "Connected", done |-> Garbled, lag |-> 7],
          [conn |-> "StandAlone", done |-> NoToken, lag |-> NoToken],
          [conn |-> "StandAlone", done |-> NoToken, lag |-> 7]}

Resources == [role : {"Primary", "Secondary"}, disk : {"UpToDate", "Diskless"},
              peers : BoundedSeq(Peers, MaxPeers)]

---------------------------------------------------------------------------
(* The printer: code outside the repository.                               *)

Line(head, tokens) == [head |-> head, tokens |-> tokens]
Optional(key, value) == IF value = NoToken THEN <<>> ELSE <<Line(Indent, [k \in {key} |-> value])>>

PeerLines(p) == <<Line(Indent, [connection |-> p.conn, role |-> "Secondary"])>>
                \o Optional("done", p.done)
                \o Optional("out-of-sync", p.lag)

Block(name, r) == <<Line(name, [role |-> r.role]), Line(Indent, [disk |-> r.disk])>>
                  \o FlattenSeq([i \in DOMAIN r.peers |-> PeerLines(r.peers[i])])

Heading == <<Line("#", <<>>)>>
Printed == Heading \o FlattenSeq([i \in DOMAIN ResourceNames |-> Block(ResourceNames[i], report[i])])

---------------------------------------------------------------------------
(* The parser.                                                             *)

Token(tokens, key, default) == IF key \in DOMAIN tokens THEN tokens[key] ELSE default

\* Fault variant: a peer's connection line starts its resync anew.
RefineRestarting(entry, tokens) ==
  [role |-> entry.role,
   disk |-> Token(tokens, "disk", entry.disk),
   conn |-> Token(tokens, "connection", entry.conn),
   resync_pct |-> Token(tokens, "done", IF "connection" \in DOMAIN tokens THEN 100
                                        ELSE entry.resync_pct),
   out_of_sync_bytes |-> Token(tokens, "out-of-sync", entry.out_of_sync_bytes)]

\* What a line's tokens change in the entry they refine.
Refine(entry, tokens) ==
  [role |-> entry.role,
   disk |-> Token(tokens, "disk", entry.disk),
   conn |-> Token(tokens, "connection", entry.conn),
   resync_pct |-> Token(tokens, "done", entry.resync_pct),
   out_of_sync_bytes |-> Token(tokens, "out-of-sync", entry.out_of_sync_bytes)]

NewEntry(role) == [role |-> role, disk |-> "Unknown", conn |-> "Unknown",
                   resync_pct |-> 100, out_of_sync_bytes |-> 0]

Put(dict, key, value) ==
  [k \in {key} \cup DOMAIN dict |-> IF k = key THEN value ELSE dict[k]]

\* Fault variant: any line with a role opens a block.
OpensIndented(line) == "role" \in DOMAIN line.tokens

\* A block starts at column 0 with its role; the role of a peer is indented.
Opens(line) == line.head # Indent /\ "role" \in DOMAIN line.tokens

ParseInit ==
  /\ report \in [DOMAIN ResourceNames -> Resources]
  /\ text = Printed
  /\ pos = 1
  /\ cur = NoResource
  /\ out = <<>>
  /\ stage = "parse"

Here == text[pos]
Readable(line) == Garbled \notin {line.tokens[k] : k \in DOMAIN line.tokens}
InLoop == stage = "parse" /\ pos <= Len(text)

\* Fault variant: the entry of a new block is a copy of the previous one's.
OpenBlockCopying ==
  /\ InLoop /\ Opens(Here)
  /\ cur' = Here.head
  /\ out' = Put(out, Here.head, IF cur = NoResource THEN NewEntry(Here.tokens["role"])
                                ELSE [out[cur] EXCEPT !.role = Here.tokens["role"]])
  /\ pos' = pos + 1
  /\ UNCHANGED <<report, text, stage>>

\* A resource line makes a new entry.
OpenBlock ==
  /\ InLoop /\ Opens(Here)
  /\ cur' = Here.head
  /\ out' = Put(out, Here.head, Refine(NewEntry(Here.tokens["role"]), Here.tokens))
  /\ pos' = pos + 1
  /\ UNCHANGED <<report, text, stage>>

\* Fault variant: lines before the first block are kept under no name.
RefineBlockUnnamed ==
  /\ InLoop /\ ~Opens(Here) /\ Readable(Here)
  /\ out' = Put(out, cur, Refine(IF cur = NoResource THEN NewEntry("Unknown") ELSE out[cur], Here.tokens))
  /\ pos' = pos + 1
  /\ UNCHANGED <<report, text, cur, stage>>

\* Any other line refines the entry of the current block; before the first
\* block it refines a dict nobody sees.
RefineBlock ==
  /\ InLoop /\ ~Opens(Here) /\ Readable(Here)
  /\ out' = IF cur = NoResource THEN out
            ELSE [out EXCEPT ![cur] = Refine(@, Here.tokens)]
  /\ pos' = pos + 1
  /\ UNCHANGED <<report, text, cur, stage>>

\* float() or int() raises ValueError: nothing is returned.
Raise == /\ InLoop /\ ~Readable(Here)
         /\ stage' = "raised"
         /\ UNCHANGED <<report, text, pos, cur, out>>

Return == /\ stage = "parse" /\ pos > Len(text)
          /\ stage' = "returned"
          /\ UNCHANGED <<report, text, pos, cur, out>>

ParseNext == OpenBlock \/ RefineBlock \/ Raise \/ Return

ParseSpec == ParseInit /\ [][ParseNext]_parseVars

---------------------------------------------------------------------------
Entries == [role : {"Primary", "Secondary"},
            disk : {"Unknown", "UpToDate", "Diskless"},
            conn : {"Unknown", "Connected", "StandAlone"},
            resync_pct : {100, 42}, out_of_sync_bytes : {0, 7}]

ParseTypeOK ==
  /\ report \in [DOMAIN ResourceNames -> Resources]
  /\ text = Printed
  /\ pos \in 1 .. Len(text) + 1
  /\ cur \in ToSet(ResourceNames) \cup {NoResource}
  /\ DOMAIN out \subseteq ToSet(ResourceNames)
  /\ \A name \in DOMAIN out : out[name] \in Entries
  /\ stage \in {"parse", "returned", "raised"}

\* The reference: what a block says of a key is its last line, so far, that
\* has the key.  The block of a resource ends where the next one starts.
Start(name) == CHOOSE k \in DOMAIN text : text[k].head = name
Read(name) == {k \in Start(name) .. pos - 1 :
                 \A j \in Start(name) + 1 .. k : text[j].head = Indent}
Says(name, key, default) ==
  LET with == {k \in Read(name) : key \in DOMAIN text[k].tokens}
  IN IF with = {} THEN default ELSE text[Max(with)].tokens[key]

\* At every line, each entry holds what its own block has said so far, and
\* nothing of a neighbour's block: a Diskless or StandAlone resource never
\* colours the next one, nor does a healthy one paint it over.
OwnBlockOnly ==
  \A name \in DOMAIN out :
    /\ out[name].disk = Says(name, "disk", "Unknown")
    /\ out[name].conn = Says(name, "connection", "Unknown")
    /\ out[name].resync_pct = Says(name, "done", 100)
    /\ out[name].out_of_sync_bytes = Says(name, "out-of-sync", 0)

Known(value, default) == IF value = NoToken THEN default ELSE value

\* Every resource is returned, and one with a single peer exactly as it is.
ExactForOnePeer ==
  stage = "returned" =>
    /\ DOMAIN out = ToSet(ResourceNames)
    /\ \A i \in DOMAIN ResourceNames : Len(report[i].peers) = 1 =>
         LET peer == report[i].peers[1] IN
         out[ResourceNames[i]] = [role |-> report[i].role, disk |-> report[i].disk,
                          conn |-> peer.conn,
                          resync_pct |-> Known(peer.done, 100),
                          out_of_sync_bytes |-> Known(peer.lag, 0)]

\* A resync is never reported as complete while some peer is still syncing,
\* however many peers are in sync.
ResyncVisible ==
  stage = "returned" => \A i \in DOMAIN ResourceNames :
    out[ResourceNames[i]].resync_pct = 100 <=> \A k \in DOMAIN report[i].peers :
                                          report[i].peers[k].done = NoToken

\* "The connection state (Connected/StandAlone/...) drives the integrity
\* light" (drbd.py:30-31): a StandAlone peer is seen.
StandAloneShows ==
  stage = "returned" => \A i \in DOMAIN ResourceNames :
    (\E k \in DOMAIN report[i].peers : report[i].peers[k].conn = "StandAlone")
      => out[ResourceNames[i]].conn = "StandAlone"
=============================================================================
