--------------------------------- MODULE Prompts ---------------------------------
(* Prompt dumps: what dynamo-prompt-dump.patch writes, how the prompts are chained   *)
(* into sessions and their tokens told apart (analyze_prompt_kv_composition.py), and *)
(* how a prompt is cut into turns and segments (export_prompt_turns.py).  A text is a *)
(* sequence of symbols: markers of the chat template, tags, and everything else.     *)
(* Offsets count from 0, as in the scripts; an interval <<a, b>> is half open.       *)
EXTENDS Integers, Sequences, SequencesExt, FiniteSetsExt

CONSTANTS
  None,
  MinChars, MinFrac,     \* --min-prefix-chars; --min-prefix-frac as <<numerator, denominator>>
  TokenChars             \* symbols to a token

ASSUME PromptsAssumption ==
  /\ MinChars \in Nat /\ TokenChars \in Nat \ {0}
  /\ MinFrac[1] \in Nat /\ MinFrac[2] \in Nat \ {0}

\* The symbols with a meaning.
TurnStart == "<|im_start|>"
TurnEnd == "<|im_end|>"
Newline == "newline"
TitleMarker == "title"
FileOpen == "<content>"
FileClose == "</content>"
ParamOpen == "<parameter=content>"
ParamClose == "</parameter>"
Close == [tag \in {"<tool_call>", "<tool_response>", "<think>"} |->
            CASE tag = "<tool_call>" -> "</tool_call>"
              [] tag = "<tool_response>" -> "</tool_response>"
              [] OTHER -> "</think>"]

Bigger(a, b) == IF a >= b THEN a ELSE b
Smaller(a, b) == IF a <= b THEN a ELSE b
Sum(seq) == FoldLeft(+, 0, seq)

\* The first offset in a..b-1 at which text has a symbol of S, or None.
Find(text, S, a, b) ==
  LET at == {i \in a..(b - 1) : text[i + 1] \in S}
  IN  IF at = {} THEN None ELSE Min(at)

-------------------------------------------------------------------------------
(* The dump, and its chains.  A record is [ts, rid, role, text]. *)

\* load_dump: of a request's copies the first from prefill, or else the first; in the
\* order of their time stamps.  Copies without a text are of no use.
LoadDump(read) ==
  LET usable == SelectSeq(read, LAMBDA r : r.text # None)
      Copies(rid) == SelectSeq(usable, LAMBDA r : r.rid = rid)
      Chosen(rid) ==
        LET prefill == SelectSeq(Copies(rid), LAMBDA r : r.role = "prefill")
        IN  Head(IF prefill = <<>> THEN Copies(rid) ELSE prefill)
  IN  SetToSortSeq({Chosen(r.rid) : r \in ToSet(usable)}, LAMBDA p, q : p.ts < q.ts)

\* Title requests are dropped (main).
Titled(text) == TitleMarker \in ToSet(text)
Kept(records) == SelectSeq(records, LAMBDA r : ~Titled(r.text))

LcpLen(a, b) ==
  LET differ == {i \in 1..Smaller(Len(a), Len(b)) : a[i] # b[i]}
  IN  IF differ = {} THEN Smaller(Len(a), Len(b)) ELSE Min(differ) - 1

Reaches(lcp, previous) ==
  lcp >= MinChars /\ previous > 0 /\ lcp * MinFrac[2] >= MinFrac[1] * previous

\* Fault: however little it shares.
AttachToBest(chains, rec) ==
  LET Shared(i) == LcpLen(Last(chains[i]).text, rec.text)
      best == {i \in 1..Len(chains) : \A j \in 1..Len(chains) : Shared(i) >= Shared(j)}
  IN  IF best = {} THEN Append(chains, <<rec>>)
      ELSE [chains EXCEPT ![Min(best)] = Append(@, rec)]

\* chain_sessions: a prompt joins the first chain whose last prompt it shares most with,
\* if that is enough, and else starts one.
Attach(chains, rec) ==
  LET Shared(i) == LcpLen(Last(chains[i]).text, rec.text)
      best == {i \in 1..Len(chains) : \A j \in 1..Len(chains) : Shared(i) >= Shared(j)}
      i == IF best = {} THEN 0 ELSE Min(best)
  IN  IF i > 0 /\ Reaches(Shared(i), Len(Last(chains[i]).text))
      THEN [chains EXCEPT ![i] = Append(@, rec)]
      ELSE Append(chains, <<rec>>)

ChainSessions(records) == FoldLeft(Attach, <<>>, records)

-------------------------------------------------------------------------------
(* File content and its tokens *)

\* The leftmost matches of open.*?close.
Matches(text, open, close) ==
  LET from[a \in 0..Len(text)] ==
        LET s == Find(text, {open}, a, Len(text))
            e == IF s = None THEN None ELSE Find(text, {close}, s + 1, Len(text))
        IN  IF e = None THEN {} ELSE {<<s, e + 1>>} \cup from[e + 1]
  IN  from[0]

\* Fault: an interval inside an earlier one ends it.
MergeShort(merged, iv) ==
  IF merged # <<>> /\ iv[1] <= Last(merged)[2]
  THEN Append(Front(merged), <<Last(merged)[1], iv[2]>>)
  ELSE Append(merged, iv)

Merge(merged, iv) ==
  IF merged # <<>> /\ iv[1] <= Last(merged)[2]
  THEN Append(Front(merged), <<Last(merged)[1], Bigger(Last(merged)[2], iv[2])>>)
  ELSE Append(merged, iv)

\* file_char_intervals: read's blocks with their tags, the bodies of file-bearing
\* parameters without, sorted and merged.
FileSpans(text) ==
  Matches(text, FileOpen, FileClose)
  \cup {<<m[1] + 1, m[2] - 1>> : m \in Matches(text, ParamOpen, ParamClose)}
FileIntervals(text) ==
  LET Earlier(p, q) == p[1] < q[1] \/ (p[1] = q[1] /\ p[2] < q[2])
  IN  FoldLeft(Merge, <<>>, SetToSortSeq(FileSpans(text), Earlier))

\* TokenMapper: the numbers are multiplied by the length of the text, for "chars" and
\* "ids" divide by it.  A token starts at every multiple of TokenChars.
TokensBefore(n) == (n + TokenChars - 1) \div TokenChars
Tokens(text) == TokensBefore(Len(text))
RegionTokens(text, mode, a, b) ==
  IF b <= a THEN 0
  ELSE IF mode = "tok" THEN (TokensBefore(b) - TokensBefore(a)) * Len(text)
  ELSE (b - a) * Tokens(text)

\* _region_file_tokens, with the clipping of chars_in_region.
FileTokens(text, mode, a, b) ==
  LET ivs == FileIntervals(text)
  IN  Sum([i \in 1..Len(ivs) |->
             RegionTokens(text, mode, Bigger(ivs[i][1], a), Smaller(ivs[i][2], b))])

\* _lcp_tokens: equal tokens from the start, the last of which may be cut short.
LcpTokens(a, b) ==
  LET n == LcpLen(a, b)
  IN  IF n = Len(a) /\ n = Len(b) THEN Tokens(a) ELSE n \div TokenChars

\* main: the row of a prompt after previous (None for the first of a chain).
Row(previous, text, mode) ==
  LET lcp == IF previous = None THEN 0 ELSE LcpLen(previous, text)
      prefix == IF previous # None /\ mode = "ids"
                THEN LcpTokens(previous, text) * Len(text)
                ELSE RegionTokens(text, mode, 0, lcp)
      newFile == FileTokens(text, mode, lcp, Len(text))
      total == Tokens(text) * Len(text)
  IN  [prefixTotal |-> prefix,
       prefixFile |-> FileTokens(text, mode, 0, lcp),
       newFile |-> newFile,
       newOther |-> Bigger(0, Bigger(0, total - prefix) - newFile),
       total |-> total]

-------------------------------------------------------------------------------
(* export_prompt_turns.py *)

\* dedup_requests, --role auto: like load_dump, in the order of the requests' first copies.
Dedup(read) ==
  LET Copies(rid) == SelectSeq(read, LAMBDA r : r.rid = rid)
      Chosen(rid) ==
        LET prefill == SelectSeq(Copies(rid), LAMBDA r : r.role = "prefill")
        IN  Head(IF prefill = <<>> THEN Copies(rid) ELSE prefill)
      First(i) == \A j \in 1..(i - 1) : read[j].rid # read[i].rid
      firsts == SetToSortSeq({i \in 1..Len(read) : First(i)}, <)
  IN  [i \in 1..Len(firsts) |-> Chosen(read[firsts[i]].rid)]

\* export_records: a session's requests in the order of their time stamps, numbered.
ExportOf(read, session, s) ==
  LET mine == {r \in ToSet(Dedup(read)) : session[r.rid] = s}
  IN  SetToSortSeq(mine, LAMBDA p, q : p.ts < q.ts)

Segment(kind, a, b) == [kind |-> kind, start |-> a, end |-> b]

\* scan_segments between two offsets: text up to the next open tag, then the tag's
\* segment up to its close tag, whatever is in between, or else to the end.
ScanSegments(text, from, b) ==
  LET scan[a \in from..b] ==
        LET at == Find(text, DOMAIN Close, a, b)
            tag == text[at + 1]
            end == Find(text, {Close[tag]}, at + 1, b)
        IN  CASE at = None -> IF a < b THEN <<Segment("text", a, b)>> ELSE <<>>
              [] at # None /\ at > a -> <<Segment("text", a, at)>> \o scan[at]
              [] at = a /\ end = None -> <<Segment(tag, a, b)>>
              [] at = a /\ end # None -> <<Segment(tag, a, end + 1)>> \o scan[end + 1]
  IN  scan[from]

Turn(text, role, a, b, from, to, prompt) ==
  [role |-> role, start |-> a, end |-> b, from |-> from, to |-> to, prompt |-> prompt,
   segments |-> ScanSegments(text, from, to)]

\* split_turns, one block from a start marker to the next: its role is on the header
\* line; its content ends at the end marker, or at the end of the block; a header that
\* is cut short, or followed by nothing, is the prompt for the next answer.
Block(text, a, b) ==
  LET header == Find(text, {Newline}, a + 1, b)
      role == IF a + 1 < b THEN text[a + 2] ELSE "_unknown"
      end == IF header = None THEN None ELSE Find(text, {TurnEnd}, header + 1, b)
  IN  IF header = None THEN Turn(text, role, a, b, b, b, TRUE)
      ELSE IF end = None THEN Turn(text, role, a, b, header + 1, b, header + 1 = b)
      ELSE Turn(text, role, a, b, header + 1, end, FALSE)

SplitTurns(text) ==
  LET starts == SetToSortSeq({i \in 0..(Len(text) - 1) : text[i + 1] = TurnStart}, <)
      Stop(i) == IF i < Len(starts) THEN starts[i + 1] ELSE Len(text)
      blocks == [i \in 1..Len(starts) |-> Block(text, starts[i], Stop(i))]
      Whole(role, b) == IF b > 0 THEN <<Turn(text, role, 0, b, 0, b, FALSE)>> ELSE <<>>
  IN  IF starts = <<>> THEN Whole("_raw", Len(text))
      ELSE Whole("_preamble", starts[1]) \o blocks
===============================================================================
