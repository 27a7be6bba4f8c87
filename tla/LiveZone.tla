------------------------------ MODULE LiveZone ------------------------------
(***************************************************************************)
(* src/live_zone.rs: replacements in the mutable part of a prompt whose    *)
(* frozen prefix a provider has cached, and the values in that prefix      *)
(* that would spoil the cache.                                             *)
(*                                                                         *)
(* A text is a sequence of bytes; "more" is a byte that continues a        *)
(* character.  Positions are counted from 0 and a range ends before `end`. *)
(***************************************************************************)
EXTENDS Lines

CONSTANTS
  HashKinds             \* the length of a hash, and what it is a hash of

ByteRange(start, end) == [start |-> start, end |-> end]
Bytes(range) == range.start..(range.end - 1)

Holds(a, b) == b.start >= a.start /\ b.end <= a.end

Overlaps(a, b) == a.start < b.end /\ b.start < a.end

IsCharBoundary(input, p) == p < Len(input) => input[p + 1] # "more"

IsValidFor(range, input) ==
  /\ range.start <= range.end /\ range.end <= Len(input)
  /\ IsCharBoundary(input, range.start) /\ IsCharBoundary(input, range.end)

-----------------------------------------------------------------------------
(***************************************************************************)
(* A zone is [frozen_prefix, mutable_blocks], a replacement [range, text]. *)
(***************************************************************************)
\* Sorted by start; the sort is stable, so equal ones stay in the order given.
ByStart(items) ==
  LET places == DOMAIN items
      Start(k) == items[k].range.start
      before == {p \in places \X places :
                   Start(p[1]) < Start(p[2]) \/ (Start(p[1]) = Start(p[2]) /\ p[1] < p[2])}
      order == Sorted(places, before)
  IN  [k \in DOMAIN order |-> items[order[k]]]

\* What is wrong with the k-th replacement, beside the one before it.
Problem(input, zone, sorted, k) ==
  LET range == sorted[k].range
  IN  CASE ~IsValidFor(range, input) -> "InvalidRange"
        [] Overlaps(range, zone.frozen_prefix) -> "FrozenRangeModified"
        [] ~\E block \in zone.mutable_blocks : Holds(block, range) ->
             "ReplacementOutsideMutableBlock"
        [] k > 1 /\ Overlaps(sorted[k - 1].range, range) -> "OverlappingReplacements"
        [] OTHER -> "none"

Refused(error) == [what |-> "error", error |-> error]

\* What a text has at a range, nothing when it is too short.
BytesAt(text, range) ==
  IF range.end <= Len(text) THEN {SubSeq(text, range.start + 1, range.end)} ELSE {}

splice_live_zone_replacements(input, zone, replacements) ==
  LET sorted == ByStart(replacements)
      ranges == {zone.frozen_prefix} \cup zone.mutable_blocks
      problems == {k \in DOMAIN sorted : Problem(input, zone, sorted, k) # "none"}
      Cursor(k) == IF k = 1 THEN 0 ELSE sorted[k - 1].range.end
      spliced == FoldLeft(LAMBDA out, k :
                            out \o SubSeq(input, Cursor(k) + 1, sorted[k].range.start) \o sorted[k].text,
                          <<>>, [k \in DOMAIN sorted |-> k])
      out == spliced \o SubSeq(input, Cursor(Len(sorted) + 1) + 1, Len(input))
  IN  IF \E range \in ranges : ~IsValidFor(range, input) THEN Refused("InvalidRange")
      ELSE IF problems # {} THEN Refused(Problem(input, zone, sorted, Min(problems)))
      \* A slice that ends before it starts panics.
      ELSE IF \E k \in DOMAIN sorted : Cursor(k) > sorted[k].range.start THEN [what |-> "panic"]
      ELSE [what |-> "rewrite", text |-> out, replaced_blocks |-> Len(sorted),
            frozen_prefix_preserved |->
              BytesAt(input, zone.frozen_prefix) = BytesAt(out, zone.frozen_prefix)]

-----------------------------------------------------------------------------
(***************************************************************************)
(* The values the expressions match in the frozen range, as [kind, range]  *)
(* with positions within that range: tokens, identifiers, times, hashes.   *)
(***************************************************************************)
redacted_sample(kind) == [what |-> "redacted", kind |-> kind]

HashKind(range) == HashKinds[range.end - range.start]

\* A match that overlaps one found before it is passed over.
Collect(findings, offset, kind, ranges) ==
  FoldLeft(LAMBDA found, r :
             LET range == ByteRange(offset + r.start, offset + r.end)
                 named == IF kind = "hash" THEN HashKind(r) ELSE kind
             IN  IF \E f \in ToSet(found) : Overlaps(f.range, range) THEN found
                 ELSE Append(found, [kind |-> named, range |-> range,
                                     redacted_sample |-> redacted_sample(named)]),
           findings, ranges)

VolatileKinds == <<"jwt", "uuid", "iso_timestamp", "hash">>

detect_volatile_cache_values(input, frozen_range, matches) ==
  LET found == FoldLeft(LAMBDA findings, kind :
                          Collect(findings, frozen_range.start, kind, matches[kind]),
                        <<>>, VolatileKinds)
  IN  IF IsValidFor(frozen_range, input) THEN ByStart(found) ELSE <<>>
=============================================================================
