--------------------------- MODULE ReleaseChecks ----------------------------
(***************************************************************************)
(* What deploy.py accepts as the Engram part of a release before prepare   *)
(* and start use it: validate_release and parse_row, continuous_rows, and  *)
(* the comparison with the Engram manifest.  A row of a descriptor says    *)
(* which rows of a layer lie in which two sidecar files.  A file's size is *)
(* counted in rows.  Types, names and hashes are left out.                 *)
(***************************************************************************)
EXTENDS Naturals, Sequences, FiniteSets, Functions

CONSTANTS
  Sidecars,   \* paths of the engram assets
  SizeOf,     \* their sizes
  Pairs,      \* bound: the pairs of paths a row may name
  Layers,     \* bound: layers
  MaxRow,     \* bound: row_start and row_count
  Chunks      \* rows of a descriptor and chunks of a manifest, 52

ASSUME LayersAreNumbers == Layers \subseteq Nat /\ MaxRow \in Nat /\ Chunks \in Nat

\* ROLE_COUNTS: 104 engram assets, of which no two have the same path.
ASSUME TwoSidecarsEach == IsFiniteSet(Sidecars) /\ Cardinality(Sidecars) = 2 * Chunks

Rows ==
  [layer : Layers, row_start : 0 .. MaxRow, row_count : 1 .. MaxRow, sidecars : Pairs]
Descriptors == UNION {[1 .. n -> Rows] : n \in 0 .. Chunks}

-----------------------------------------------------------------------------
\* parse_row: two distinct engram assets of the size the row says.
ParsedRow(row) ==
  LET weight_path == row.sidecars[1]
      scale_path == row.sidecars[2]
  IN /\ weight_path # scale_path
     /\ {weight_path, scale_path} \subseteq Sidecars
     /\ SizeOf[weight_path] = row.row_count /\ SizeOf[scale_path] = row.row_count

Earlier(a, b) == a.layer < b.layer \/ (a.layer = b.layer /\ a.row_start < b.row_start)

Scan0 == [sound |-> TRUE, previous |-> [l \in Layers |-> 0], seen |-> {}]

\* Mutant: the next chunk may begin before the last one ends.
ScanRow_overlap(scan, row) ==
  LET paths == {row.sidecars[1], row.sidecars[2]}
  IN [ sound    |-> /\ scan.sound
                    /\ row.row_start <= scan.previous[row.layer]
                    /\ paths \intersect scan.seen = {},
       previous |-> [scan.previous EXCEPT ![row.layer] = @ + row.row_count],
       seen     |-> scan.seen \union paths ]

\* One row of continuous_rows: it begins where the layer's last one ended, and
\* its files have not been named before.
ScanRow(scan, row) ==
  LET paths == {row.sidecars[1], row.sidecars[2]}
  IN [ sound    |-> /\ scan.sound
                    /\ row.row_start = scan.previous[row.layer]
                    /\ paths \intersect scan.seen = {},
       previous |-> [scan.previous EXCEPT ![row.layer] = @ + row.row_count],
       seen     |-> scan.seen \union paths ]

\* How many rows sorted() puts before row i or in its place: those of a smaller
\* key, and those of the same key that the list names no later.
Place(rows, i) ==
  Cardinality({j \in 1 .. Len(rows) :
                 Earlier(rows[j], rows[i]) \/ (~Earlier(rows[i], rows[j]) /\ j <= i)})

Sorted(rows) ==
  [n \in 1 .. Len(rows) |-> rows[CHOOSE i \in 1 .. Len(rows) : Place(rows, i) = n]]

\* continuous_rows: what it has seen after all rows.
Scanned(rows) ==
  LET sorted == Sorted(rows)
      scan[n \in 0 .. Len(rows)] ==
        IF n = 0 THEN Scan0 ELSE ScanRow(scan[n - 1], sorted[n])
  IN scan[Len(rows)]

\* What validate_release asks of engram_rows.
Accepted(rows) ==
  LET scan == Scanned(rows)
  IN /\ Len(rows) = Chunks
     /\ \A i \in 1 .. Len(rows) : ParsedRow(rows[i])
     /\ scan.sound
     /\ scan.seen = Sidecars

\* Where the rows of layer l end.
Ends(rows, l) ==
  {r.row_start + r.row_count : r \in {r \in Range(rows) : r.layer = l}}

\* The chunks of the Engram manifest are the rows of the release
\* (parse_engram_manifest, check_engram_manifest).
SameRows(rows, chunks) ==
  /\ Len(chunks) = Chunks
  /\ Range(chunks) = Range(rows)
  /\ Scanned(chunks).sound

\* They end where the manifest says, for each layer it states: its total is the
\* greatest of the ends.
CoverTotals(rows, totals) ==
  \A l \in DOMAIN totals :
    totals[l] \in Ends(rows, l) /\ \A end \in Ends(rows, l) : end <= totals[l]

-----------------------------------------------------------------------------
(* What it is for. *)

\* The places where row r of layer l is said to be.
PlacesOf(rows, l, r) ==
  {i \in 1 .. Len(rows) : rows[i].layer = l /\ r \in rows[i].row_start ..
                                                    rows[i].row_start + rows[i].row_count - 1}

\* Every row of a layer up to the last one that is named is in one place, every
\* file belongs to one row of the descriptor and holds as many rows as it says.
Usable(rows) ==
  LET named(i) == {rows[i].sidecars[1], rows[i].sidecars[2]}
  IN /\ \A i \in 1 .. Len(rows), n \in 0 .. 2 * MaxRow :
          n < rows[i].row_start + rows[i].row_count =>
            Cardinality(PlacesOf(rows, rows[i].layer, n)) = 1
     /\ \A file_ \in Sidecars :
          Cardinality({i \in 1 .. Len(rows) : file_ \in named(i)}) = 1
     /\ \A i \in 1 .. Len(rows) :
          /\ Cardinality(named(i)) = 2 /\ named(i) \subseteq Sidecars
          /\ \A file_ \in named(i) : SizeOf[file_] = rows[i].row_count

Misjudged == {rows \in Descriptors : Accepted(rows) # Usable(rows)}

\* The manifests whose chunks parse_engram_manifest accepts, and what they may
\* state of the layers of these chunks, and of others.
Manifests ==
  {[chunks |-> list, layers |-> {list[i].layer : i \in 1 .. Len(list)}] :
     list \in {c \in Descriptors : Scanned(c).sound}}
Totals(manifest) ==
  UNION {[stated -> 1 .. 3 * MaxRow] :
           stated \in {set \in SUBSET Layers : manifest.layers \subseteq set}}

\* Does the index of rows lead to the files the manifest names, for each row the
\* manifest states and no other?
Leads(rows, chunks, totals) ==
  \A l \in Layers, n \in 0 .. 3 * MaxRow :
    LET stated == l \in DOMAIN totals /\ n < totals[l]
        files(list) == {list[i].sidecars : i \in PlacesOf(list, l, n)}
    IN /\ files(rows) = files(chunks)
       /\ Cardinality(files(rows)) = IF stated THEN 1 ELSE 0

Misled ==
  {rows \in Descriptors :
     /\ Accepted(rows)
     /\ \E manifest \in Manifests :
          /\ SameRows(rows, manifest.chunks)
          /\ \E totals \in Totals(manifest) :
               CoverTotals(rows, totals) /\ ~Leads(rows, manifest.chunks, totals)}
=============================================================================
