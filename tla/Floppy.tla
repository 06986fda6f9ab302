------------------------------- MODULE Floppy -------------------------------
(***************************************************************************)
(* The reader of floppy images (src/core/adfread.c): directories are hash  *)
(* tables of chained header blocks, files are tables of data blocks that   *)
(* go on in extension blocks.  Damaged images may link anything to         *)
(* anything.                                                               *)
(*                                                                         *)
(* Data: an image is a function from block numbers to blocks.  A block is  *)
(* a record with every field a reader may take from it; which ones mean    *)
(* something depends on who reads.  A block's name is its number, a path   *)
(* is a sequence of names, a file's content the data blocks it is made of. *)
(***************************************************************************)
EXTENDS Integers, Sequences, SequencesExt, FiniteSetsExt

CONSTANTS
    MaxDepth,     \* MAX_DEPTH: nested drawers
    MaxChain,     \* 4096: entries of a chain, extension blocks of a file
    MaxBlocks,    \* 8192: data blocks of a file
    TableSize,    \* HT_SIZE: slots of a table
    BlockBytes    \* what a data block holds

ASSUME FloppyAssumption ==
    {MaxDepth, MaxChain, MaxBlocks, TableSize, BlockBytes} \subseteq Nat

\* sec: "dir", "file" or "other"; table: the hash table or the data blocks,
\* of which a file uses `used`; size: byte_size; data: an OFS block's data_size
\* (an FFS block's is BlockBytes).
Readable(img, b) == b \in DOMAIN img
None == 0        \* the boot block, no entry of anything

\* The blocks from e on along the links `next`: as far as they can be read, and
\* `max` of them.
Followed(next, e, max) ==
    LET readable(b) == IF b \in DOMAIN next THEN b ELSE None
        nth[n \in 0..max] ==
            IF n = 0 THEN readable(e)
            ELSE LET b == nth[n - 1] IN IF b = None THEN None ELSE readable(next[b])
    IN [k \in 1..Cardinality({n \in 0..(max - 1) : nth[n] # None}) |-> nth[k - 1]]

-----------------------------------------------------------------------------
(***************************************************************************)
(* Files.                                                                  *)
(***************************************************************************)
\* file_blocks: the tables of the header and of its extension blocks.
TableOf(img, b) == SubSeq(img[b].table, 1, Min({img[b].used, TableSize}))
FileBlocks(img, f) ==
    LET headers == Followed([b \in DOMAIN img |-> img[b].ext], f, MaxChain + 1)
        all     == FlattenSeq([k \in DOMAIN headers |-> TableOf(img, headers[k])])
    IN SubSeq(all, 1, Min({Len(all), MaxBlocks}))

\* extract_file: up to the first block that cannot be read, at most size bytes.
Taken(img, left, b) == Min({left, img[b].data, BlockBytes})

WriteBlock(img, file, b) ==
    IF file.stop \/ file.left = 0 \/ ~Readable(img, b) THEN [file EXCEPT !.stop = TRUE]
    ELSE [file EXCEPT !.left = file.left - Taken(img, file.left, b),
                      !.out = Append(file.out, [block |-> b, bytes |-> Taken(img, file.left, b)])]

ExtractFile(img, f) ==
    LET blocks == FileBlocks(img, f)
        file[k \in 0..Len(blocks)] ==
            IF k = 0 THEN [stop |-> FALSE, left |-> img[f].size, out |-> <<>>]
            ELSE WriteBlock(img, file[k - 1], blocks[k])
    IN file[Len(blocks)].out

-----------------------------------------------------------------------------
(***************************************************************************)
(* Drawers.                                                                *)
(***************************************************************************)
FirstOfEachChain(img, b) ==                                             \* mutant
    SelectSeq(SubSeq(img[b].table, 1, TableSize), LAMBDA e : Readable(img, e))
EntriesOf(img, b) ==
    LET chain == [e \in DOMAIN img |-> img[e].chain]
    IN FlattenSeq([k \in 1..TableSize |-> Followed(chain, img[b].table[k], MaxChain)])

\* One entry of a drawer: a file comes out, of a drawer what is `inside` it.
FromEntry(img, e, inside) ==
    CASE img[e].sec = "dir"  ->
            LET files == inside[e]
            IN [k \in DOMAIN files |-> [files[k] EXCEPT !.path = <<e>> \o files[k].path]]
      [] img[e].sec = "file" -> <<[path |-> <<e>>, out |-> ExtractFile(img, e)]>>
      [] OTHER               -> <<>>

\* extract_dir: what it writes below any drawer, `levels` of drawers deep.
Inside(img, levels) ==
    LET inside[d \in 0..levels] ==
            IF d = 0 THEN [b \in DOMAIN img |-> <<>>]
            ELSE [b \in DOMAIN img |->
                     LET entries == EntriesOf(img, b)
                     IN FlattenSeq([k \in DOMAIN entries |-> FromEntry(img, entries[k], inside[d - 1])])]
    IN inside[levels]

Extract(img, root) == IF Readable(img, root) THEN Inside(img, MaxDepth + 1)[root] ELSE <<>>

-----------------------------------------------------------------------------
(***************************************************************************)
(* What is expected of them.                                               *)
(***************************************************************************)
Headers(img) == DOMAIN img \ {None}

\* S, and what is chained to its blocks.
WithChained(img, S) ==
    LET within[n \in 0..Cardinality(Headers(img))] ==
            IF n = 0 THEN S
            ELSE within[n - 1] \cup ({img[b].chain : b \in within[n - 1]} \cap Headers(img))
    IN within[Cardinality(Headers(img))]

\* Block e is an entry of drawer d.
Holds(img, d, e) ==
    /\ img[d].sec \in {"root", "dir"}
    /\ e \in WithChained(img, {img[d].table[k] : k \in 1..TableSize} \cap Headers(img))

\* Every block is linked from one place at most and all links lead to blocks.
Sound(img) ==
    LET heads == {h \in Headers(img) \X (1..TableSize) :
                      img[h[1]].sec \in {"root", "dir"} /\ img[h[1]].table[h[2]] # None}
        links == {d \in Headers(img) : img[d].sec # "root" /\ img[d].chain # None}
        targets(e) == Cardinality({h \in heads : img[h[1]].table[h[2]] = e})
                    + Cardinality({d \in links : img[d].chain = e})
    IN /\ \A h \in heads : img[img[h[1]].table[h[2]]].sec # "root"
       /\ \A h \in heads : Readable(img, img[h[1]].table[h[2]])
       /\ \A d \in links : Readable(img, img[d].chain) /\ img[img[d].chain].sec # "root"
       /\ \A e \in Headers(img) : targets(e) <= 1

\* The place of a path in a sound image: each name lies in the drawer before it.
IsPath(img, root, p) ==
    /\ p # <<>> /\ Holds(img, root, p[1])
    /\ \A k \in 1..(Len(p) - 1) : img[p[k]].sec = "dir" /\ Holds(img, p[k], p[k + 1])

BytesOf(out) ==
    LET total[k \in 0..Len(out)] == IF k = 0 THEN 0 ELSE total[k - 1] + out[k].bytes
    IN total[Len(out)]

\* From a sound image whose drawers are not nested too deep every file comes
\* out once and under its own path; from any image files come out of drawers at
\* most MaxDepth deep, none with more bytes than its header says.
ImageExtracted(img, root) ==
    LET files == Extract(img, root) IN
    /\ \A k \in DOMAIN files :
          LET f == files[k] IN
          /\ Len(f.path) <= MaxDepth + 1
          /\ BytesOf(f.out) <= img[Last(f.path)].size
    /\ Sound(img) =>
          /\ \A k \in DOMAIN files : IsPath(img, root, files[k].path)
          /\ \A f \in {b \in Headers(img) : img[b].sec = "file"} :
                LET places == {k \in DOMAIN files : Last(files[k].path) = f}
                    reach == \E n \in 1..(MaxDepth + 1) :
                                \E p \in [1..n -> Headers(img)] :
                                   p[n] = f /\ IsPath(img, root, p)
                IN Cardinality(places) = IF reach THEN 1 ELSE 0

\* A file whose blocks are whole comes out whole and in order.
FileExtracted(img, f) ==
    LET blocks == FileBlocks(img, f)
        out == ExtractFile(img, f)
    IN /\ IsPrefix([k \in DOMAIN out |-> out[k].block], blocks)
       /\ (\A k \in DOMAIN blocks : Readable(img, blocks[k]) /\ img[blocks[k]].data = BlockBytes)
             => BytesOf(out) = Min({img[f].size, BlockBytes * Len(blocks)})
=============================================================================
