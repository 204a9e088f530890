---------------------------- MODULE AgentMemory ----------------------------
(***************************************************************************)
(* The working memory of a requirement (internal/memory/store.go): facts   *)
(* and snippets, a cap for each kind, the oldest evicted, saved as a whole *)
(* after every change and read back when the work is resumed.  The save    *)
(* truncates the file before it writes it, and a crash may come between.   *)
(***************************************************************************)
EXTENDS Ordering, Sequences, FiniteSetsExt

CONSTANTS MemKeys,  \* keys of entries
          Caps,     \* the cap of each kind: [Kinds -> Nat]
          MaxEmits  \* bound on the number of Emit calls

Kinds == {"fact", "snippet"}

ASSUME MemoryAssumption ==
    IsFiniteSet(MemKeys) /\ Caps \in [Kinds -> Nat \ {0}] /\ MaxEmits \in Nat

VARIABLES up,      \* the process: down, up or saving
          entries, \* Store.entries: a sequence of [kind, key, seq]
          seqNo,   \* Store.seq
          file,    \* the file: [whole, entries]
          emits,   \* how often Emit was called
          stamps,  \* history: per kind and key, which Emit was its last
                   \* since the memory was empty; 0: none
          kept     \* history: what stamps was when the file was written

memVars == <<up, entries, seqNo, file, emits, stamps, kept>>

Never == [kind \in Kinds |-> [key \in MemKeys |-> 0]]

MemInit == /\ up = "down" /\ entries = <<>> /\ seqNo = 0
           /\ file = [whole |-> TRUE, entries |-> <<>>]
           /\ emits = 0 /\ stamps = Never /\ kept = Never

(* A slip: the numbering starts afresh. *)
MemOpen_SeqFromZero ==
    /\ up = "down" /\ up' = "up"
    /\ \/ file.whole /\ entries' = file.entries /\ stamps' = kept
       \/ entries' = <<>> /\ stamps' = Never
    /\ seqNo' = 0
    /\ UNCHANGED <<file, emits, kept>>

(* Open: a file that cannot be read or parsed is an empty memory, which    *)
(* the next save puts in its place.                                        *)
MemOpen ==
    /\ up = "down" /\ up' = "up"
    /\ \/ file.whole /\ entries' = file.entries /\ stamps' = kept
       \/ entries' = <<>> /\ stamps' = Never
    /\ seqNo' = Max({0} \cup {entries'[i].seq : i \in DOMAIN entries'})
    /\ UNCHANGED <<file, emits, kept>>

(* Where the entries of a kind are. *)
Held(es, kind) == {i \in DOMAIN es : es[i].kind = kind}

(* gcAndSave: of a kind beyond its cap those with the lowest numbers go. *)
Collected(es, kind) ==
    LET over == Cardinality(Held(es, kind)) - Caps[kind]
        older(i) == {j \in Held(es, kind) : es[j].seq < es[i].seq}
        drop == {i \in Held(es, kind) : Cardinality(older(i)) < over}
    IN  ElementsAt(es, (DOMAIN es) \ drop)

(* Emit: an entry with this kind and key is renewed in place. *)
Renewed(kind, key, n) ==
    LET same == {i \in Held(entries, kind) : entries[i].key = key}
        e == [kind |-> kind, key |-> key, seq |-> n]
    IN  IF same = {} THEN Append(entries, e) ELSE [entries EXCEPT ![Min(same)] = e]

(* Emit up to os.WriteFile having truncated the file, or failed to open it. *)
Emit(kind, key) ==
    /\ up = "up" /\ emits < MaxEmits
    /\ emits' = emits + 1
    /\ seqNo' = seqNo + 1
    /\ entries' = Collected(Renewed(kind, key, seqNo + 1), kind)
    /\ stamps' = [stamps EXCEPT ![kind][key] = emits + 1]
    /\ \/ up' = "saving" /\ file' = [whole |-> FALSE, entries |-> <<>>]
       \/ UNCHANGED <<up, file>>
    /\ UNCHANGED kept

(* The rest of the save: written, or not to the end. *)
Saved ==
    /\ up = "saving" /\ up' = "up"
    /\ \/ file' = [whole |-> TRUE, entries |-> entries] /\ kept' = stamps
       \/ UNCHANGED <<file, kept>>
    /\ UNCHANGED <<entries, seqNo, emits, stamps>>

(* The process ends, in order or in the middle of a save. *)
MemDown == /\ up # "down" /\ up' = "down"
           /\ entries' = <<>> /\ seqNo' = 0 /\ stamps' = Never
           /\ UNCHANGED <<file, emits, kept>>

MemNext == \/ MemOpen \/ Saved \/ MemDown
           \/ \E kind \in Kinds, key \in MemKeys : Emit(kind, key)

MemSpec == MemInit /\ [][MemNext]_memVars

-----------------------------------------------------------------------------
(* The keys emitted last, up to a cap. *)
Newest(when, cap) ==
    {k \in MemKeys : /\ when[k] > 0
                     /\ Cardinality({m \in MemKeys : when[m] > when[k]}) < cap}

(* The memory holds, of each kind, exactly the entries emitted last, up to *)
(* the cap of that kind and each once, however often the work was resumed, *)
(* since it was last found empty or not to be read ("per-kind count caps   *)
(* and oldest-first GC ... survives resume", store.go:3-5).                *)
MemoryKeepsNewest ==
    up # "down" => \A kind \in Kinds :
        LET held == Held(entries, kind)
        IN  /\ {entries[i].key : i \in held} = Newest(stamps[kind], Caps[kind])
            /\ \A i, j \in held : entries[i].key = entries[j].key => i = j
=============================================================================
