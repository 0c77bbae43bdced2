------------------------------ MODULE Workload ------------------------------
(***************************************************************************)
(* The benchmark program: main of src/src/main.c and the encrypting front  *)
(* end of src/src/cache_wrapper.c, driving the cache of module Cache.      *)
(*                                                                         *)
(* main stores nitems values, then reads each of them npasses times; a     *)
(* read goes through cache_get_wrapper, which decrypts the request block   *)
(* by block, asks the cache and encrypts the reply block by block.  The    *)
(* block cipher never fails and is its own business: a message is known    *)
(* once all of its bytes have been through it.                             *)
(***************************************************************************)
EXTENDS Cache

CONSTANTS
  Passes, Items,      \* arguments npasses and nitems to run with
  NCHARS,             \* characters of a key                  (5)
  ALPHABETSIZE,       \* characters to choose from            (64)
  TheValue            \* "hell1hell2hell3hell4hell5"

sizeof_int   == 4
AesBlock     == 16
MAX_MSG_SIZE == 256

ASSUME WorkloadAssumption ==
  /\ Passes \subseteq Nat /\ Items \subseteq Nat
  /\ NCHARS \in 1 .. 59 /\ ALPHABETSIZE \in 1 .. 64      \* char keybuf[60]
  /\ TheValue \in Value
  /\ MAX_MSG_SIZE - sizeof_int \in Buffers

(* The characters, by their codes. *)
whichchar(i) ==
  IF i < 26 THEN 65 + i
  ELSE IF i < 52 THEN 97 + (i - 26)
  ELSE IF i < 62 THEN 48 + (i - 52)
  ELSE 58 + (i - 62)

(* intkey before each iteration of the loop of make_key and after the last *)
Divided(intkey) ==
  LET d[k \in 0 .. NCHARS] == IF k = 0 THEN intkey ELSE d[k - 1] \div ALPHABETSIZE IN d

(* What "assert(intkey == 0)" looks at. *)
Rest(intkey) == Divided(intkey)[NCHARS]

(* Mutant: the same digit for every character. *)
make_key_OneDigit(intkey) ==
  [k \in 0 .. NCHARS - 1 |-> whichchar(intkey % ALPHABETSIZE)]

make_key(intkey) ==
  [k \in 0 .. NCHARS - 1 |-> whichchar(Divided(intkey)[k] % ALPHABETSIZE)]

KeyStrings == [0 .. NCHARS - 1 -> {whichchar(d) : d \in 0 .. ALPHABETSIZE - 1}]

(* Any string is a key, and there are names for more items than the page   *)
(* has chunks: 64^5 against 2^19.                                          *)
ASSUME NamesAssumption ==
  /\ KeyStrings \subseteq Key
  /\ \A k \in KeyStrings : nkey[k] = NCHARS
  /\ Rest(perslab) = 0

(* An item of main is one for the chunks of slab_init, and its value is    *)
(* short: 32 + 5 + 1 + 25 + 1 bytes, in chunks of 64.                      *)
ASSUME ItemAssumption ==
  /\ \A c \in Class :
       sizeof_item + NCHARS + 1 + nval[TheValue] + 1 <= class_size[c] <=> c >= PreClass
  /\ nval[TheValue] + sizeof_int <= 128

(* A C char: bytes_dec and bytes_enc are signed and 8 bits wide. *)
SignedChar(n) == ((n + 128) % 256) - 128

(* A char compared with a size_t; 2^30, for 2^64, is beyond every length. *)
SizeMod == 1024 * 1024 * 1024
SizeT(n) == IF n < 0 THEN n + SizeMod ELSE n

VARIABLES
  npasses, nitems,    \* arguments of the program
  mpc,                \* where main and the wrapper are
  i, j,               \* loop variables of main
  enclen,             \* length of the encrypted request
  bytes_dec, bytes_enc,
  sent                \* bytes of the reply that were encrypted

mainVars == <<npasses, nitems, mpc, i, j, enclen, bytes_dec, bytes_enc, sent>>
allVars  == <<vars, mainVars>>

WInit ==
  /\ Init
  /\ npasses \in Passes /\ nitems \in Items
  /\ mpc = "wrapper_init"
  /\ i = 0 /\ j = 0
  /\ enclen = 0 /\ bytes_dec = 0 /\ bytes_enc = 0 /\ sent = 0

CacheIdle == pc = "idle" /\ UNCHANGED vars

-----------------------------------------------------------------------------
(* wrapper_init and main up to the first loop. *)
wrapper_init ==
  /\ mpc = "wrapper_init"
  /\ CacheIdle
  /\ mpc' = "set"
  /\ UNCHANGED <<i, j, enclen, bytes_dec, bytes_enc, sent>>

(* The assertion in make_key is the guard Rest(i) = 0.  The first set is   *)
(* also the first call of the cache, and ends the program if the hash      *)
(* table is missing.                                                       *)
set_value ==
  /\ mpc = "set"
  /\ i < nitems
  /\ Rest(i) = 0
  /\ \/ Call([op |-> "set", key |-> make_key(i), value |-> TheValue])
     \/ call_faults
  /\ mpc' = "setting"
  /\ UNCHANGED <<i, j, enclen, bytes_dec, bytes_enc, sent>>

(* Mutant: the result of cache_set is not looked at. *)
Stored_Unchecked == TRUE

(* "assert(r >=0)" *)
Stored == ret.rc >= 0

set_done ==
  /\ mpc = "setting"
  /\ CacheIdle
  /\ \/ Stored /\ mpc' = "set" /\ i' = i + 1
     \/ ~Stored /\ mpc' = "aborted" /\ i' = i
  /\ UNCHANGED <<j, enclen, bytes_dec, bytes_enc, sent>>

sets_done ==
  /\ mpc = "set"
  /\ i = nitems
  /\ CacheIdle
  /\ mpc' = "pass" /\ i' = 0
  /\ UNCHANGED <<j, enclen, bytes_dec, bytes_enc, sent>>

(* "Rep start marker" *)
pass_start ==
  /\ mpc = "pass"
  /\ j < npasses
  /\ CacheIdle
  /\ mpc' = "get" /\ i' = 0
  /\ UNCHANGED <<j, enclen, bytes_dec, bytes_enc, sent>>

(* encrypt_key: whole blocks until nothing remains; then cache_get_wrapper *)
(* is entered.                                                             *)
Blocks(n) == (n + AesBlock - 1) \div AesBlock

encrypt_key ==
  /\ mpc = "get"
  /\ i < nitems
  /\ Rest(i) = 0
  /\ CacheIdle
  /\ mpc' = "decrypt"
  /\ enclen' = AesBlock * Blocks(NCHARS + sizeof_int)
  /\ bytes_dec' = 0 /\ bytes_enc' = 0 /\ sent' = 0
  /\ UNCHANGED <<i, j>>

(* "enc_len > bytes_dec" *)
MoreToDecrypt == enclen > bytes_dec

(* One iteration of the loop that decrypts the request. *)
decrypt_block ==
  /\ mpc = "decrypt"
  /\ MoreToDecrypt
  /\ CacheIdle
  /\ bytes_dec' = SignedChar(bytes_dec + AesBlock)
  /\ UNCHANGED <<mpc, i, j, enclen, bytes_enc, sent>>

call_cache_get ==
  /\ mpc = "decrypt"
  /\ ~MoreToDecrypt
  /\ Call([op |-> "get", key |-> make_key(i), maxnval |-> MAX_MSG_SIZE - sizeof_int])
  /\ mpc' = "getting"
  /\ UNCHANGED <<i, j, enclen, bytes_dec, bytes_enc, sent>>

cache_get_done ==
  /\ mpc = "getting"
  /\ CacheIdle
  /\ mpc' = IF ret.rc = -1 THEN "returned" ELSE "encrypt"
  /\ UNCHANGED <<i, j, enclen, bytes_dec, bytes_enc, sent>>

(* Mutant: only whole blocks are encrypted. *)
MoreToEncrypt_Whole == SizeT(bytes_enc) + AesBlock <= ret.rc + sizeof_int

(* Mutant: a comparison of ints, as that of the other loop is. *)
MoreToEncrypt_Signed == bytes_enc < ret.rc + sizeof_int

(* "bytes_enc < valn + sizeof(int)" *)
MoreToEncrypt == SizeT(bytes_enc) < ret.rc + sizeof_int

(* One iteration of the loop that encrypts the reply. *)
encrypt_block ==
  /\ mpc = "encrypt"
  /\ MoreToEncrypt
  /\ CacheIdle
  /\ bytes_enc' = SignedChar(bytes_enc + AesBlock)
  /\ sent' = sent + AesBlock
  /\ UNCHANGED <<mpc, i, j, enclen, bytes_dec>>

reply_done ==
  /\ mpc = "encrypt"
  /\ ~MoreToEncrypt
  /\ CacheIdle
  /\ mpc' = "returned"
  /\ UNCHANGED <<i, j, enclen, bytes_dec, bytes_enc, sent>>

(* Back in main, which does not look at the result. *)
get_done ==
  /\ mpc = "returned"
  /\ CacheIdle
  /\ mpc' = "get"
  /\ i' = i + 1
  /\ UNCHANGED <<j, enclen, bytes_dec, bytes_enc, sent>>

(* Mutant: the loop over the passes has no j++. *)
NextPass_Same == j

NextPass == j + 1

(* "Rep end marker" *)
pass_done ==
  /\ mpc = "get"
  /\ i = nitems
  /\ CacheIdle
  /\ mpc' = "pass" /\ j' = NextPass
  /\ UNCHANGED <<i, enclen, bytes_dec, bytes_enc, sent>>

(* wrapper_free and the end of main. *)
exit ==
  /\ mpc = "pass"
  /\ j = npasses
  /\ CacheIdle
  /\ mpc' = "exit"
  /\ UNCHANGED <<i, j, enclen, bytes_dec, bytes_enc, sent>>

Main ==
  \/ wrapper_init \/ set_value \/ set_done \/ sets_done
  \/ pass_start \/ encrypt_key \/ decrypt_block \/ call_cache_get \/ cache_get_done
  \/ encrypt_block \/ reply_done \/ get_done \/ pass_done \/ exit

(* One thread: main waits while the cache is in a call. *)
InCache == Step /\ UNCHANGED mainVars

Gone == (mpc \in {"exit", "aborted"} \/ pc = "crashed") /\ UNCHANGED allVars

(* The thread's own steps. *)
Run == (Main /\ UNCHANGED <<npasses, nitems>>) \/ InCache

WNext == Run \/ Gone

(* The one thread keeps running. *)
WSpec == WInit /\ [][WNext]_allVars /\ WF_allVars(Run)

-----------------------------------------------------------------------------
(* Properties *)

HasMemory == nsplit = perslab

(* "assert(r >=0)" in main: once slab_init has its page, every set is      *)
(* stored, whatever nitems the program was started with.                   *)
SetsSucceed == HasMemory => mpc # "aborted"

(* The same for as many items as the page has chunks: not one chunk is     *)
(* lost to the order in which the items were stored.                       *)
SetsSucceedWithinPage == HasMemory /\ nitems <= perslab => mpc # "aborted"

(* "assert(intkey == 0)" in make_key: main stops before it runs out of     *)
(* characters for its keys.                                                *)
KeysSuffice == mpc \in {"set", "get"} /\ i < nitems => Rest(i) = 0

(* Every read hits, as long as the cache has memory: nothing main stored   *)
(* is lost, overwritten or found under another key.                        *)
GetsHit ==
  HasMemory /\ mpc \in {"encrypt", "returned"} => ret = [rc |-> nval[TheValue], value |-> TheValue]

(* cache_get_wrapper encrypts the whole reply, length word included,       *)
(* although it counts the bytes in an 8-bit signed counter.                *)
ReplyComplete ==
  HasMemory /\ mpc = "returned" => sent >= ret.rc + sizeof_int

(* What main stored is what it set out to store: after the sets there are  *)
(* nitems different keys in the buckets, so the measured working set has   *)
(* the size asked for.                                                     *)
WorkingSet ==
  HasMemory /\ mpc \in {"pass", "get", "exit"} => Cardinality(Linked) = nitems

(* An 8-bit counter that has wrapped around is never used as an index, nor *)
(* does one pass the end of its buffer: every block lies within the 256    *)
(* bytes of the message, request or reply.                                 *)
BlocksInBounds ==
  /\ mpc = "decrypt" /\ MoreToDecrypt => bytes_dec \in 0 .. MAX_MSG_SIZE - AesBlock
  /\ mpc = "encrypt" /\ MoreToEncrypt => bytes_enc \in 0 .. MAX_MSG_SIZE - AesBlock

(* The program comes to an end. *)
Ends == <>(mpc \in {"exit", "aborted"} \/ pc = "crashed")
=============================================================================
