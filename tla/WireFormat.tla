------------------------------ MODULE WireFormat ------------------------------
(***************************************************************************)
(* What a message looks like on its way: ac-lib/enc.c encrypts and encodes *)
(* the text a user typed, input_send_msg pads it.                          *)
(*                                                                         *)
(* A message is a record: an identity (it stands for the text and for the  *)
(* random session key), the alias it is for, the length of the text, and   *)
(* the byte that memory happens to hold behind the blocks allocated for    *)
(* it.  Texts are sequences of ASCII codes.                                *)
(***************************************************************************)
EXTENDS Base64

CONSTANTS MESSAGE_LENGTH,   \* characters of a padded message
          BlockSize,        \* bytes of a block of the cipher
          KeySize,          \* bytes of an encrypted session key
          IvSize,           \* bytes of an initialisation vector
          LongestText,      \* longest text that fits: a claim, see AllAlike
          OpenSSL(_, _, _)  \* the bytes it makes of a message, see EVP_Seal

ASSUME WireAssumption ==
  /\ {MESSAGE_LENGTH, BlockSize, KeySize, IvSize} \subseteq Nat \ {0}
  /\ LongestText \in Nat

Message == [id : Nat, to : STRING, len : Nat, after : 0..255]

Space == 32

-------------------------------------------------------------------------------
(* The OpenSSL calls: n bytes are filled up to whole blocks, of which the   *)
(* last is never without filling.  The bytes may be any and mean nothing    *)
(* here.                                                                    *)
Byte(x) == IF x \in 0..255 THEN x ELSE 0

EVP_Seal(id, n) ==
  [msg |-> [i \in 1..((n \div BlockSize + 1) * BlockSize) |-> Byte(OpenSSL(id, "msg", i))],
   key |-> [i \in 1..KeySize |-> Byte(OpenSSL(id, "key", i))],
   iv  |-> [i \in 1..IvSize |-> Byte(OpenSSL(id, "iv", i))]]

client_encrypt_msg(m) == EVP_Seal(m.id, m.len + 1)

(* One byte more than the encrypted text has is encoded.                    *)
parse_encrypted_msg_str(sealed, after) ==
  Base64encode(Append(sealed.msg, after)) \o <<Space>> \o Base64encode(sealed.key)
    \o <<Space>> \o Base64encode(sealed.iv)

(* Mutation: the initialisation vector is forgotten.                        *)
encoded_len_NoIv(sealed) ==
  Base64encode_len(Len(sealed.msg)) + Base64encode_len(Len(sealed.key)) + 3

(* The size of the buffer the encoding is written to.                       *)
encoded_len(sealed) ==
  Base64encode_len(Len(sealed.msg)) + Base64encode_len(Len(sealed.key))
    + Base64encode_len(Len(sealed.iv)) + 3

msg_encrypt_encode(m) == parse_encrypted_msg_str(client_encrypt_msg(m), m.after)

(* Some characters from '0' to 'w'; which ones makes no difference.         *)
str_rand(len) == [i \in 1..len |-> 48 + ((i * 5) % 72)]

(* Mutation: the space between the message and the padding is forgotten in  *)
(* the length.                                                              *)
PaddedByOneMore(m) ==
  LET encoded == msg_encrypt_encode(m) IN
  IF Len(encoded) < MESSAGE_LENGTH
  THEN encoded \o <<Space>> \o str_rand(MESSAGE_LENGTH - Len(encoded))
  ELSE SubSeq(encoded, 1, MESSAGE_LENGTH) \o (IF m.after = 0 THEN <<>> ELSE <<m.after>>)

(* The text input_send_msg sends.  An encoding that leaves no room for      *)
(* padding is cut by strncpy, which leaves no room for the NUL either: the  *)
(* send goes on to the first NUL behind the block.                          *)
Padded(m) ==
  LET encoded == msg_encrypt_encode(m) IN
  IF Len(encoded) < MESSAGE_LENGTH
  THEN encoded \o <<Space>> \o str_rand(MESSAGE_LENGTH - Len(encoded) - 1)
  ELSE SubSeq(encoded, 1, MESSAGE_LENGTH) \o (IF m.after = 0 THEN <<>> ELSE <<m.after>>)

-------------------------------------------------------------------------------
(* strtok on a text in which everything before from was taken by earlier    *)
(* calls: where the next word begins and ends.  There is none when first is *)
(* 0, for which strtok returns NULL.                                        *)
strtok(text, from, to, delim) ==
  LET first == SelectInSubSeq(text, from, to, LAMBDA c : c # delim)
      stop  == SelectInSubSeq(text, first, to, LAMBDA c : c = delim)
  IN  [first |-> first, last |-> IF first > 0 /\ stop > 0 THEN stop - 1 ELSE to]
===============================================================================
