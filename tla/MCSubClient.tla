----------------------------- MODULE MCSubClient -----------------------------
\* A batch of three, and two extrinsics one after another.
EXTENDS SubClient

MCPrograms ==
  {submitSubToEth(3), MintErc721 \o InitiateNonFungibleTransfer}
==============================================================================
