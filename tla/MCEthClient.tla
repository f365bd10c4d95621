----------------------------- MODULE MCEthClient -----------------------------
(***************************************************************************)
(* Two goroutines on one client, each with any of the helpers.  Only       *)
(* DeployContracts is left out, whose fourth transaction is like the third *)
(* of DeployMintApproveErc20.                                              *)
(***************************************************************************)
EXTENDS EthClient

MCPrograms ==
  {RegisterResource, RegisterGenericResource, SetBurnable, DeployAssetStore,
   DeployMintApproveErc20, DeployAndMintErc20, Erc20Approve, Erc20Mint,
   Erc20AddMinter, FundErc20Handler, DeployErc721, Erc721Mint, ApproveErc721,
   Erc721AddMinter, FundErc721Handler, CreateErc721Deposit,
   CreateGenericDeposit, submitEthDeposit, CreateFungibleDeposit}
==============================================================================
