---------------------------- MODULE MCDeviceLife ----------------------------
(* The blocks of the repository, for the one ASIC getAsicType returns. *)
EXTENDS DeviceLife

MCLoadOrder ==
  << "bif_bif_3_0", "bif_bif_4_1", "bif_bif_5_0", "bif_bif_5_1",
     "dce_dce_10_0", "dce_dce_11_0", "dce_dce_11_2", "dce_dce_6_0", "dce_dce_8_0",
     "gca_gfx_6_0", "gca_gfx_7_2", "gca_gfx_8_0", "gca_gfx_8_1",
     "gmc_gmc_6_0", "gmc_gmc_7_0", "gmc_gmc_7_1", "gmc_gmc_8_1", "gmc_gmc_8_2",
     "oss_oss_1_0", "oss_oss_2_0", "oss_oss_2_4", "oss_oss_3_0_1", "oss_oss_3_0",
     "smu_smu_6_0", "smu_smu_7_0_0", "smu_smu_7_0_1", "smu_smu_7_1_0",
     "smu_smu_7_1_1", "smu_smu_7_1_2", "smu_smu_7_1_3", "smu_smu_8_0",
     "uvd_uvd_4_0", "uvd_uvd_4_2", "uvd_uvd_5_0", "uvd_uvd_6_0",
     "vce_vce_1_0", "vce_vce_2_0", "vce_vce_3_0" >>

\* CHIP_POLARIS10
MCSupported ==
  << "gmc_gmc_8_1", "dce_dce_11_2", "gca_gfx_8_0",
     "uvd_uvd_6_3", "vce_vce_3_4", "oss_oss_3_0" >>
=============================================================================
