------------------------------ MODULE FsblCodes ------------------------------
(****************************************************************************)
(* The status words of the boot loader and the values of the registers that *)
(* carry them (xfsbl_error.h, xfsbl_main.h, xfsbl_hw.h), with their numeric *)
(* values: main() adds a stage offset to a code, so the arithmetic matters. *)
(****************************************************************************)
EXTENDS Naturals

(* Offsets that tell the stage of an error: bits 13 and 14 of the word. *)
STAGE_1 == 0
STAGE_2 == 8192
STAGE_3 == 16384
HANDOFF_FAILED == 24576

XFSBL_SUCCESS == 0
XFSBL_STATUS_JTAG == 1
XFSBL_SUCCESS_NOT_PARTITION_OWNER == 2
STATUS_PARTITION_LOAD_IN_PROGRESS == 3
XFSBL_STATUS_CONTINUE_OTHER_HANDOFF == 4
XFSBL_ERROR_UNSUPPORTED_BOOT_MODE == 6
XFSBL_ERROR_UNSUPPORTED_QSPI == 11
XFSBL_ERROR_QSPI_INIT == 12
XFSBL_ERROR_NO_OF_PARTITIONS == 13
XFSBL_ERROR_PPD == 14
XFSBL_ERROR_PARTITION_LENGTH == 17
XFSBL_ERROR_INVALID_CHECKSUM_TYPE == 18
XFSBL_ERROR_INVALID_CPU_TYPE == 19
XFSBL_ERROR_INVALID_DEST_DEVICE == 21
XFSBL_ERROR_PH_CHECKSUM_FAILED == 23
XFSBL_ERROR_QSPI_LENGTH == 25
XFSBL_ERROR_UNDEFINED_EXCEPTION == 27
XFSBL_ERROR_DATA_ABORT_EXCEPTION == 30
XFSBL_ERROR_IRQ_EXCEPTION == 31
XFSBL_ERROR_FIQ_EXCEPTION == 32
XFSBL_ERROR_QSPI_READ == 34
XFSBL_ERROR_HANDOFF_FAILED_CPUID == 35
XFSBL_ERROR_ADDRESS == 46
XFSBL_ERROR_I2C_INIT == 74
XFSBL_ERROR_UNSUPPORTED_HANDOFF == 78
XFSBL_ERROR_PM_INIT == 80
XFSBL_ERROR_UNAVAILABLE_CPU == 82
XFSBL_ERROR_QSPI_MANUAL_START == 87
XFSBL_ERROR_QSPI_PRESCALER_CLK == 88
XFSBL_PSU_INIT_FAILED == 2048
XFSBL_FAILURE == 1073741823

(* The error status register outside an error. *)
XFSBL_COMPLETED == 0
XFSBL_RUNNING == 65535

(* Reset reasons as XFsbl_GetResetReason encodes them. *)
XFSBL_SYSTEM_RESET == 0
XFSBL_PS_ONLY_RESET == 1
XFSBL_MASTER_ONLY_RESET == 2

BootModes == {"JTAG", "QSPI24", "QSPI32", "SD0", "NAND", "SD1", "EMMC", "USB",
              "SD1_LS"}

(* Modes for which XFsbl_ErrorLockDown falls back to another image. *)
FallbackModes == BootModes \ {"JTAG", "USB"}

(* Modes with a driver in this build: XFSBL_SD_0, XFSBL_SD_1 are undefined. *)
DriverModes == {"QSPI24", "QSPI32"}

(* One code of each kind of failure the code below main() can report. *)
BringUpFaults == {XFSBL_PSU_INIT_FAILED + 1, XFSBL_ERROR_I2C_INIT}
DeviceInitFaults == {XFSBL_ERROR_QSPI_INIT}
DeviceCopyFaults == {XFSBL_ERROR_QSPI_READ}

(* Codes of the vectors XFsbl_RegisterHandlers installs on an A53. *)
ExceptionCodes == {XFSBL_ERROR_UNDEFINED_EXCEPTION, XFSBL_ERROR_DATA_ABORT_EXCEPTION,
                   XFSBL_ERROR_IRQ_EXCEPTION, XFSBL_ERROR_FIQ_EXCEPTION}
==============================================================================
